------------------------------ MODULE InspLife ------------------------------
(***************************************************************************)
(* The life of an inspector, from OPEN to its destruction, shared by       *)
(*   - the analyzer thread, which serves the inspector messages            *)
(*     (analyzer/insp-server.c, analyzer/inspector/factory.c),             *)
(*   - the source worker, which commits the pending requests               *)
(*     (analyzer/inspector/overridable.c) and feeds the open channels,     *)
(*     closing those of the inspectors that were halted                    *)
(*     (analyzer/workers/channel.c), and                                   *)
(*   - the workers of the scheduler, whose tasks end well or fail; one     *)
(*     task per inspector and block, by InspSched.tla.                     *)
(* Nobody owns an inspector: it dies with its last reference.              *)
(*                                                                         *)
(* insp->state is read and written without a common lock.  stuner_mutex is *)
(* held by the source worker while it is in a window; overridable_mutex by *)
(* the analyzer thread from acquire_overridable to submit_overridable.     *)
(* Subcarrier inspectors, which repeat this one level down, are left out.  *)
(***************************************************************************)
EXTENDS Integers, FiniteSets

CONSTANTS
  Inspectors,  \* each is opened once
  Failing,     \* those whose processing may fail
  None

ASSUME InspLifeAssumption == Failing \subseteq Inspectors /\ None \notin Inspectors

VARIABLES
  state,             \* insp->state, "none" before it exists
  chan,              \* channel of the tuner: bound once privdata is set, held
                     \* once the inspector is referenced from it
  factory_userdata,  \* insp->factory_userdata # NULL
  refs,              \* the reference counter
  dead,              \* inspectors whose counter went back to 0
  listed,            \* inspector_list of the factory
  handles,           \* inspectors registered in insp_hash
  requests,          \* overridable_alloc_list, one request per inspector
  busy,              \* inspectors with a task in the scheduler
  failed,            \* history: inspectors whose processing failed
  early,             \* history: fed before suscan_inspector_factory_open ended
  thread, msg,       \* the analyzer thread, and the inspector it serves
  source, todo, fed  \* the source worker, channels to feed, the one it closes

vars == <<state, chan, factory_userdata, refs, dead, listed, handles, requests,
          busy, failed, early, thread, msg, source, todo, fed>>
object == <<state, chan, factory_userdata>>
tables == <<listed, handles, requests>>
counts == <<refs, dead>>
history == <<failed, early>>
analyzer == <<thread, msg>>
worker == <<source, todo, fed>>

Init ==
  /\ state = [n \in Inspectors |-> "none"]
  /\ chan = [n \in Inspectors |-> "none"]
  /\ factory_userdata = [n \in Inspectors |-> FALSE]
  /\ refs = [n \in Inspectors |-> 0]
  /\ dead = {} /\ listed = {} /\ handles = {} /\ requests = {} /\ busy = {}
  /\ failed = {} /\ early = {}
  /\ thread = "idle" /\ msg = None
  /\ source = "commit" /\ todo = {} /\ fed = None

SU_REF(n) == refs' = [refs EXCEPT ![n] = @ + 1] /\ UNCHANGED dead

\* suscan_refcount_dec, once for every inspector of S and once for those of T.
SU_DEREFS(S, T) ==
  LET drops(n) == (IF n \in S THEN 1 ELSE 0) + (IF n \in T THEN 1 ELSE 0)
  IN  /\ refs' = [n \in Inspectors |-> refs[n] - drops(n)]
      /\ dead' = dead \cup {n \in S \cup T : refs[n] = drops(n)}
SU_DEREF(n) == SU_DEREFS({n}, {})

Step(from, to) == thread = from /\ thread' = to /\ UNCHANGED msg
Serve(n, at) == thread = "idle" /\ thread' = at /\ msg' = n

InWindow == source \in {"window", "closing"}

-----------------------------------------------------------------------------
(* Analyzer thread: OPEN *)

\* suscan_local_analyzer_open_channel_ex, under stuner_mutex.
OpenChannel(n) ==
  /\ state[n] = "none" /\ chan[n] = "none" /\ ~InWindow
  /\ Serve(n, "new")
  /\ chan' = [chan EXCEPT ![n] = "open"]
  /\ UNCHANGED <<state, factory_userdata, counts, tables, busy, history, worker>>

Halted == {n \in listed : state[n] = "halted"}

\* Mutant: inspectors that are still halting are forgotten too.
CleanupTooEarly == {n \in listed : state[n] \in {"halting", "halted"}}

\* suscan_inspector_factory_cleanup_unsafe
suscan_inspector_factory_cleanup_unsafe == Halted

\* suscan_inspector_new, cleanup_unsafe, and the registration in the list.
NewInspector ==
  /\ Step("new", "bind")
  /\ LET C == suscan_inspector_factory_cleanup_unsafe IN
       /\ refs' = [n \in Inspectors |-> IF n = msg THEN 1
                     ELSE refs[n] - IF n \in C THEN 1 ELSE 0]
       /\ dead' = dead \cup {n \in C : refs[n] = 1}
       /\ listed' = (listed \ C) \cup {msg}
  /\ state' = [state EXCEPT ![msg] = "created"]
  /\ factory_userdata' = [factory_userdata EXCEPT ![msg] = TRUE]
  /\ UNCHANGED <<chan, handles, requests, busy, history, worker>>

\* Unknown class, or no memory: suscan_inspector_factory_open closes the channel,
\* which drops the reference of an inspector that is NULL.
NewInspectorFails ==
  /\ Step("new", "crashed")
  /\ UNCHANGED <<object, counts, tables, busy, history, worker>>

\* suscan_local_inspector_factory_bind, without stuner_mutex: first the pointer,
Bind ==
  /\ Step("bind", "ref")
  /\ chan' = [chan EXCEPT ![msg] = "bound"]
  /\ UNCHANGED <<state, factory_userdata, counts, tables, busy, history, worker>>

\* then the reference.
BindRef ==
  /\ Step("ref", "run")
  /\ chan' = [chan EXCEPT ![msg] = IF @ = "bound" THEN "held" ELSE @]
  /\ SU_REF(msg)
  /\ UNCHANGED <<state, factory_userdata, tables, busy, history, worker>>

SetRunning ==
  /\ Step("run", "register")
  /\ state' = [state EXCEPT ![msg] = "running"]
  /\ UNCHANGED <<chan, factory_userdata, counts, tables, busy, history, worker>>

suscan_local_analyzer_register_inspector ==
  /\ Step("register", "idle")
  /\ handles' = handles \cup {msg}
  /\ SU_REF(msg)
  /\ UNCHANGED <<object, listed, requests, busy, history, worker>>

-----------------------------------------------------------------------------
(* Analyzer thread: messages with a handle *)

\* suscan_local_analyzer_acquire_inspector, for CLOSE, for SET_FREQ and
\* SET_BANDWIDTH, and for the messages that only look at the inspector.  With a
\* wrong handle there is nothing to do.
suscan_local_analyzer_acquire_inspector(n) ==
  /\ n \in handles
  /\ \/ Serve(n, "halt") \/ Serve(n, "request") \/ Serve(n, "return")
  /\ SU_REF(n)
  /\ UNCHANGED <<object, tables, busy, history, worker>>

\* suscan_inspector_request_manager_acquire_overridable: with no free request
\* the lock is released to allocate one.
AcquireOverridable ==
  /\ thread = "request" /\ UNCHANGED msg
  /\ thread' \in IF state[msg] # "running" THEN {"return"}
                 ELSE {"submit"} \cup IF msg \in requests THEN {} ELSE {"allocate"}
  /\ UNCHANGED <<object, counts, tables, busy, history, worker>>

AllocateOverridable ==
  /\ Step("allocate", "submit") \/ Step("allocate", "return")
  /\ UNCHANGED <<object, counts, tables, busy, history, worker>>

suscan_inspector_request_manager_submit_overridable ==
  /\ Step("submit", "return")
  /\ requests' = requests \cup {msg}
  /\ IF msg \in requests THEN UNCHANGED counts ELSE SU_REF(msg)
  /\ UNCHANGED <<object, listed, handles, busy, history, worker>>

\* suscan_inspector_factory_halt_inspector: the test,
HaltTest ==
  /\ Step("halt", IF state[msg] = "running" THEN "halt write" ELSE "clear")
  /\ UNCHANGED <<object, counts, tables, busy, history, worker>>

\* and the write.
HaltWrite ==
  /\ Step("halt write", "clear")
  /\ state' = [state EXCEPT ![msg] = "halting"]
  /\ UNCHANGED <<chan, factory_userdata, counts, tables, busy, history, worker>>

suscan_inspector_request_manager_clear_requests ==
  /\ Step("clear", "unregister")
  /\ requests' = requests \ {msg}
  /\ SU_DEREFS({msg} \cap requests, {})
  /\ UNCHANGED <<object, listed, handles, busy, history, worker>>

suscan_local_analyzer_unregister_inspector ==
  /\ Step("unregister", "return")
  /\ handles' = handles \ {msg}
  /\ SU_DEREF(msg)
  /\ UNCHANGED <<object, listed, requests, busy, history, worker>>

suscan_local_analyzer_return_inspector ==
  /\ Step("return", "idle")
  /\ SU_DEREF(msg)
  /\ UNCHANGED <<object, tables, busy, history, worker>>

-----------------------------------------------------------------------------
(* Source worker *)

\* suscan_inspector_request_manager_commit_overridable skips the requests when
\* the lock is taken.  A request for an inspector without a channel follows a
\* NULL pointer, which ends the program: what the others do then does not matter.
CommitOverridable ==
  /\ source = "commit"
  /\ IF thread = "submit"
       THEN source' = "feed" /\ UNCHANGED <<counts, requests>>
       ELSE /\ source' = IF \A n \in requests : factory_userdata[n] THEN "feed" ELSE "crashed"
            /\ SU_DEREFS(requests, {})
            /\ requests' = {}
  /\ UNCHANGED <<object, listed, handles, busy, history, analyzer, todo, fed>>

\* A read is one window of the tuner, several, or none.
NoWindow ==
  /\ source = "feed" /\ source' = "commit"
  /\ UNCHANGED <<object, counts, tables, busy, history, analyzer, todo, fed>>

Window ==
  /\ source = "feed" /\ source' = "window"
  /\ todo' = {n \in Inspectors : chan[n] \in {"open", "bound", "held"}}
  /\ UNCHANGED <<object, counts, tables, busy, history, analyzer, fed>>

\* suscan_local_analyzer_on_channel_data, before the channel is bound.
FeedUnbound(n) ==
  /\ source = "window" /\ n \in todo /\ chan[n] = "open"
  /\ todo' = todo \ {n}
  /\ UNCHANGED <<object, counts, tables, busy, history, analyzer, source, fed>>

OpenEnded(n) == ~(msg = n /\ thread \in {"ref", "run"})

\* suscan_inspector_factory_feed: a task for the scheduler.
FeedTask(n) ==
  /\ source = "window" /\ n \in todo /\ chan[n] \in {"bound", "held"}
  /\ state[n] \in {"created", "running"}
  /\ todo' = todo \ {n}
  /\ busy' = busy \cup {n}
  /\ early' = IF OpenEnded(n) THEN early ELSE early \cup {n}
  /\ SU_REF(n)
  /\ UNCHANGED <<object, tables, failed, analyzer, source, fed>>

\* suscan_inspector_factory_feed: closure route 1.  The assertion that the
\* inspector is not HALTED is FedNotHalted.
FeedClose(n) ==
  /\ source = "window" /\ n \in todo /\ chan[n] \in {"bound", "held"}
  /\ state[n] = "halting"
  /\ source' = "closing" /\ fed' = n /\ todo' = todo \ {n}
  /\ chan' = [chan EXCEPT ![n] = "closed"]
  /\ factory_userdata' = [factory_userdata EXCEPT ![n] = FALSE]
  /\ SU_DEREF(n)
  /\ UNCHANGED <<state, tables, busy, history, analyzer>>

\* Mutant: the channel is closed and the inspector left as it is.
HaltedForgotten ==
  /\ source = "closing" /\ source' = "window" /\ fed' = None
  /\ UNCHANGED <<object, counts, tables, busy, history, analyzer, todo>>

SetHalted ==
  /\ source = "closing" /\ source' = "window" /\ fed' = None
  /\ state' = [state EXCEPT ![fed] = "halted"]
  /\ UNCHANGED <<chan, factory_userdata, counts, tables, busy, history, analyzer, todo>>

\* suscan_inspector_factory_force_sync
Sync ==
  /\ source = "window" /\ todo = {} /\ busy = {}
  /\ source' = "feed"
  /\ UNCHANGED <<object, counts, tables, busy, history, analyzer, todo, fed>>

-----------------------------------------------------------------------------
(* Workers of the scheduler: suscan_inpsched_task_cb *)

TaskFails(n) ==
  /\ n \in busy /\ n \in Failing \ failed
  /\ state' = [state EXCEPT ![n] = "halting"]
  /\ failed' = failed \cup {n}
  /\ UNCHANGED <<chan, factory_userdata, counts, tables, busy, early, analyzer, worker>>

TaskDone(n) ==
  /\ n \in busy
  /\ busy' = busy \ {n}
  /\ SU_DEREF(n)
  /\ UNCHANGED <<object, tables, history, analyzer, worker>>

-----------------------------------------------------------------------------
(* suscan_local_analyzer_dtor: both threads are gone *)

Stop ==
  /\ thread = "idle" /\ source = "commit"
  /\ thread' = "stopped" /\ source' = "stopped"
  /\ UNCHANGED <<object, counts, tables, busy, history, msg, todo, fed>>

suscan_local_analyzer_destroy_global_handles_unsafe ==
  /\ Step("stopped", "finalize")
  /\ SU_DEREFS(handles, {}) /\ handles' = {}
  /\ UNCHANGED <<object, listed, requests, busy, history, worker>>

suscan_inspector_request_manager_finalize ==
  /\ Step("finalize", "destroy")
  /\ SU_DEREFS(requests, {}) /\ requests' = {}
  /\ UNCHANGED <<object, listed, handles, busy, history, worker>>

\* The reference of the list, and that of the channels still open.
suscan_inspector_factory_destroy ==
  /\ Step("destroy", "gone")
  /\ LET Open == {n \in listed \ Halted : factory_userdata[n]} IN
       /\ SU_DEREFS(listed, Open)
       /\ chan' = [n \in Inspectors |-> IF n \in Open THEN "closed" ELSE chan[n]]
  /\ listed' = {}
  /\ UNCHANGED <<state, factory_userdata, handles, requests, busy, history, worker>>

-----------------------------------------------------------------------------
AnalyzerSteps ==
  \/ NewInspector \/ NewInspectorFails \/ Bind \/ BindRef \/ SetRunning
  \/ suscan_local_analyzer_register_inspector
  \/ AcquireOverridable \/ AllocateOverridable
  \/ suscan_inspector_request_manager_submit_overridable
  \/ HaltTest \/ HaltWrite \/ suscan_inspector_request_manager_clear_requests
  \/ suscan_local_analyzer_unregister_inspector
  \/ suscan_local_analyzer_return_inspector

SourceSteps ==
  \/ CommitOverridable \/ Window \/ SetHalted \/ Sync
  \/ \E n \in Inspectors : FeedUnbound(n) \/ FeedTask(n) \/ FeedClose(n)

Teardown ==
  \/ Stop \/ suscan_local_analyzer_destroy_global_handles_unsafe
  \/ suscan_inspector_request_manager_finalize \/ suscan_inspector_factory_destroy

Next ==
  \/ AnalyzerSteps \/ SourceSteps \/ NoWindow \/ Teardown
  \/ \E n \in Inspectors :
       \/ OpenChannel(n) \/ suscan_local_analyzer_acquire_inspector(n)
       \/ TaskFails(n) \/ TaskDone(n)

Spec == Init /\ [][Next]_vars

\* Threads that can run do, tasks end, and the source goes on delivering windows
\* of samples.
FairSpec ==
  /\ Spec
  /\ WF_vars(AnalyzerSteps) /\ WF_vars(SourceSteps)
  /\ SF_vars(Window)
  /\ \A n \in Inspectors : WF_vars(TaskDone(n))

-----------------------------------------------------------------------------
(* Properties *)

\* Inspectors, tables and threads have proper values.
TypeOK ==
  /\ state \in [Inspectors -> {"none", "created", "running", "halting", "halted"}]
  /\ chan \in [Inspectors -> {"none", "open", "bound", "held", "closed"}]
  /\ factory_userdata \in [Inspectors -> BOOLEAN]
  /\ refs \in [Inspectors -> 0 .. 6]
  /\ \A S \in {dead, listed, handles, requests, busy, failed, early, todo} :
       S \subseteq Inspectors
  /\ thread \in {"idle", "new", "bind", "ref", "run", "register", "request",
                 "allocate", "submit", "halt", "halt write", "clear",
                 "unregister", "return", "stopped", "finalize", "destroy",
                 "gone", "crashed"}
  /\ msg \in Inspectors \cup {None}
  /\ source \in {"commit", "feed", "window", "closing", "stopped", "crashed"}
  /\ fed \in Inspectors \cup {None}

Serving(n) == msg = n /\ thread \in {"request", "allocate", "submit", "halt",
                "halt write", "clear", "unregister", "return"}
Holds(n) == {h \in {"factory", "specttuner", "task", "overridable", "handle", "user"} :
               CASE h = "factory" -> n \in listed
                 [] h = "specttuner" -> chan[n] = "held"
                 [] h = "task" -> n \in busy
                 [] h = "overridable" -> n \in requests
                 [] h = "handle" -> n \in handles
                 [] h = "user" -> Serving(n)}

\* The counter is the number of parties that still point to the inspector,
\* whoever comes and goes first.
RefsExact ==
  \A n \in Inspectors \ early : state[n] # "none" => refs[n] = Cardinality(Holds(n))

\* Nobody reaches a destroyed inspector: not the tuner's channel, a task, a
\* request, the tables, or a thread in the middle of its work on it.
NoUseAfterFree ==
  \A n \in dead \ early :
    /\ Holds(n) = {} /\ chan[n] # "bound"
    /\ fed # n
    /\ ~(msg = n /\ thread \in {"bind", "ref", "run", "register"})

\* The source worker and the workers never drop the last reference:
\* suscan_refcount_dec looks at the counter without its lock, which only one
\* thread at a time may do, and return_overridable writes to the inspector after
\* its SU_DEREF.
NeverLast ==
  source # "stopped" => \A n \in Inspectors \ early :
    n \in busy \/ n \in requests \/ chan[n] = "held" =>
      n \in listed \/ n \in handles \/ Serving(n)

\* No data reaches an inspector that is HALTED, the assertion of
\* suscan_inspector_factory_feed, and none of its tasks is left.
FedNotHalted ==
  \A n \in Inspectors \ early :
    state[n] = "halted" => chan[n] = "closed" /\ n \notin busy

\* What the destructor leaves behind.
NoInspectorLeft ==
  thread = "gone" => \A n \in Inspectors : state[n] # "none" => n \in dead

\* A request is applied while its inspector has a channel.
CommitFindsChannel == source # "crashed"

\* The list of the factory owns its inspectors: none of them is destroyed.
ListOwnsInspectors == listed \cap dead = {}

\* An inspector that is being halted does get halted, unless its processing
\* failed too: halt_inspector can then turn HALTED back into HALTING.
HaltCompletes ==
  \A n \in Inspectors :
    state[n] = "halting" ~>
      state[n] = "halted" \/ n \in failed \/ source \in {"crashed", "stopped"}

=============================================================================
