--------------------------- MODULE InspLife_proofs ---------------------------
(***************************************************************************)
(* For any number of inspectors, of which any may fail: the counter of an  *)
(* inspector is the number of parties that point to it, so that nobody     *)
(* reaches it once destroyed, it is destroyed, and no data reaches it when *)
(* it is halted.  The second part is about the settings of the source: the *)
(* last request of each reaches the device, and what the client is told of *)
(* the source is what the source has.                                      *)
(***************************************************************************)
EXTENDS InspLife, SlowConf, FiniteSetTheorems, SeqLemmas

Threads == {"idle", "new", "bind", "ref", "run", "register", "request", "allocate",
            "submit", "halt", "halt write", "clear", "unregister", "return",
            "stopped", "finalize", "destroy", "gone", "crashed"}

\* TypeOK without the range of the counters, which follows.
TypeParts ==
  /\ state \in [Inspectors -> {"none", "created", "running", "halting", "halted"}]
  /\ chan \in [Inspectors -> {"none", "open", "bound", "held", "closed"}]
  /\ factory_userdata \in [Inspectors -> BOOLEAN]
  /\ refs = [n \in Inspectors |-> refs[n]]
  /\ dead \subseteq Inspectors /\ listed \subseteq Inspectors
  /\ handles \subseteq Inspectors /\ requests \subseteq Inspectors
  /\ busy \subseteq Inspectors /\ failed \subseteq Inspectors
  /\ early \subseteq Inspectors /\ todo \subseteq Inspectors
  /\ thread \in Threads
  /\ msg \in Inspectors \cup {None}
  /\ source \in {"commit", "feed", "window", "closing", "stopped", "crashed"}
  /\ fed \in Inspectors \cup {None}

One(p) == IF p THEN 1 ELSE 0

\* The reference that the tuner's channel took from somebody else: the source
\* worker closed it before the analyzer thread counted it.
Owed(n) == thread = "ref" /\ msg = n /\ chan[n] = "closed"

RefCount(n) ==
  One(n \in listed) + One(chan[n] = "held") + One(n \in busy) + One(n \in requests)
  + One(n \in handles) + One(Serving(n)) - One(Owed(n))

CountAt(n) ==
  /\ refs[n] = RefCount(n)
  /\ refs[n] = 0 /\ state[n] # "none" => n \in dead
  /\ n \in dead \ early => refs[n] = 0

CountInv == \A n \in Inspectors : CountAt(n)

Binding == {"bind", "ref", "run", "register"}
WithHandle == {"request", "allocate", "submit", "halt", "halt write", "clear", "unregister"}
TearingDown == {"stopped", "finalize", "destroy", "gone"}

\* What the analyzer thread knows of the inspector it serves.
ThreadInv ==
  /\ thread \in Binding \cup WithHandle \cup {"new", "return"} => msg \in Inspectors
  /\ thread = "new" => state[msg] = "none" /\ chan[msg] = "open"
  /\ thread = "bind" => chan[msg] = "open"
  /\ thread = "ref" => chan[msg] \in {"bound", "closed"}
  /\ thread \in Binding => msg \in listed \ handles
  /\ thread \in {"bind", "ref", "run"} /\ msg \notin early =>
       state[msg] = "created" /\ msg \notin busy
  /\ thread = "ref" /\ msg \notin early => chan[msg] = "bound"
  /\ thread \in WithHandle => msg \in handles
  /\ thread = "return" => state[msg] # "none"
  /\ thread = "unregister" => msg \notin requests
  /\ thread = "halt write" => msg \in listed
  /\ thread = "gone" => listed = {} /\ requests = {} /\ \A n \in Inspectors : chan[n] # "held"
  /\ thread = "destroy" => requests = {}
  /\ thread \in {"finalize", "destroy", "gone"} => handles = {}
  /\ thread \in TearingDown <=> source = "stopped"

\* What the source worker knows of the channels and the tasks.
SourceInv ==
  /\ todo \cap busy = {}
  /\ ~InWindow => busy = {}
  /\ source = "closing" <=> fed # None
  /\ fed # None => chan[fed] = "closed" /\ state[fed] # "none" /\ fed \notin busy
  /\ fed # None /\ fed \notin early => state[fed] = "halting"

\* The state, the channel and the tables that an inspector is in.
PlaceInv ==
  \A n \in Inspectors :
    /\ state[n] = "none" =>
         /\ n \notin listed \cup handles \cup requests \cup busy \cup dead
         /\ chan[n] \in {"none", "open"}
    /\ chan[n] = "none" => state[n] = "none"
    /\ chan[n] = "open" => msg = n /\ thread \in {"new", "bind", "crashed"}
    /\ chan[n] = "bound" => msg = n /\ thread = "ref"
    /\ thread # "gone" => (factory_userdata[n] <=> state[n] # "none" /\ chan[n] # "closed")
    /\ state[n] = "halted" => chan[n] = "closed" /\ n \notin busy
    /\ state[n] \notin {"none", "halted"} /\ thread # "gone" => n \in listed
    /\ n \in requests /\ source # "stopped" => n \in handles

Inv == TypeParts /\ CountInv /\ ThreadInv /\ SourceInv /\ PlaceInv

-----------------------------------------------------------------------------

\* The counters need no bound of their own: six parties can hold a reference,
\* and one that is owed has the list's to draw on.
LEMMA CountsBounded ==
  ASSUME CountInv, ThreadInv, NEW n \in Inspectors
  PROVE  refs[n] \in 0 .. 6
<1>1. Owed(n) => n \in listed
  BY DEF Owed, ThreadInv, Binding
<1> QED
  BY <1>1 DEF CountInv, CountAt, RefCount, One

LEMMA TypeFromInv == Inv => TypeOK
<1> SUFFICES ASSUME Inv PROVE TypeOK
  OBVIOUS
<1>1. refs \in [Inspectors -> 0 .. 6]
  BY CountsBounded DEF Inv, TypeParts
<1> QED
  BY <1>1 DEF Inv, TypeParts, TypeOK, Threads

LEMMA InitInv == Init => Inv
<1> SUFFICES ASSUME Init PROVE Inv
  OBVIOUS
<1>1. TypeParts
  BY DEF Init, TypeParts, Threads
<1>2. CountInv
  BY DEF Init, CountInv, CountAt, RefCount, One, Serving, Owed
<1>3. ThreadInv /\ SourceInv /\ PlaceInv
  BY DEF Init, ThreadInv, SourceInv, PlaceInv, Binding, WithHandle, TearingDown
<1> QED
  BY <1>1, <1>2, <1>3 DEF Inv

\* A reference is owed to an inspector that was fed early, and to no other; while
\* somebody holds one of the others it is not destroyed.
LEMMA HeldIsAlive ==
  ASSUME Inv, NEW n \in Inspectors
  PROVE  /\ RefCount(n) \in Nat /\ refs[n] = RefCount(n)
         /\ Owed(n) => n \in early /\ n \in listed
         /\ n \in listed \cup busy \cup requests \cup handles \/ chan[n] = "held" \/ Serving(n)
              => n \notin dead \ early
<1>1. /\ refs[n] = RefCount(n)
      /\ n \in dead \ early => refs[n] = 0
  BY DEF Inv, CountInv, CountAt
<1>2. Owed(n) => n \in early /\ n \in listed
  BY DEF Inv, Owed, ThreadInv, Binding
<1>3. RefCount(n) \in Nat
  BY <1>2 DEF RefCount, One
<1>4. ~Owed(n) => /\ n \in listed \cup busy \cup requests \cup handles => RefCount(n) > 0
                  /\ chan[n] = "held" \/ Serving(n) => RefCount(n) > 0
  BY DEF RefCount, One
<1> QED
  BY <1>1, <1>2, <1>3, <1>4

\* suscan_refcount_dec, once for each inspector of S.
LEMMA DropFacts ==
  ASSUME CountInv, NEW S, SU_DEREFS(S, {})
  PROVE  /\ refs' = [n \in Inspectors |-> IF n \in S THEN refs[n] - 1 ELSE refs[n]]
         /\ dead' = dead \cup {n \in S : refs[n] = 1}
<1>1. \A n \in Inspectors : refs[n] - 0 = refs[n]
  BY DEF CountInv, CountAt, RefCount, One
<1> QED
  BY <1>1 DEF SU_DEREFS

-----------------------------------------------------------------------------
(* Analyzer thread: OPEN *)

LEMMA OpenChannelInv ==
  ASSUME Inv, NEW n \in Inspectors, OpenChannel(n)
  PROVE  Inv'
<1>1. /\ state[n] = "none" /\ chan[n] = "none" /\ ~InWindow
      /\ thread = "idle" /\ thread' = "new" /\ msg' = n
      /\ chan' = [chan EXCEPT ![n] = "open"]
      /\ UNCHANGED <<state, factory_userdata, refs, dead, listed, handles, requests, busy,
                    failed, early, source, todo, fed>>
  BY DEF OpenChannel, Serve, counts, tables, history, worker
<1>2. TypeParts'
  BY <1>1 DEF Inv, TypeParts, Threads
<1>3. CountInv'
  BY <1>1 DEF Inv, CountInv, CountAt, RefCount, Serving, Owed
<1>4. ThreadInv'
  BY <1>1 DEF Inv, ThreadInv, TypeParts, Binding, WithHandle, TearingDown
<1>5. SourceInv'
  BY <1>1 DEF Inv, SourceInv
<1>6. PlaceInv'
  BY <1>1 DEF Inv, PlaceInv
<1> QED
  BY <1>2, <1>3, <1>4, <1>5, <1>6 DEF Inv

LEMMA NewInspectorInv ==
  ASSUME Inv, NewInspector
  PROVE  Inv'
<1>1. /\ thread = "new" /\ thread' = "bind"
      /\ refs' = [n \in Inspectors |-> IF n = msg THEN 1
                     ELSE refs[n] - IF n \in Halted THEN 1 ELSE 0]
      /\ dead' = dead \cup {n \in Halted : refs[n] = 1}
      /\ listed' = (listed \ Halted) \cup {msg}
      /\ state' = [state EXCEPT ![msg] = "created"]
      /\ factory_userdata' = [factory_userdata EXCEPT ![msg] = TRUE]
      /\ UNCHANGED <<chan, handles, requests, busy, failed, early, msg, source, todo, fed>>
  BY DEF NewInspector, suscan_inspector_factory_cleanup_unsafe, Step, history, worker
<1>2. TypeParts'
  BY <1>1 DEF Inv, TypeParts, Threads, ThreadInv, Halted
<1>3. CountInv'
  <2> SUFFICES ASSUME NEW m \in Inspectors PROVE CountAt(m)'
    BY DEF CountInv
  <2>1. /\ CountAt(m) /\ RefCount(m) \in Nat /\ refs[m] = RefCount(m)
        /\ Owed(m) => m \in early /\ m \in listed
        /\ m \in listed \cup busy \cup requests \cup handles \/ chan[m] = "held" \/ Serving(m)
             => m \notin dead \ early
    BY HeldIsAlive DEF Inv, CountInv
  <2>2. CASE m = msg
    <3>1. /\ refs'[m] = 1 /\ state'[m] # "none" /\ m \in listed' /\ m \notin listed
          /\ m \notin busy' \cup requests' \cup handles' /\ chan'[m] # "held"
          /\ ~Serving(m)' /\ ~Owed(m)'
      BY <1>1, <2>2 DEF Serving, Owed, Inv, TypeParts, ThreadInv, PlaceInv
    <3>2. m \notin dead /\ m \notin Halted
      BY <1>1, <2>2, <3>1 DEF Inv, ThreadInv, PlaceInv, Halted
    <3>3. RefCount(m)' = 1
      BY <3>1 DEF RefCount, One
    <3> QED
      BY <1>1, <3>1, <3>2, <3>3 DEF CountAt
  <2>3. CASE m # msg
    <3>1. /\ Serving(m)' <=> Serving(m)
          /\ ~Owed(m)' /\ ~Owed(m)
          /\ state'[m] = state[m]
          /\ refs'[m] = IF m \in Halted THEN refs[m] - 1 ELSE refs[m]
      BY <1>1, <2>1, <2>3 DEF Serving, Owed, Inv
    <3>2. m \in Halted => m \in listed /\ state[m] # "none"
      BY DEF Halted
    <3>3. CASE m \in Halted
      <4>1. m \in listed /\ m \notin listed' /\ RefCount(m)' = RefCount(m) - 1
        BY <1>1, <2>3, <3>1, <3>2, <3>3 DEF RefCount, One
      <4> QED
        BY <1>1, <2>1, <3>1, <3>2, <3>3, <4>1 DEF CountAt
    <3>4. CASE m \notin Halted
      <4>1. (m \in listed' <=> m \in listed) /\ RefCount(m)' = RefCount(m)
        BY <1>1, <2>3, <3>1, <3>4 DEF RefCount, One
      <4> QED
        BY <1>1, <2>1, <3>1, <3>4, <4>1 DEF CountAt
    <3> QED
      BY <3>3, <3>4
  <2> QED
    BY <2>2, <2>3
<1>4. ThreadInv'
  BY <1>1 DEF Inv, ThreadInv, PlaceInv, TypeParts, WithHandle, TearingDown
<1>5. SourceInv'
  BY <1>1 DEF Inv, SourceInv, ThreadInv, InWindow
<1>6. PlaceInv'
  BY <1>1 DEF Inv, Halted, PlaceInv, ThreadInv, TypeParts
<1> QED
  BY <1>2, <1>3, <1>4, <1>5, <1>6 DEF Inv

LEMMA NewInspectorFailsInv ==
  ASSUME Inv, NewInspectorFails
  PROVE  Inv'
<1>1. /\ thread = "new" /\ thread' = "crashed"
      /\ UNCHANGED <<state, chan, factory_userdata, refs, dead, listed, handles, requests,
                    busy, failed, early, msg, source, todo, fed>>
  BY DEF NewInspectorFails, Step, object, counts, tables, history, worker
<1>2. TypeParts'
  BY <1>1 DEF Inv, TypeParts, Threads
<1>3. CountInv'
  BY <1>1 DEF Inv, CountInv, CountAt, RefCount, Serving, Owed
<1>4. ThreadInv'
  BY <1>1 DEF Inv, ThreadInv, Binding, WithHandle, TearingDown
<1>5. SourceInv'
  BY <1>1 DEF Inv, SourceInv, InWindow
<1>6. PlaceInv'
  BY <1>1 DEF Inv, PlaceInv
<1> QED
  BY <1>2, <1>3, <1>4, <1>5, <1>6 DEF Inv

LEMMA BindInv ==
  ASSUME Inv, Bind
  PROVE  Inv'
<1>1. /\ thread = "bind" /\ thread' = "ref"
      /\ chan' = [chan EXCEPT ![msg] = "bound"]
      /\ UNCHANGED <<state, factory_userdata, refs, dead, listed, handles, requests, busy,
                    failed, early, msg, source, todo, fed>>
  BY DEF Bind, Step, counts, tables, history, worker
<1>2. TypeParts'
  BY <1>1 DEF Inv, TypeParts, Threads
<1>3. CountInv'
  BY <1>1 DEF Inv, CountInv, CountAt, RefCount, Serving, Owed, ThreadInv
<1>4. ThreadInv'
  BY <1>1 DEF Inv, ThreadInv, TypeParts, Binding, WithHandle, TearingDown
<1>5. SourceInv'
  BY <1>1 DEF Inv, SourceInv, ThreadInv, InWindow
<1>6. PlaceInv'
  BY <1>1 DEF Inv, PlaceInv, ThreadInv, TypeParts, Binding
<1> QED
  BY <1>2, <1>3, <1>4, <1>5, <1>6 DEF Inv

LEMMA BindRefInv ==
  ASSUME Inv, BindRef
  PROVE  Inv'
<1>1. /\ thread = "ref" /\ thread' = "run"
      /\ chan' = [chan EXCEPT ![msg] = IF @ = "bound" THEN "held" ELSE @]
      /\ refs' = [refs EXCEPT ![msg] = @ + 1]
      /\ UNCHANGED <<state, factory_userdata, dead, listed, handles, requests, busy, failed,
                    early, msg, source, todo, fed>>
  BY DEF BindRef, Step, SU_REF, tables, history, worker
<1>2. TypeParts'
  BY <1>1 DEF Inv, TypeParts, Threads
<1>3. CountInv'
  <2> SUFFICES ASSUME NEW m \in Inspectors PROVE CountAt(m)'
    BY DEF CountInv
  <2>1. /\ CountAt(m) /\ RefCount(m) \in Nat /\ refs[m] = RefCount(m)
        /\ Owed(m) => m \in early /\ m \in listed
        /\ m \in listed \cup busy \cup requests \cup handles \/ chan[m] = "held" \/ Serving(m)
             => m \notin dead \ early
    BY HeldIsAlive DEF Inv, CountInv
  <2>2. CASE m = msg
    <3>1. refs'[m] = refs[m] + 1 /\ m \in listed /\ ~Serving(m) /\ ~Serving(m)' /\ ~Owed(m)'
      BY <1>1, <2>2 DEF Serving, Owed, Inv, TypeParts, ThreadInv, Binding
    <3>2. \/ chan[m] = "bound" /\ chan'[m] = "held" /\ ~Owed(m)
          \/ chan[m] = "closed" /\ chan'[m] = "closed" /\ Owed(m)
      BY <1>1, <2>2 DEF Owed, Inv, TypeParts, ThreadInv
    <3>3. RefCount(m)' = RefCount(m) + 1
      BY <1>1, <3>1, <3>2 DEF RefCount, One
    <3> QED
      BY <1>1, <2>1, <2>2, <3>1, <3>2, <3>3 DEF CountAt
  <2>3. CASE m # msg
    <3>1. /\ Serving(m)' <=> Serving(m)
          /\ Owed(m)' <=> Owed(m)
          /\ refs'[m] = refs[m] /\ chan'[m] = chan[m]
          /\ m \in busy' <=> m \in busy
      BY <1>1, <2>3 DEF Serving, Owed, Inv
    <3>2. RefCount(m)' = RefCount(m)
      BY <1>1, <2>3, <3>1 DEF RefCount, One
    <3> QED
      BY <1>1, <2>1, <2>3, <3>1, <3>2 DEF CountAt
  <2> QED
    BY <2>2, <2>3
<1>4. ThreadInv'
  BY <1>1 DEF Inv, ThreadInv, Binding, WithHandle, TearingDown
<1>5. SourceInv'
  BY <1>1 DEF Inv, SourceInv, InWindow
<1>6. PlaceInv'
  BY <1>1 DEF Inv, PlaceInv, TypeParts
<1> QED
  BY <1>2, <1>3, <1>4, <1>5, <1>6 DEF Inv

LEMMA SetRunningInv ==
  ASSUME Inv, SetRunning
  PROVE  Inv'
<1>1. /\ thread = "run" /\ thread' = "register"
      /\ state' = [state EXCEPT ![msg] = "running"]
      /\ UNCHANGED <<chan, factory_userdata, refs, dead, listed, handles, requests, busy,
                    failed, early, msg, source, todo, fed>>
  BY DEF SetRunning, Step, counts, tables, history, worker
<1>2. TypeParts'
  BY <1>1 DEF Inv, TypeParts, Threads
<1>3. CountInv'
  BY <1>1 DEF Inv, CountInv, CountAt, RefCount, One, Serving, Owed, ThreadInv, Binding
<1>4. ThreadInv'
  BY <1>1 DEF Inv, ThreadInv, Binding, WithHandle, TearingDown
<1>5. SourceInv'
  BY <1>1 DEF Inv, SourceInv, ThreadInv, InWindow
<1>6. PlaceInv'
  BY <1>1 DEF Inv, PlaceInv, ThreadInv, Binding
<1> QED
  BY <1>2, <1>3, <1>4, <1>5, <1>6 DEF Inv

LEMMA RegisterInv ==
  ASSUME Inv, suscan_local_analyzer_register_inspector
  PROVE  Inv'
<1>1. /\ thread = "register" /\ thread' = "idle"
      /\ handles' = handles \cup {msg}
      /\ refs' = [refs EXCEPT ![msg] = @ + 1]
      /\ UNCHANGED <<state, chan, factory_userdata, dead, listed, requests, busy, failed,
                    early, msg, source, todo, fed>>
  BY DEF suscan_local_analyzer_register_inspector, Step, SU_REF, object, history, worker
<1>2. TypeParts'
  BY <1>1 DEF Inv, TypeParts, Threads, ThreadInv, Binding
<1>3. CountInv'
  BY <1>1
  DEF Inv, CountInv, CountAt, RefCount, One, Serving, Owed, TypeParts, ThreadInv, Binding
<1>4. ThreadInv'
  BY <1>1 DEF Inv, ThreadInv, Binding, TearingDown
<1>5. SourceInv'
  BY <1>1 DEF Inv, SourceInv, InWindow
<1>6. PlaceInv'
  BY <1>1 DEF Inv, PlaceInv, ThreadInv, Binding
<1> QED
  BY <1>2, <1>3, <1>4, <1>5, <1>6 DEF Inv

-----------------------------------------------------------------------------
(* Analyzer thread: messages with a handle *)

LEMMA AcquireInspectorInv ==
  ASSUME Inv, NEW n \in Inspectors, suscan_local_analyzer_acquire_inspector(n)
  PROVE  Inv'
<1>1. /\ n \in handles /\ thread = "idle" /\ thread' \in {"halt", "request", "return"} /\ msg' = n
      /\ refs' = [refs EXCEPT ![n] = @ + 1]
      /\ UNCHANGED <<state, chan, factory_userdata, dead, listed, handles, requests, busy,
                    failed, early, source, todo, fed>>
  BY DEF suscan_local_analyzer_acquire_inspector, Serve, SU_REF, object, tables, history,
         worker
<1>2. TypeParts'
  BY <1>1 DEF Inv, TypeParts, Threads
<1>3. CountInv'
  <2> SUFFICES ASSUME NEW m \in Inspectors PROVE CountAt(m)'
    BY DEF CountInv
  <2>1. /\ CountAt(m) /\ RefCount(m) \in Nat /\ refs[m] = RefCount(m)
        /\ Owed(m) => m \in early /\ m \in listed
        /\ m \in listed \cup busy \cup requests \cup handles \/ chan[m] = "held" \/ Serving(m)
             => m \notin dead \ early
    BY HeldIsAlive DEF Inv, CountInv
  <2>2. CASE m = n
    <3>1. /\ refs'[m] = refs[m] + 1 /\ m \in handles
          /\ ~Serving(m) /\ Serving(m)' /\ ~Owed(m) /\ ~Owed(m)'
      BY <1>1, <2>2 DEF Serving, Owed, Inv, TypeParts
    <3>2. RefCount(m)' = RefCount(m) + 1
      BY <1>1, <3>1 DEF RefCount, One
    <3> QED
      BY <1>1, <2>1, <2>2, <3>1, <3>2 DEF CountAt
  <2>3. CASE m # n
    <3>1. /\ Serving(m)' <=> Serving(m)
          /\ Owed(m)' <=> Owed(m)
          /\ refs'[m] = refs[m] /\ chan'[m] = chan[m]
          /\ m \in busy' <=> m \in busy
      BY <1>1, <2>3 DEF Serving, Owed, Inv, TypeParts
    <3>2. RefCount(m)' = RefCount(m)
      BY <1>1, <2>3, <3>1 DEF RefCount, One
    <3> QED
      BY <1>1, <2>1, <2>3, <3>1, <3>2 DEF CountAt
  <2> QED
    BY <2>2, <2>3
<1>4. ThreadInv'
  BY <1>1 DEF Inv, ThreadInv, PlaceInv, Binding, TearingDown
<1>5. SourceInv'
  BY <1>1 DEF Inv, SourceInv, InWindow
<1>6. PlaceInv'
  BY <1>1 DEF Inv, PlaceInv
<1> QED
  BY <1>2, <1>3, <1>4, <1>5, <1>6 DEF Inv

\* A request is looked for or allocated, or the state is looked at.
LEMMA RequestMoveInv ==
  ASSUME Inv, AcquireOverridable \/ AllocateOverridable \/ HaltTest
  PROVE  Inv'
<1>1. /\ thread \in {"request", "allocate", "halt"}
      /\ thread' \in {"allocate", "submit", "return", "halt write", "clear"}
      /\ thread' = "halt write" => state[msg] = "running"
      /\ UNCHANGED <<state, chan, factory_userdata, refs, dead, listed, handles, requests,
                    busy, failed, early, msg, source, todo, fed>>
  BY DEF AcquireOverridable, AllocateOverridable, HaltTest, Step, object, counts, tables,
         history, worker
<1>2. TypeParts'
  BY <1>1 DEF Inv, TypeParts, Threads
<1>3. CountInv'
  <2>1. \A m \in Inspectors : (Serving(m)' <=> Serving(m)) /\ (Owed(m)' <=> Owed(m))
    BY <1>1 DEF Serving, Owed
  <2> QED
    BY <1>1, <2>1, ZenonT(60) DEF Inv, CountInv, CountAt, RefCount, One
<1>4. ThreadInv'
  BY <1>1 DEF Inv, ThreadInv, PlaceInv, Binding, WithHandle, TearingDown
<1>5. SourceInv'
  BY <1>1 DEF Inv, SourceInv, InWindow
<1>6. PlaceInv'
  BY <1>1 DEF Inv, PlaceInv
<1> QED
  BY <1>2, <1>3, <1>4, <1>5, <1>6 DEF Inv

LEMMA SubmitInv ==
  ASSUME Inv, suscan_inspector_request_manager_submit_overridable
  PROVE  Inv'
<1>1. /\ thread = "submit" /\ thread' = "return"
      /\ requests' = requests \cup {msg}
      /\ refs' = IF msg \in requests THEN refs ELSE [refs EXCEPT ![msg] = @ + 1]
      /\ UNCHANGED <<state, chan, factory_userdata, dead, listed, handles, busy, failed,
                    early, msg, source, todo, fed>>
  BY DEF suscan_inspector_request_manager_submit_overridable, Step, SU_REF, object, counts,
         history, worker
<1>2. TypeParts'
  BY <1>1 DEF Inv, TypeParts, Threads, ThreadInv, WithHandle
<1>3. CountInv'
  BY <1>1 DEF Inv, CountInv, CountAt, RefCount, One, Serving, Owed, TypeParts
<1>4. ThreadInv'
  BY <1>1 DEF Inv, ThreadInv, PlaceInv, Binding, WithHandle, TearingDown
<1>5. SourceInv'
  BY <1>1 DEF Inv, SourceInv, InWindow
<1>6. PlaceInv'
  BY <1>1 DEF Inv, PlaceInv, ThreadInv, WithHandle
<1> QED
  BY <1>2, <1>3, <1>4, <1>5, <1>6 DEF Inv

LEMMA HaltWriteInv ==
  ASSUME Inv, HaltWrite
  PROVE  Inv'
<1>1. /\ thread = "halt write" /\ thread' = "clear"
      /\ state' = [state EXCEPT ![msg] = "halting"]
      /\ UNCHANGED <<chan, factory_userdata, refs, dead, listed, handles, requests, busy,
                    failed, early, msg, source, todo, fed>>
  BY DEF HaltWrite, Step, counts, tables, history, worker
<1>2. TypeParts'
  BY <1>1 DEF Inv, TypeParts, Threads
<1>3. CountInv'
  BY <1>1, ZenonT(60)
  DEF Inv, CountInv, CountAt, RefCount, One, Serving, Owed, TypeParts, ThreadInv,
      SourceInv, PlaceInv, InWindow, Binding, WithHandle, TearingDown
<1>4. ThreadInv'
  BY <1>1 DEF Inv, ThreadInv, Binding, WithHandle, TearingDown
<1>5. SourceInv'
  BY <1>1 DEF Inv, SourceInv, TypeParts, InWindow
<1>6. PlaceInv'
  BY <1>1 DEF Inv, PlaceInv, ThreadInv, TypeParts
<1> QED
  BY <1>2, <1>3, <1>4, <1>5, <1>6 DEF Inv

LEMMA ClearInv ==
  ASSUME Inv, suscan_inspector_request_manager_clear_requests
  PROVE  Inv'
<1>1. /\ thread = "clear" /\ thread' = "unregister"
      /\ requests' = requests \ {msg}
      /\ refs' = [n \in Inspectors |-> IF n \in {msg} \cap requests THEN refs[n] - 1 ELSE refs[n]]
      /\ dead' = dead \cup {n \in {msg} \cap requests : refs[n] = 1}
      /\ UNCHANGED <<state, chan, factory_userdata, listed, handles, busy, failed, early,
                    msg, source, todo, fed>>
  BY DropFacts
  DEF Inv, suscan_inspector_request_manager_clear_requests, Step, object, history, worker
<1>2. TypeParts'
  BY <1>1 DEF Inv, TypeParts, Threads
<1>3. CountInv'
  BY <1>1 DEF Inv, CountInv, CountAt, RefCount, One, Serving, Owed
<1>4. ThreadInv'
  BY <1>1 DEF Inv, ThreadInv, Binding, WithHandle, TearingDown
<1>5. SourceInv'
  BY <1>1 DEF Inv, SourceInv, InWindow
<1>6. PlaceInv'
  BY <1>1 DEF Inv, PlaceInv
<1> QED
  BY <1>2, <1>3, <1>4, <1>5, <1>6 DEF Inv

LEMMA UnregisterInv ==
  ASSUME Inv, suscan_local_analyzer_unregister_inspector
  PROVE  Inv'
<1>1. /\ thread = "unregister" /\ thread' = "return"
      /\ handles' = handles \ {msg}
      /\ refs' = [n \in Inspectors |-> IF n \in {msg} THEN refs[n] - 1 ELSE refs[n]]
      /\ dead' = dead \cup {n \in {msg} : refs[n] = 1}
      /\ UNCHANGED <<state, chan, factory_userdata, listed, requests, busy, failed, early,
                    msg, source, todo, fed>>
  BY DropFacts
  DEF Inv, suscan_local_analyzer_unregister_inspector, Step, SU_DEREF, object, history,
      worker
<1>2. TypeParts'
  BY <1>1 DEF Inv, TypeParts, Threads, ThreadInv, WithHandle
<1>3. CountInv'
  BY <1>1 DEF Inv, CountInv, CountAt, RefCount, One, Serving, Owed, ThreadInv, WithHandle
<1>4. ThreadInv'
  BY <1>1 DEF Inv, ThreadInv, PlaceInv, Binding, WithHandle, TearingDown
<1>5. SourceInv'
  BY <1>1 DEF Inv, SourceInv, InWindow
<1>6. PlaceInv'
  BY <1>1 DEF Inv, PlaceInv, ThreadInv, WithHandle
<1> QED
  BY <1>2, <1>3, <1>4, <1>5, <1>6 DEF Inv

LEMMA ReturnInv ==
  ASSUME Inv, suscan_local_analyzer_return_inspector
  PROVE  Inv'
<1>1. /\ thread = "return" /\ thread' = "idle"
      /\ refs' = [n \in Inspectors |-> IF n \in {msg} THEN refs[n] - 1 ELSE refs[n]]
      /\ dead' = dead \cup {n \in {msg} : refs[n] = 1}
      /\ UNCHANGED <<state, chan, factory_userdata, listed, handles, requests, busy, failed,
                    early, msg, source, todo, fed>>
  BY DropFacts
  DEF Inv, suscan_local_analyzer_return_inspector, Step, SU_DEREF, object, tables,
      history, worker
<1>2. TypeParts'
  BY <1>1 DEF Inv, TypeParts, Threads, ThreadInv
<1>3. CountInv'
  BY <1>1 DEF Inv, CountInv, CountAt, RefCount, One, Serving, Owed
<1>4. ThreadInv'
  BY <1>1 DEF Inv, ThreadInv, Binding, WithHandle, TearingDown
<1>5. SourceInv'
  BY <1>1 DEF Inv, SourceInv, InWindow
<1>6. PlaceInv'
  BY <1>1 DEF Inv, PlaceInv, ThreadInv
<1> QED
  BY <1>2, <1>3, <1>4, <1>5, <1>6 DEF Inv

-----------------------------------------------------------------------------
(* Source worker *)

LEMMA CommitSkipInv ==
  ASSUME Inv, CommitOverridable, thread = "submit"
  PROVE  Inv'
<1>1. /\ source = "commit" /\ source' = "feed"
      /\ UNCHANGED <<state, chan, factory_userdata, refs, dead, listed, handles, requests,
                    busy, failed, early, thread, msg, todo, fed>>
  BY DEF CommitOverridable, object, counts, history, analyzer
<1>2. TypeParts'
  BY <1>1 DEF Inv, TypeParts
<1>3. CountInv'
  BY <1>1 DEF Inv, CountInv, CountAt, RefCount, Serving, Owed
<1>4. ThreadInv'
  BY <1>1 DEF Inv, ThreadInv
<1>5. SourceInv'
  BY <1>1 DEF Inv, SourceInv, InWindow
<1>6. PlaceInv'
  BY <1>1 DEF Inv, PlaceInv
<1> QED
  BY <1>2, <1>3, <1>4, <1>5, <1>6 DEF Inv

LEMMA CommitInv ==
  ASSUME Inv, CommitOverridable, thread # "submit"
  PROVE  Inv'
<1>1. /\ source = "commit" /\ source' \in {"feed", "crashed"}
      /\ requests' = {}
      /\ refs' = [n \in Inspectors |-> IF n \in requests THEN refs[n] - 1 ELSE refs[n]]
      /\ dead' = dead \cup {n \in requests : refs[n] = 1}
      /\ UNCHANGED <<state, chan, factory_userdata, listed, handles, busy, failed, early,
                    thread, msg, todo, fed>>
  BY DropFacts DEF Inv, CommitOverridable, object, history, analyzer
<1>2. TypeParts'
  BY <1>1 DEF Inv, TypeParts
<1>3. CountInv'
  <2> SUFFICES ASSUME NEW m \in Inspectors PROVE CountAt(m)'
    BY DEF CountInv
  <2>1. (Serving(m)' <=> Serving(m)) /\ (Owed(m)' <=> Owed(m))
    BY <1>1 DEF Serving, Owed
  <2>2. CASE m \in requests
    <3>1. RefCount(m)' = RefCount(m) - 1 /\ refs'[m] = refs[m] - 1
      BY <1>1, <2>1, <2>2 DEF RefCount, One
    <3> QED
      BY <1>1, <2>2, <3>1, HeldIsAlive DEF CountAt
  <2>3. CASE m \notin requests
    <3>1. RefCount(m)' = RefCount(m) /\ refs'[m] = refs[m]
      BY <1>1, <2>1, <2>3 DEF RefCount, One
    <3> QED
      BY <1>1, <2>3, <3>1 DEF CountAt, CountInv, Inv
  <2> QED
    BY <2>2, <2>3
<1>4. ThreadInv'
  BY <1>1 DEF Inv, ThreadInv
<1>5. SourceInv'
  BY <1>1 DEF Inv, SourceInv, InWindow
<1>6. PlaceInv'
  BY <1>1 DEF Inv, PlaceInv
<1> QED
  BY <1>2, <1>3, <1>4, <1>5, <1>6 DEF Inv

\* The source worker begins or ends a window, or skips a channel.
LEMMA WindowMoveInv ==
  ASSUME Inv, NoWindow \/ Window \/ Sync \/ \E n \in Inspectors : FeedUnbound(n)
  PROVE  Inv'
<1>1. /\ source \in {"feed", "window"} /\ source' \in {"feed", "window", "commit"}
      /\ source = "window" /\ source' # "window" => busy = {}
      /\ source = "feed" \/ todo' \subseteq todo
      /\ todo' \subseteq Inspectors
      /\ UNCHANGED <<state, chan, factory_userdata, refs, dead, listed, handles, requests,
                    busy, failed, early, thread, msg, fed>>
  BY DEF NoWindow, Window, Sync, FeedUnbound, Inv, TypeParts, object, counts, tables,
         history, analyzer
<1>2. TypeParts'
  BY <1>1 DEF Inv, TypeParts
<1>3. CountInv'
  <2> SUFFICES ASSUME NEW m \in Inspectors PROVE CountAt(m)'
    BY DEF CountInv
  <2> QED
    BY <1>1
    DEF Inv, CountInv, CountAt, RefCount, One, Serving, Owed, ThreadInv, InWindow,
        Binding, WithHandle, TearingDown
<1>4. ThreadInv'
  BY <1>1 DEF Inv, ThreadInv, Binding, WithHandle
<1>5. SourceInv'
  BY <1>1 DEF Inv, SourceInv, InWindow
<1>6. PlaceInv'
  BY <1>1 DEF Inv, PlaceInv
<1> QED
  BY <1>2, <1>3, <1>4, <1>5, <1>6 DEF Inv

LEMMA FeedTaskInv ==
  ASSUME Inv, NEW n \in Inspectors, FeedTask(n)
  PROVE  Inv'
<1>1. /\ source = "window" /\ n \in todo /\ chan[n] \in {"bound", "held"}
      /\ state[n] \in {"created", "running"}
      /\ todo' = todo \ {n} /\ busy' = busy \cup {n}
      /\ early' = IF OpenEnded(n) THEN early ELSE early \cup {n}
      /\ refs' = [refs EXCEPT ![n] = @ + 1]
      /\ UNCHANGED <<state, chan, factory_userdata, dead, listed, handles, requests, failed,
                    thread, msg, source, fed>>
  BY DEF FeedTask, SU_REF, object, tables, analyzer
<1>2. TypeParts'
  BY <1>1 DEF Inv, TypeParts
<1>3. CountInv'
  <2> SUFFICES ASSUME NEW m \in Inspectors PROVE CountAt(m)'
    BY DEF CountInv
  <2>1. /\ CountAt(m) /\ RefCount(m) \in Nat /\ refs[m] = RefCount(m)
        /\ Owed(m) => m \in early /\ m \in listed
        /\ m \in listed \cup busy \cup requests \cup handles \/ chan[m] = "held" \/ Serving(m)
             => m \notin dead \ early
    BY HeldIsAlive DEF Inv, CountInv
  <2>2. CASE m = n
    <3>1. /\ refs'[m] = refs[m] + 1 /\ m \notin busy /\ m \in busy'
          /\ Serving(m)' <=> Serving(m)
          /\ ~Owed(m) /\ ~Owed(m)'
      BY <1>1, <2>2 DEF Serving, Owed, Inv, TypeParts, SourceInv
    <3>2. m \in dead \ early' => m \in dead \ early /\ chan[m] = "held"
      BY <1>1, <2>2 DEF Inv, PlaceInv, OpenEnded
    <3>3. RefCount(m)' = RefCount(m) + 1
      BY <1>1, <3>1, <3>2 DEF RefCount, One
    <3> QED
      BY <1>1, <2>1, <2>2, <3>1, <3>2, <3>3 DEF CountAt
  <2>3. CASE m # n
    <3>1. /\ Serving(m)' <=> Serving(m)
          /\ Owed(m)' <=> Owed(m)
          /\ refs'[m] = refs[m] /\ chan'[m] = chan[m]
          /\ m \in busy' <=> m \in busy
      BY <1>1, <2>3 DEF Serving, Owed, Inv
    <3>2. RefCount(m)' = RefCount(m)
      BY <1>1, <2>3, <3>1 DEF RefCount, One
    <3> QED
      BY <1>1, <2>1, <2>3, <3>1, <3>2 DEF CountAt
  <2> QED
    BY <2>2, <2>3
<1>4. ThreadInv'
  BY <1>1 DEF Inv, ThreadInv, OpenEnded
<1>5. SourceInv'
  BY <1>1 DEF Inv, SourceInv, InWindow
<1>6. PlaceInv'
  BY <1>1 DEF Inv, PlaceInv
<1> QED
  BY <1>2, <1>3, <1>4, <1>5, <1>6 DEF Inv

LEMMA FeedCloseInv ==
  ASSUME Inv, NEW n \in Inspectors, FeedClose(n)
  PROVE  Inv'
<1>1. /\ source = "window" /\ n \in todo /\ chan[n] \in {"bound", "held"} /\ state[n] = "halting"
      /\ source' = "closing" /\ fed' = n /\ todo' = todo \ {n}
      /\ chan' = [chan EXCEPT ![n] = "closed"]
      /\ factory_userdata' = [factory_userdata EXCEPT ![n] = FALSE]
      /\ refs' = [m \in Inspectors |-> IF m \in {n} THEN refs[m] - 1 ELSE refs[m]]
      /\ dead' = dead \cup {m \in {n} : refs[m] = 1}
      /\ UNCHANGED <<state, listed, handles, requests, busy, failed, early, thread, msg>>
  BY DropFacts DEF Inv, FeedClose, SU_DEREF, tables, history, analyzer
<1>2. TypeParts'
  BY <1>1 DEF Inv, TypeParts
<1>3. CountInv'
  <2> SUFFICES ASSUME NEW m \in Inspectors PROVE CountAt(m)'
    BY DEF CountInv
  <2>1. /\ CountAt(m) /\ RefCount(m) \in Nat /\ refs[m] = RefCount(m)
        /\ Owed(m) => m \in early /\ m \in listed
        /\ m \in listed \cup busy \cup requests \cup handles \/ chan[m] = "held" \/ Serving(m)
             => m \notin dead \ early
    BY HeldIsAlive DEF Inv, CountInv
  <2>2. CASE m = n
    <3>1. /\ refs'[m] = refs[m] - 1 /\ chan'[m] = "closed" /\ ~Owed(m)
          /\ Serving(m)' <=> Serving(m)
      BY <1>1, <2>2 DEF Serving, Owed, Inv, TypeParts
    <3>2. \/ chan[m] = "held" /\ ~Owed(m)'
          \/ chan[m] = "bound" /\ Owed(m)' /\ m \in early
      BY <1>1, <2>2 DEF Owed, Inv, TypeParts, PlaceInv, ThreadInv
    <3>3. RefCount(m)' = RefCount(m) - 1
      BY <1>1, <3>1, <3>2 DEF RefCount, One
    <3> QED
      BY <1>1, <2>1, <2>2, <3>1, <3>2, <3>3 DEF CountAt
  <2>3. CASE m # n
    <3>1. /\ Serving(m)' <=> Serving(m)
          /\ Owed(m)' <=> Owed(m)
          /\ refs'[m] = refs[m] /\ chan'[m] = chan[m]
          /\ m \in busy' <=> m \in busy
      BY <1>1, <2>3 DEF Serving, Owed, Inv
    <3>2. RefCount(m)' = RefCount(m)
      BY <1>1, <2>3, <3>1 DEF RefCount, One
    <3> QED
      BY <1>1, <2>1, <2>3, <3>1, <3>2 DEF CountAt
  <2> QED
    BY <2>2, <2>3
<1>4. ThreadInv'
  BY <1>1 DEF Inv, ThreadInv, TypeParts, Binding
<1>5. SourceInv'
  BY <1>1, InspLifeAssumption DEF Inv, SourceInv, TypeParts, InWindow
<1>6. PlaceInv'
  BY <1>1 DEF Inv, PlaceInv, TypeParts, InWindow, TearingDown
<1> QED
  BY <1>2, <1>3, <1>4, <1>5, <1>6 DEF Inv

LEMMA SetHaltedInv ==
  ASSUME Inv, SetHalted
  PROVE  Inv'
<1>1. /\ source = "closing" /\ source' = "window" /\ fed' = None
      /\ state' = [state EXCEPT ![fed] = "halted"]
      /\ UNCHANGED <<chan, factory_userdata, refs, dead, listed, handles, requests, busy,
                    failed, early, thread, msg, todo>>
  BY DEF SetHalted, counts, tables, history, analyzer
<1>2. TypeParts'
  BY <1>1 DEF Inv, TypeParts
<1>3. CountInv'
  <2> SUFFICES ASSUME NEW m \in Inspectors PROVE CountAt(m)'
    BY DEF CountInv
  <2>1. CASE m = fed
    BY <1>1, <2>1 DEF Inv, CountInv, CountAt, RefCount, Serving, Owed, SourceInv
  <2>2. CASE m # fed
    BY <1>1, <2>2, ZenonT(60)
    DEF Inv, CountInv, CountAt, RefCount, One, Serving, Owed, TypeParts, ThreadInv,
        SourceInv, PlaceInv, InWindow, Binding, WithHandle, TearingDown
  <2> QED
    BY <2>1, <2>2
<1>4. ThreadInv'
  BY <1>1 DEF Inv, ThreadInv, SourceInv, TypeParts, Binding
<1>5. SourceInv'
  BY <1>1 DEF Inv, SourceInv, InWindow
<1>6. PlaceInv'
  BY <1>1 DEF Inv, PlaceInv, SourceInv, TypeParts
<1> QED
  BY <1>2, <1>3, <1>4, <1>5, <1>6 DEF Inv

-----------------------------------------------------------------------------
(* Workers of the scheduler *)

LEMMA TaskFailsInv ==
  ASSUME Inv, NEW n \in Inspectors, TaskFails(n)
  PROVE  Inv'
<1>1. /\ n \in busy /\ n \in Failing \ failed
      /\ state' = [state EXCEPT ![n] = "halting"]
      /\ failed' = failed \cup {n}
      /\ UNCHANGED <<chan, factory_userdata, refs, dead, listed, handles, requests, busy,
                    early, thread, msg, source, todo, fed>>
  BY DEF TaskFails, counts, tables, analyzer, worker
<1>2. TypeParts'
  BY <1>1 DEF Inv, TypeParts
<1>3. CountInv'
  <2> SUFFICES ASSUME NEW m \in Inspectors PROVE CountAt(m)'
    BY DEF CountInv
  <2>1. CASE m = n
    BY <1>1, <2>1
    DEF Inv, CountInv, CountAt, RefCount, One, Serving, Owed, PlaceInv, InWindow, Binding,
        WithHandle, TearingDown
  <2>2. CASE m # n
    BY <1>1, <2>2
    DEF Inv, CountInv, CountAt, RefCount, One, Serving, Owed, TypeParts, ThreadInv,
        InWindow, Binding, WithHandle, TearingDown
  <2> QED
    BY <2>1, <2>2
<1>4. ThreadInv'
  BY <1>1 DEF Inv, ThreadInv, PlaceInv, TypeParts, Binding
<1>5. SourceInv'
  BY <1>1 DEF Inv, SourceInv, TypeParts, InWindow
<1>6. PlaceInv'
  BY <1>1 DEF Inv, PlaceInv, TypeParts, InWindow, Binding, TearingDown
<1> QED
  BY <1>2, <1>3, <1>4, <1>5, <1>6 DEF Inv

LEMMA TaskDoneInv ==
  ASSUME Inv, NEW n \in Inspectors, TaskDone(n)
  PROVE  Inv'
<1>1. /\ n \in busy
      /\ busy' = busy \ {n}
      /\ refs' = [m \in Inspectors |-> IF m \in {n} THEN refs[m] - 1 ELSE refs[m]]
      /\ dead' = dead \cup {m \in {n} : refs[m] = 1}
      /\ UNCHANGED <<state, chan, factory_userdata, listed, handles, requests, failed, early,
                    thread, msg, source, todo, fed>>
  BY DropFacts DEF Inv, TaskDone, SU_DEREF, object, tables, history, analyzer, worker
<1>2. TypeParts'
  BY <1>1 DEF Inv, TypeParts
<1>3. CountInv'
  <2> SUFFICES ASSUME NEW m \in Inspectors PROVE CountAt(m)'
    BY DEF CountInv
  <2>1. /\ CountAt(m) /\ RefCount(m) \in Nat /\ refs[m] = RefCount(m)
        /\ Owed(m) => m \in early /\ m \in listed
        /\ m \in listed \cup busy \cup requests \cup handles \/ chan[m] = "held" \/ Serving(m)
             => m \notin dead \ early
    BY HeldIsAlive DEF Inv, CountInv
  <2>2. CASE m = n
    <3>1. /\ refs'[m] = refs[m] - 1 /\ m \in busy /\ m \notin busy'
          /\ Serving(m)' <=> Serving(m)
          /\ Owed(m)' <=> Owed(m)
      BY <1>1, <2>2 DEF Serving, Owed, Inv
    <3>2. RefCount(m)' = RefCount(m) - 1
      BY <1>1, <3>1 DEF RefCount, One
    <3> QED
      BY <1>1, <2>1, <2>2, <3>1, <3>2 DEF CountAt
  <2>3. CASE m # n
    <3>1. /\ Serving(m)' <=> Serving(m)
          /\ Owed(m)' <=> Owed(m)
          /\ refs'[m] = refs[m] /\ chan'[m] = chan[m]
          /\ m \in busy' <=> m \in busy
      BY <1>1, <2>3 DEF Serving, Owed, Inv
    <3>2. RefCount(m)' = RefCount(m)
      BY <1>1, <2>3, <3>1 DEF RefCount, One
    <3> QED
      BY <1>1, <2>1, <2>3, <3>1, <3>2 DEF CountAt
  <2> QED
    BY <2>2, <2>3
<1>4. ThreadInv'
  BY <1>1 DEF Inv, ThreadInv, SourceInv, TypeParts, InWindow
<1>5. SourceInv'
  BY <1>1 DEF Inv, SourceInv, InWindow
<1>6. PlaceInv'
  BY <1>1 DEF Inv, PlaceInv
<1> QED
  BY <1>2, <1>3, <1>4, <1>5, <1>6 DEF Inv

-----------------------------------------------------------------------------
(* The destructor *)

LEMMA StopInv ==
  ASSUME Inv, Stop
  PROVE  Inv'
<1>1. /\ thread = "idle" /\ source = "commit" /\ thread' = "stopped" /\ source' = "stopped"
      /\ UNCHANGED <<state, chan, factory_userdata, refs, dead, listed, handles, requests,
                    busy, failed, early, msg, todo, fed>>
  BY DEF Stop, object, counts, tables, history
<1>2. TypeParts'
  BY <1>1 DEF Inv, TypeParts, Threads
<1>3. CountInv'
  BY <1>1 DEF Inv, CountInv, CountAt, RefCount, Serving, Owed
<1>4. ThreadInv'
  BY <1>1 DEF Inv, ThreadInv, Binding, WithHandle, TearingDown
<1>5. SourceInv'
  BY <1>1 DEF Inv, SourceInv, InWindow
<1>6. PlaceInv'
  BY <1>1 DEF Inv, PlaceInv
<1> QED
  BY <1>2, <1>3, <1>4, <1>5, <1>6 DEF Inv

LEMMA DestroyHandlesInv ==
  ASSUME Inv, suscan_local_analyzer_destroy_global_handles_unsafe
  PROVE  Inv'
<1>1. /\ thread = "stopped" /\ thread' = "finalize"
      /\ handles' = {}
      /\ refs' = [n \in Inspectors |-> IF n \in handles THEN refs[n] - 1 ELSE refs[n]]
      /\ dead' = dead \cup {n \in handles : refs[n] = 1}
      /\ UNCHANGED <<state, chan, factory_userdata, listed, requests, busy, failed, early,
                    msg, source, todo, fed>>
  BY DropFacts
  DEF Inv, suscan_local_analyzer_destroy_global_handles_unsafe, Step, object, history,
      worker
<1>2. TypeParts'
  BY <1>1 DEF Inv, TypeParts, Threads
<1>3. CountInv'
  BY <1>1 DEF Inv, CountInv, CountAt, RefCount, One, Serving, Owed
<1>4. ThreadInv'
  BY <1>1 DEF Inv, ThreadInv, Binding, WithHandle, TearingDown
<1>5. SourceInv'
  BY <1>1 DEF Inv, SourceInv, InWindow
<1>6. PlaceInv'
  BY <1>1 DEF Inv, PlaceInv, ThreadInv, TearingDown
<1> QED
  BY <1>2, <1>3, <1>4, <1>5, <1>6 DEF Inv

LEMMA FinalizeInv ==
  ASSUME Inv, suscan_inspector_request_manager_finalize
  PROVE  Inv'
<1>1. /\ thread = "finalize" /\ thread' = "destroy"
      /\ requests' = {}
      /\ refs' = [n \in Inspectors |-> IF n \in requests THEN refs[n] - 1 ELSE refs[n]]
      /\ dead' = dead \cup {n \in requests : refs[n] = 1}
      /\ UNCHANGED <<state, chan, factory_userdata, listed, handles, busy, failed, early,
                    msg, source, todo, fed>>
  BY DropFacts
  DEF Inv, suscan_inspector_request_manager_finalize, Step, object, history, worker
<1>2. TypeParts'
  BY <1>1 DEF Inv, TypeParts, Threads
<1>3. CountInv'
  BY <1>1 DEF Inv, CountInv, CountAt, RefCount, One, Serving, Owed
<1>4. ThreadInv'
  BY <1>1 DEF Inv, ThreadInv, Binding, WithHandle, TearingDown
<1>5. SourceInv'
  BY <1>1 DEF Inv, SourceInv, InWindow
<1>6. PlaceInv'
  BY <1>1 DEF Inv, PlaceInv
<1> QED
  BY <1>2, <1>3, <1>4, <1>5, <1>6 DEF Inv

\* The reference of the list goes, and that of every channel still open.
LEMMA FactoryDestroyInv ==
  ASSUME Inv, suscan_inspector_factory_destroy
  PROVE  Inv'
<1> DEFINE Open == {n \in listed \ Halted : factory_userdata[n]}
<1>1. /\ thread = "destroy" /\ thread' = "gone" /\ listed' = {}
      /\ SU_DEREFS(listed, Open)
      /\ chan' = [n \in Inspectors |-> IF n \in Open THEN "closed" ELSE chan[n]]
      /\ UNCHANGED <<state, factory_userdata, handles, requests, busy, failed, early, msg,
                    source, todo, fed>>
  BY DEF suscan_inspector_factory_destroy, Step, history, worker
<1>2. source = "stopped" /\ busy = {} /\ handles = {} /\ requests = {}
  BY <1>1 DEF Inv, ThreadInv, SourceInv, InWindow, TearingDown
<1>3. \A n \in Inspectors : ~Serving(n) /\ ~Serving(n)' /\ ~Owed(n) /\ ~Owed(n)'
  BY <1>1 DEF Serving, Owed
<1>4. \A n \in Inspectors : chan[n] = "held" <=> n \in Open
  <2> SUFFICES ASSUME NEW n \in Inspectors PROVE chan[n] = "held" <=> n \in Open
    OBVIOUS
  <2>1. chan[n] \in {"none", "held", "closed"}
    BY <1>1 DEF Inv, TypeParts, PlaceInv
  <2>2. chan[n] = "held" => n \in listed /\ n \notin Halted /\ factory_userdata[n]
    BY <1>1 DEF Inv, PlaceInv, Halted
  <2>3. factory_userdata[n] => chan[n] = "held"
    BY <1>1, <2>1 DEF Inv, PlaceInv
  <2> QED
    BY <2>2, <2>3
<1>5. Open \subseteq listed
  OBVIOUS
<1> HIDE DEF Open
<1>6. \A n \in Inspectors :
        /\ refs[n] \in Nat /\ refs[n] = One(n \in listed) + One(n \in Open)
        /\ refs'[n] = 0
        /\ n \in dead' <=> n \in dead \/ n \in listed
  <2> SUFFICES ASSUME NEW n \in Inspectors
               PROVE  /\ refs[n] \in Nat /\ refs[n] = One(n \in listed) + One(n \in Open)
                      /\ refs'[n] = 0
                      /\ n \in dead' <=> n \in dead \/ n \in listed
    OBVIOUS
  <2>1. refs[n] \in Nat /\ refs[n] = One(n \in listed) + One(n \in Open)
    BY <1>2, <1>3, <1>4, HeldIsAlive DEF RefCount, One
  <2>2. refs'[n] = refs[n] - (One(n \in listed) + One(n \in Open))
    BY <1>1 DEF SU_DEREFS, One
  <2>3. n \in dead' <=>
          n \in dead \/ (n \in listed \cup Open /\ refs[n] = One(n \in listed) + One(n \in Open))
    BY <1>1 DEF SU_DEREFS, One
  <2> QED
    BY <1>5, <2>1, <2>2, <2>3 DEF One
<1>7. TypeParts'
  BY <1>1, <1>5 DEF Inv, TypeParts, Threads, SU_DEREFS
<1>8. CountInv'
  <2> SUFFICES ASSUME NEW m \in Inspectors PROVE CountAt(m)'
    BY DEF CountInv
  <2>1. chan'[m] # "held"
    BY <1>1, <1>4
  <2>2. RefCount(m)' = 0
    BY <1>1, <1>2, <1>3, <2>1 DEF RefCount, One
  <2>3. state[m] # "none" => m \in dead \cup listed
    <3>1. refs[m] = 0 /\ state[m] # "none" => m \in dead
      BY DEF Inv, CountInv, CountAt
    <3> QED
      BY <1>5, <1>6, <3>1 DEF One
  <2> QED
    BY <1>1, <1>6, <2>2, <2>3 DEF CountAt
<1>9. ThreadInv'
  BY <1>1, <1>2, <1>4 DEF Inv, ThreadInv, Binding, WithHandle, TearingDown
<1>10. SourceInv'
  BY <1>1, <1>2 DEF Inv, SourceInv
<1>11. PlaceInv'
  <2>1. \A n \in Inspectors : /\ n \in dead' <=> n \in dead \/ n \in listed
                              /\ chan'[n] = IF n \in Open THEN "closed" ELSE chan[n]
    BY <1>1, <1>6
  <2> QED
    BY <1>1, <1>2, <1>4, <1>5, <2>1 DEF Inv, PlaceInv
<1> QED
  BY <1>7, <1>8, <1>9, <1>10, <1>11 DEF Inv

-----------------------------------------------------------------------------
(* The theorems *)

LEMMA StutterInv ==
  ASSUME Inv, UNCHANGED vars
  PROVE  Inv'
<1>1. UNCHANGED <<state, chan, factory_userdata, refs, dead, listed, handles, requests,
                  busy, failed, early, thread, msg, source, todo, fed>>
  BY DEF vars
<1>2. CountInv'
  <2>1. \A n \in Inspectors : (Serving(n)' <=> Serving(n)) /\ (Owed(n)' <=> Owed(n))
    BY <1>1 DEF Serving, Owed
  <2> QED
    BY <1>1, <2>1 DEF Inv, CountInv, CountAt, RefCount, One
<1>3. TypeParts'
  BY <1>1 DEF Inv, TypeParts
<1>4. ThreadInv'
  BY <1>1 DEF Inv, ThreadInv
<1>5. SourceInv'
  BY <1>1 DEF Inv, SourceInv, InWindow
<1>6. PlaceInv'
  BY <1>1 DEF Inv, PlaceInv
<1> QED
  BY <1>2, <1>3, <1>4, <1>5, <1>6 DEF Inv

LEMMA StepInv == Inv /\ [Next]_vars => Inv'
<1> SUFFICES ASSUME Inv, [Next]_vars PROVE Inv'
  OBVIOUS
<1>1. CASE AnalyzerSteps
  BY <1>1, NewInspectorInv, NewInspectorFailsInv, BindInv, BindRefInv, SetRunningInv,
     RegisterInv, RequestMoveInv, SubmitInv, HaltWriteInv, ClearInv, UnregisterInv, ReturnInv
  DEF AnalyzerSteps
<1>2. CASE SourceSteps \/ NoWindow
  BY <1>2, CommitSkipInv, CommitInv, WindowMoveInv, SetHaltedInv, FeedTaskInv, FeedCloseInv
  DEF SourceSteps
<1>3. CASE Teardown
  BY <1>3, StopInv, DestroyHandlesInv, FinalizeInv, FactoryDestroyInv DEF Teardown
<1>4. CASE \E n \in Inspectors :
             \/ OpenChannel(n) \/ suscan_local_analyzer_acquire_inspector(n)
             \/ TaskFails(n) \/ TaskDone(n)
  BY <1>4, OpenChannelInv, AcquireInspectorInv, TaskFailsInv, TaskDoneInv
<1>5. CASE UNCHANGED vars
  BY <1>5, StutterInv
<1> QED
  BY <1>1, <1>2, <1>3, <1>4, <1>5 DEF Next

\* Every step of the three kinds of threads and of the destructor keeps Inv.
THEOREM InvHolds == Spec => []Inv
  BY InitInv, StepInv, PTL DEF Spec

\* Inspectors, tables and threads keep proper values, and no more than six
\* references to an inspector are counted.
THEOREM TypeCorrect == Spec => []TypeOK
  BY InvHolds, TypeFromInv, PTL

\* Nobody reaches a destroyed inspector through the tuner's channel, a task, a
\* request, the tables or its own work on it, unless the source worker fed the
\* inspector before suscan_inspector_factory_open had ended.
THEOREM ReferencesKeepAlive == Spec => []NoUseAfterFree
<1>1. Inv => NoUseAfterFree
  <2> SUFFICES ASSUME Inv, NEW n \in dead \ early
               PROVE  /\ Holds(n) = {} /\ chan[n] # "bound"
                      /\ fed # n
                      /\ ~(msg = n /\ thread \in {"bind", "ref", "run", "register"})
    BY DEF NoUseAfterFree
  <2>1. n \in Inspectors
    BY DEF Inv, TypeParts
  <2>2. /\ n \notin listed \cup busy \cup requests \cup handles
        /\ chan[n] # "held" /\ ~Serving(n)
    BY <2>1, HeldIsAlive
  <2>3. Holds(n) = {}
    BY <2>2 DEF Holds
  <2>4. ~(msg = n /\ thread \in {"bind", "ref", "run", "register"})
    BY <2>2 DEF Inv, ThreadInv, Binding
  <2>5. chan[n] # "bound"
    BY <2>1, <2>4 DEF Inv, PlaceInv
  <2>6. fed # n
    BY <2>1, <2>2, InspLifeAssumption DEF Inv, SourceInv, PlaceInv, ThreadInv, TearingDown
  <2> QED
    BY <2>3, <2>4, <2>5, <2>6
<1> QED
  BY <1>1, InvHolds, PTL

\* One more party that may hold a reference.
LEMMA OneMore ==
  ASSUME NEW S, IsFiniteSet(S), NEW h, h \notin S, NEW p \in BOOLEAN
  PROVE  /\ IsFiniteSet(S \cup {x \in {h} : p})
         /\ Cardinality(S \cup {x \in {h} : p}) = Cardinality(S) + One(p)
<1>1. Cardinality(S) \in Nat
  BY FS_CardinalityType
<1>2. CASE p
  <2>1. S \cup {x \in {h} : p} = S \cup {h}
    BY <1>2
  <2>2. IsFiniteSet(S \cup {h}) /\ Cardinality(S \cup {h}) = Cardinality(S) + 1
    BY FS_AddElement
  <2> QED
    BY <1>2, <2>1, <2>2 DEF One
<1>3. CASE ~p
  <2>1. S \cup {x \in {h} : p} = S
    BY <1>3
  <2> QED
    BY <1>1, <1>3, <2>1 DEF One
<1> QED
  BY <1>2, <1>3

\* How many of the six parties hold a reference.
LEMMA HoldersCounted ==
  ASSUME NEW n \in Inspectors
  PROVE  Cardinality(Holds(n)) =
           One(n \in listed) + One(chan[n] = "held") + One(n \in busy)
           + One(n \in requests) + One(n \in handles) + One(Serving(n))
<1> DEFINE H0 == {}
           H1 == H0 \cup {x \in {"factory"} : n \in listed}
           H2 == H1 \cup {x \in {"specttuner"} : chan[n] = "held"}
           H3 == H2 \cup {x \in {"task"} : n \in busy}
           H4 == H3 \cup {x \in {"overridable"} : n \in requests}
           H5 == H4 \cup {x \in {"handle"} : n \in handles}
           H6 == H5 \cup {x \in {"user"} : Serving(n)}
<1>0. /\ IsFiniteSet(H0) /\ Cardinality(H0) = 0
      /\ H0 \subseteq {}
  BY FS_EmptySet
<1>1. /\ IsFiniteSet(H1) /\ Cardinality(H1) = Cardinality(H0) + One(n \in listed)
      /\ H1 \subseteq {"factory"}
  <2> HIDE DEF H0
  <2>1. "factory" \notin H0 /\ (n \in listed) \in BOOLEAN
    BY <1>0
  <2>2. IsFiniteSet(H1) /\ Cardinality(H1) = Cardinality(H0) + One(n \in listed)
    BY <1>0, <2>1, OneMore
  <2> QED
    BY <1>0, <2>2
<1>2. /\ IsFiniteSet(H2) /\ Cardinality(H2) = Cardinality(H1) + One(chan[n] = "held")
      /\ H2 \subseteq {"factory", "specttuner"}
  <2> HIDE DEF H1
  <2>1. "specttuner" \notin H1 /\ (chan[n] = "held") \in BOOLEAN
    BY <1>1
  <2>2. IsFiniteSet(H2) /\ Cardinality(H2) = Cardinality(H1) + One(chan[n] = "held")
    BY <1>1, <2>1, OneMore
  <2> QED
    BY <1>1, <2>2
<1>3. /\ IsFiniteSet(H3) /\ Cardinality(H3) = Cardinality(H2) + One(n \in busy)
      /\ H3 \subseteq {"factory", "specttuner", "task"}
  <2> HIDE DEF H2
  <2>1. "task" \notin H2 /\ (n \in busy) \in BOOLEAN
    BY <1>2
  <2>2. IsFiniteSet(H3) /\ Cardinality(H3) = Cardinality(H2) + One(n \in busy)
    BY <1>2, <2>1, OneMore
  <2> QED
    BY <1>2, <2>2
<1>4. /\ IsFiniteSet(H4) /\ Cardinality(H4) = Cardinality(H3) + One(n \in requests)
      /\ H4 \subseteq {"factory", "specttuner", "task", "overridable"}
  <2> HIDE DEF H3
  <2>1. "overridable" \notin H3 /\ (n \in requests) \in BOOLEAN
    BY <1>3
  <2>2. IsFiniteSet(H4) /\ Cardinality(H4) = Cardinality(H3) + One(n \in requests)
    BY <1>3, <2>1, OneMore
  <2> QED
    BY <1>3, <2>2
<1>5. /\ IsFiniteSet(H5) /\ Cardinality(H5) = Cardinality(H4) + One(n \in handles)
      /\ H5 \subseteq {"factory", "specttuner", "task", "overridable", "handle"}
  <2> HIDE DEF H4
  <2>1. "handle" \notin H4 /\ (n \in handles) \in BOOLEAN
    BY <1>4
  <2>2. IsFiniteSet(H5) /\ Cardinality(H5) = Cardinality(H4) + One(n \in handles)
    BY <1>4, <2>1, OneMore
  <2> QED
    BY <1>4, <2>2
<1>6. /\ IsFiniteSet(H6) /\ Cardinality(H6) = Cardinality(H5) + One(Serving(n))
      /\ H6 \subseteq {"factory", "specttuner", "task", "overridable", "handle", "user"}
  <2> HIDE DEF H5
  <2>1. "user" \notin H5 /\ (Serving(n)) \in BOOLEAN
    BY <1>5 DEF Serving
  <2>2. IsFiniteSet(H6) /\ Cardinality(H6) = Cardinality(H5) + One(Serving(n))
    BY <1>5, <2>1, OneMore
  <2> QED
    BY <1>5, <2>2
<1>7. H6 = Holds(n)
  BY DEF Holds
<1> HIDE DEF H0, H1, H2, H3, H4, H5, H6
<1>8. \A p : One(p) \in Nat
  BY DEF One
<1> QED
  BY <1>0, <1>1, <1>2, <1>3, <1>4, <1>5, <1>6, <1>7, <1>8

\* The reference counter of an inspector is the number of parties that point to
\* it, whatever the order in which SU_REF and SU_DEREF are called.
THEOREM CounterExact == Spec => []RefsExact
<1>1. Inv => RefsExact
  <2> SUFFICES ASSUME Inv, NEW n \in Inspectors \ early
               PROVE  refs[n] = Cardinality(Holds(n))
    BY DEF RefsExact
  <2>1. ~Owed(n) /\ refs[n] = RefCount(n)
    BY HeldIsAlive
  <2> QED
    BY <2>1, HoldersCounted DEF RefCount, One
<1> QED
  BY <1>1, InvHolds, PTL

\* The source worker and the workers of the scheduler never drop the last
\* reference: while they hold one, the list, a handle or the analyzer thread does.
THEOREM LastReferenceIsTheServers == Spec => []NeverLast
<1>1. Inv => NeverLast
  BY DEF Inv, NeverLast, PlaceInv, ThreadInv, TearingDown
<1> QED
  BY <1>1, InvHolds, PTL

\* An inspector that is HALTED has no channel and no task: the assertion of
\* suscan_inspector_factory_feed.
THEOREM HaltedIsNotFed == Spec => []FedNotHalted
<1>1. Inv => FedNotHalted
  BY DEF Inv, FedNotHalted, PlaceInv
<1> QED
  BY <1>1, InvHolds, PTL

\* The destructor leaves no inspector behind: each that was created is destroyed.
THEOREM AllDestroyed == Spec => []NoInspectorLeft
<1>1. Inv => NoInspectorLeft
  <2> SUFFICES ASSUME Inv, thread = "gone", NEW n \in Inspectors, state[n] # "none"
               PROVE  n \in dead
    BY DEF NoInspectorLeft
  <2>1. n \notin listed \cup busy \cup requests \cup handles /\ chan[n] # "held"
    BY DEF Inv, ThreadInv, SourceInv, TearingDown, InWindow
  <2>2. ~Serving(n) /\ ~Owed(n)
    BY DEF Serving, Owed
  <2>3. RefCount(n) = 0
    BY <2>1, <2>2 DEF RefCount, One
  <2> QED
    BY <2>3 DEF Inv, CountInv, CountAt
<1> QED
  BY <1>1, InvHolds, PTL

-----------------------------------------------------------------------------
(***************************************************************************)
(* The settings of the source (SlowConf.tla): any number of requests, of   *)
(* any settings, from the threads of the user, served by the slow worker   *)
(* and by the worker of the source.                                        *)
(*                                                                         *)
(* Every kind of setting has its own reason not to be lost.  One that is   *)
(* kept in a value and a flag: what was last applied is the value, or the  *)
(* caller is between its value and its flag, or the flag is up and a       *)
(* callback that will see it is coming; at each access of a callback, its  *)
(* copy is the value with the same exceptions.  One carried by its         *)
(* callback: the last callback that is queued carries the last request.    *)
(* An antenna is in the slot, and gains in the list, from before the       *)
(* callback is pushed until one takes them.                                *)
(***************************************************************************)
\* Settings, by how they are exchanged.
Pairs == {"freq", "psd_params"}         \* their values are two fields
Singles == {"bw", "ppm", "seek"}
Valued == Pairs \cup Singles \cup {"throttle"}
Clearing == {"psd_params", "throttle"}  \* their callbacks clear the flag first
Carried == {"dc_remove", "agc"}         \* their callbacks carry the value

Pair(v) == v = <<v[1], v[2]>>

ServerOf(s) == IF s = "seek" THEN "source" ELSE "slow"
Busy(s) == serving[ServerOf(s)] = s
Place(s) == pc[ServerOf(s)]
Copy(s) == local[ServerOf(s)]
Queued(s) == \E i \in DOMAIN queue : queue[i].setting = s

Types ==
  /\ setup \in Setups
  /\ requested \in [Settings -> Nat]
  /\ at \in [Settings -> 0 .. 5]
  /\ \A s \in Settings : at[s] <= Len(Setter[s]) /\ (at[s] > 0 => requested[s] > 0)
  /\ value = [s \in Settings |-> value[s]] /\ told = [s \in Settings |-> told[s]]
  /\ \A s \in Settings : Pair(value[s]) /\ Pair(told[s])
  /\ req \in [Settings -> BOOLEAN]
  /\ slot \in Nat /\ list \in Seq(Nat) /\ request_list \in Seq(Nat)
  /\ queue \in Seq([setting : Settings \ {"seek"}, cb_private : Nat])
  /\ serving \in [Workers -> Settings \cup {"none"}]
  /\ serving["source"] \in {"none", "seek"} /\ serving["slow"] # "seek"
  /\ pc \in [Workers -> Nat]
  /\ \A w \in Workers : serving[w] # "none" => pc[w] \in 1 .. Len(Callback[serving[w]])
  /\ local = [w \in Workers |-> local[w]] /\ \A w \in Workers : Pair(local[w])
  /\ again \in [Workers -> BOOLEAN]
  /\ refused \subseteq Settings /\ raced \subseteq Settings
  /\ Reported \subseteq DOMAIN info

\* The fields the proofs look at.
SourceShape(s) ==
  /\ {"config", "sdr", "capturing", "force_eos", "total_samples", "pos", "looped", "ptrs",
      "samp_rate", "decim"} \subseteq DOMAIN s
  /\ {"freq", "lnb_freq", "bandwidth", "ppm", "dc_remove", "antenna", "gain", "samp_rate",
      "type"} \subseteq DOMAIN s.config
  /\ {"freq", "bandwidth", "ppm", "dc_remove", "agc", "antenna", "gain"} \subseteq DOMAIN s.sdr

(***************************************************************************)
(* Settings kept in a value and a flag.  What was last applied is the      *)
(* value, unless a request is coming; and the copy of a callback that is   *)
(* running is what it will be.                                             *)
(***************************************************************************)
\* The caller changed the value and has yet to set the flag.
Fresh(s) ==
  \/ s \in Pairs /\ at[s] \in {2, 3}
  \/ s \in Singles /\ at[s] = 2

\* The flag is set, and a callback that will see it is queued or about to be.
Waiting(s) ==
  /\ req[s]
  /\ s = "seek" \/ Queued(s) \/ at[s] = (IF s \in {"bw", "ppm"} THEN 3 ELSE 4)

Coming(s) == Fresh(s) \/ Waiting(s)

\* Where the callback applies its copy.
ApplyAt(s) ==
  CASE s \in Singles -> 3 [] s \in {"freq", "throttle"} -> 4 [] OTHER -> 5

\* What the value is while the caller writes it.
Due(s, n) == IF n = 0 THEN <<0, 0>> ELSE Asked(s, n)

\* The value is what the requests have written of it.
ValueKept(s) ==
  LET n == requested[s]
      old == Due(s, n - 1)
      new == Due(s, n)
  IN value[s] = CASE at[s] = 1 -> old
                  [] at[s] = 2 /\ s \in Pairs -> <<new[1], old[2]>>
                  [] at[s] \in {2, 3} /\ s = "throttle" -> old
                  [] OTHER -> new

ValuedGood(s) ==
  /\ ~Busy(s) => told[s] = value[s] \/ Coming(s)
  /\ Busy(s) /\ Place(s) = 1 => told[s] = value[s] \/ Fresh(s) \/ req[s]
  /\ Busy(s) /\ s \in Pairs /\ Place(s) = ApplyAt(s) - 1 => Copy(s)[1] = value[s][1] \/ Coming(s)
  /\ Busy(s) /\ Place(s) >= ApplyAt(s) => Copy(s) = value[s] \/ Coming(s)
  /\ Busy(s) /\ Place(s) > ApplyAt(s) => told[s] = Copy(s)
  /\ s = "throttle" /\ at[s] = 3 => req[s] \/ value[s] = Asked(s, requested[s])

(***************************************************************************)
(* Settings carried by the callback, or exchanged under hotconf_mutex.     *)
(***************************************************************************)
\* The last request that has left its value.
Latest(s) == IF at[s] = 1 THEN requested[s] - 1 ELSE requested[s]
Both(n) == <<n, n>>

\* The last callback that is queued has the last value.
QueueGood(s) ==
  \A i \in DOMAIN queue :
    queue[i].setting = s /\ (\A j \in DOMAIN queue : j > i => queue[j].setting # s)
      => queue[i].cb_private = Latest(s)

CarriedGood(s) ==
  /\ QueueGood(s)
  /\ ~Queued(s) /\ Busy(s) => Copy(s) = Both(Latest(s))
  /\ ~Queued(s) /\ ~Busy(s) => told[s] = Both(Latest(s))

\* The slot is emptied by the first of its callbacks.
AntennaGood ==
  LET n == Latest("antenna")
      filled == slot = n /\ n # 0
      coming == filled /\ (at["antenna"] = 2 \/ Queued("antenna"))
  IN /\ slot \in {0, n}
     /\ ~Busy("antenna") => told["antenna"] = Both(n) \/ coming
     /\ Busy("antenna") /\ Place("antenna") = 1 => told["antenna"] = Both(n) \/ filled
     /\ Busy("antenna") /\ Place("antenna") = 2 =>
          \/ Copy("antenna") = Both(n) /\ n # 0
          \/ Copy("antenna") = Both(0) /\ told["antenna"] = Both(n)
          \/ coming

\* Gains that are being applied.
Applying == Busy("gain") /\ Place("gain") = 2

\* The gains are applied in order, or dropped when one is refused.
GainGood ==
  LET n == Latest("gain") IN
    /\ \A i \in DOMAIN list : list[i] > 0
    /\ \A i \in DOMAIN request_list : request_list[i] > 0
    /\ list # <<>> => /\ list[Len(list)] = n
                     /\ \/ at["gain"] = 2 \/ Queued("gain")
                        \/ Busy("gain") /\ Place("gain") = 1
    /\ list = <<>> /\ Applying /\ request_list # <<>> => request_list[Len(request_list)] = n
    /\ list = <<>> /\ ~(Applying /\ request_list # <<>>) =>
         told["gain"] = Both(n) \/ "gain" \in refused
    /\ at["gain"] = 2 \/ Queued("gain") \/ Busy("gain") =>
         told["gain"] # Both(0) \/ list # <<>> \/ (Applying /\ request_list # <<>>)
    /\ Applying => told["gain"] # Both(0) \/ request_list # <<>>

\* A flagged setting is good until its race loses a request.
Good(s) ==
  /\ s \in Valued => ValueKept(s) /\ (s \notin raced \cap Flagged => ValuedGood(s))
  /\ s \in Carried => CarriedGood(s)
  /\ s = "antenna" => AntennaGood
  /\ s = "gain" => GainGood

(***************************************************************************)
(* The device and the source info.                                         *)
(***************************************************************************)
DeviceValue(s, v) == IF s = "freq" THEN v[1] - v[2] ELSE v[1]
InfoOf(s) == IF s = "freq" THEN info.freq[1] - info.freq[2] ELSE info[s]

\* The device has what it was told, unless it refused.
DeviceTold ==
  RealTime => \A s \in OfSource \ refused :
                told[s] # Both(0) => Hardware(s) = DeviceValue(s, told[s])

\* The first source info says that there is no gain control, and what the
\* configuration says of the removal of DC, which may be done in software: radios
\* that begin like that.
PlainRadios ==
  \A x \in Setups :
    x.config.type = "SDR" =>
      /\ x.sdr.agc = 0
      /\ x.sdr.has_dc_mode \/ x.sdr.dc_remove = x.config.dc_remove

\* The source info says what the device has.
InfoSent ==
  PlainRadios /\ RealTime => \A s \in Reported :
                \/ s \in refused \cap (Unchecked \cup {"gain"})
                \/ s = "gain" /\ Busy("gain")
                \/ Hardware(s) = InfoOf(s)

\* The analyzer divides the rate a throttle is asked for by that of the source,
\* which is another one once the capture has stopped: it is not stopped while the
\* throttle is being set.
Steady == \A x \in Setups : "throttle" \in x.used => ~x.force

\* The settings that can be followed.
Watched == {s \in Used : s = "throttle" => Steady}

\* The inductive invariant.
SettingsInv ==
  /\ Types /\ SourceShape(src)
  /\ \A s \in Watched : Good(s)
  /\ \A s \in Settings \ Used : requested[s] = 0 /\ ~Queued(s) /\ (s # "seek" => ~Busy(s))
  /\ DeviceTold /\ InfoSent

(***************************************************************************)
(* Tables.                                                                 *)
(***************************************************************************)
LEMMA SettingsAre ==
  /\ Settings = {"freq", "bw", "ppm", "seek", "throttle", "psd_params", "dc_remove",
                 "agc", "antenna", "gain"}
  /\ DOMAIN Callback = Settings
BY DEF Settings, Setter, Callback

LEMMA ThrottleSetter ==
  override_throttle = <<"init", "req", "value", "push", "unlock">>
<1> DEFINE T == {"init", "req", "value", "push", "unlock"}
           a == <<"init">>
           b == <<"req", "value", "push">>
           c == <<"unlock">>
           all == <<"init", "req", "value", "push", "unlock">>
           abc == (a \o b) \o c
<1>1. a \in Seq(T) /\ b \in Seq(T) /\ c \in Seq(T) /\ all \in Seq(T)
  <2>1. a \in Seq(T)
    OBVIOUS
  <2>2. b \in Seq(T)
    OBVIOUS
  <2>3. c \in Seq(T)
    OBVIOUS
  <2>4. all \in Seq(T)
    OBVIOUS
  <2> QED
    BY <2>1, <2>2, <2>3, <2>4
<1>2. /\ Len(a) = 1 /\ Len(b) = 3 /\ Len(c) = 1 /\ Len(all) = 5
      /\ a[1] = "init" /\ b[1] = "req" /\ b[2] = "value" /\ b[3] = "push" /\ c[1] = "unlock"
      /\ all[1] = "init" /\ all[2] = "req" /\ all[3] = "value" /\ all[4] = "push"
      /\ all[5] = "unlock"
  OBVIOUS
<1>3. /\ a \o b \in Seq(T) /\ Len(a \o b) = 4
      /\ (a \o b)[1] = a[1] /\ (a \o b)[2] = b[1] /\ (a \o b)[3] = b[2] /\ (a \o b)[4] = b[3]
  <2> HIDE DEF a, b, T
  <2>1. \A i \in 1 .. Len(a) + Len(b) : (a \o b)[i] = IF i <= Len(a) THEN a[i] ELSE b[i - Len(a)]
    BY <1>1, ConcatProperties, Zenon
  <2>2. a \o b \in Seq(T) /\ Len(a \o b) = Len(a) + Len(b)
    BY <1>1, ConcatProperties, Zenon
  <2> QED
    BY <1>2, <2>1, <2>2
<1>4. abc \in Seq(T) /\ Len(abc) = 5
      /\ abc[1] = (a \o b)[1] /\ abc[2] = (a \o b)[2] /\ abc[3] = (a \o b)[3]
      /\ abc[4] = (a \o b)[4] /\ abc[5] = c[1]
  <2> DEFINE ab == a \o b
  <2>1. ab \in Seq(T) /\ abc = ab \o c
    BY <1>3
  <2> HIDE DEF a, b, c, T, ab, abc
  <2>2. \A i \in 1 .. Len(ab) + Len(c) : abc[i] = IF i <= Len(ab) THEN ab[i] ELSE c[i - Len(ab)]
    BY <1>1, <2>1, ConcatProperties, Zenon
  <2>3. abc \in Seq(T) /\ Len(abc) = Len(ab) + Len(c)
    BY <1>1, <2>1, ConcatProperties, Zenon
  <2>4. Len(ab) = 4
    BY <1>3 DEF ab
  <2>5. abc \in Seq(T) /\ Len(abc) = 5 /\ abc[1] = ab[1] /\ abc[2] = ab[2] /\ abc[3] = ab[3]
        /\ abc[4] = ab[4] /\ abc[5] = c[1]
    BY <1>2, <2>2, <2>3, <2>4
  <2> QED
    BY <2>5 DEF ab
<1>5. abc = all
  <2> HIDE DEF a, b, c, abc, all, T
  <2>1. \A i \in 1 .. 5 : abc[i] = all[i]
    BY <1>2, <1>3, <1>4
  <2> QED
    BY <1>1, <1>2, <1>4, <2>1, SeqEqual
<1> QED
  BY <1>5 DEF override_throttle, set_inspector_throttle_overridable

LEMMA SetterTable ==
  /\ \A s \in Pairs : Setter[s] = <<"hi", "lo", "req", "push">>
  /\ \A s \in {"bw", "ppm"} : Setter[s] = <<"value", "req", "push">>
  /\ Setter["seek"] = <<"value", "req">>
  /\ Setter["throttle"] = <<"init", "req", "value", "push", "unlock">>
  /\ \A s \in Carried : Setter[s] = <<"push">>
  /\ Setter["antenna"] = <<"slot", "push">>
  /\ Setter["gain"] = <<"list", "push">>
BY ThrottleSetter DEF Setter, Pairs, Carried, slow_set_freq, slow_set_bw, slow_set_ppm, slow_seek,
   set_analyzer_params_overridable, slow_set_dc_remove, slow_set_agc, slow_set_antenna,
   slow_set_gain

LEMMA CallbackTable ==
  /\ Callback["freq"] = <<"test", "hi", "lo", "apply", "compare", "store">>
  /\ \A s \in Singles : Callback[s] = <<"test", "value", "apply", "compare", "store">>
  /\ Callback["throttle"] = <<"test", "clear", "value", "apply">>
  /\ Callback["psd_params"] = <<"test", "clear", "hi", "lo", "apply">>
  /\ \A s \in Carried : Callback[s] = <<"apply">>
  /\ Callback["antenna"] = <<"slot", "apply">>
  /\ Callback["gain"] = <<"list", "apply">>
BY DEF Callback, Singles, Carried, set_freq_cb, set_bw_cb, set_ppm_cb, parse_seek_overridable,
   set_inspector_throttle_cb, set_psd_params_cb, set_dc_remove_cb, set_agc_cb, set_antenna_cb,
   set_gain_cb


(***************************************************************************)
(* The beginning.                                                          *)
(***************************************************************************)
\* A new radio has what its configuration says.
Configured(s, c) ==
  /\ s.sdr.freq = c.freq - c.lnb_freq /\ s.sdr.bandwidth = c.bandwidth
  /\ s.sdr.ppm = c.ppm /\ s.sdr.gain = c.gain

LEMMA Opened ==
  ASSUME NEW x \in Setups,
         NEW new, new = suscan_source_new(x.config, x.sdr, x.frames, x.file_rate, {}), new.ok
  PROVE  /\ SourceShape(new.src) /\ ~new.src.capturing
         /\ new.src.config.type = x.config.type /\ new.src.config.freq = x.config.freq
         /\ new.src.config.lnb_freq = x.config.lnb_freq
         /\ new.src.config.bandwidth = x.config.bandwidth
         /\ new.src.config.ppm = x.config.ppm /\ new.src.config.gain = x.config.gain
         /\ new.src.config.dc_remove = x.config.dc_remove
         /\ x.config.type = "SDR" =>
              /\ Configured(new.src, x.config) /\ new.src.sdr.agc = x.sdr.agc
              /\ new.src.sdr.dc_remove = IF x.sdr.has_dc_mode THEN x.config.dc_remove
                                         ELSE x.sdr.dc_remove
<1> DEFINE c == x.config
           device == x.sdr
           empty == [config |-> c, sdr |-> device, frames |-> x.frames,
                file_rate |-> x.file_rate, samp_rate |-> 0, soft_dc |-> 0,
                capturing |-> FALSE, force_eos |-> FALSE, looped |-> FALSE,
                total_samples |-> 0, pos |-> 0,
                decim |-> 1, decim_length |-> 0, ptrs |-> [k \in 0 .. RelSize - 1 |-> 0]]
           made == IF c.average > 1 THEN suscan_source_configure_decimation(empty, c.average)
                   ELSE empty
<1>1. c \in Configs /\ device \in Devices
  BY SlowConfAssumption
<1>2. /\ made.config = c /\ made.sdr = device /\ made.capturing = FALSE
      /\ {"config", "sdr", "capturing", "force_eos", "total_samples", "pos", "looped", "ptrs",
          "soft_dc", "samp_rate", "decim"} \subseteq DOMAIN made
  BY DEF suscan_source_configure_decimation
<1>3. new = CASE ~suscan_source_config_check(c) -> Refused(empty)
              [] c.type = "FILE" -> suscan_source_open_file(made)
              [] c.type = "SDR" -> suscan_source_open_sdr(made, {})
              [] OTHER -> Refused(empty)
  BY DEF suscan_source_new
<1>4. /\ c.type \in {"SDR", "FILE"}
      /\ {"freq", "lnb_freq", "bandwidth", "ppm", "dc_remove", "antenna", "gain", "samp_rate",
          "type"} \subseteq DOMAIN c
      /\ {"freq", "bandwidth", "ppm", "dc_remove", "agc", "antenna", "gain", "samp_rate"}
           \subseteq DOMAIN device
  BY <1>1 DEF Configs, Devices
<1>5. \/ new = suscan_source_open_file(made) /\ c.type = "FILE"
      \/ new = suscan_source_open_sdr(made, {}) /\ c.type = "SDR"
  BY <1>3, <1>4 DEF Refused
<1> HIDE DEF made, empty, c, device
<1>6. CASE new = suscan_source_open_file(made) /\ c.type = "FILE"
  <2>1. new.src = [made EXCEPT !.samp_rate = made.file_rate, !.config.samp_rate = made.file_rate]
    BY <1>6 DEF suscan_source_open_file, Done, Refused
  <2>2. /\ DOMAIN new.src = DOMAIN made /\ new.src.capturing = made.capturing
        /\ new.src.sdr = made.sdr
        /\ new.src.config = [made.config EXCEPT !.samp_rate = made.file_rate]
    <3> DEFINE paced == [made.config EXCEPT !.samp_rate = made.file_rate]
    <3>1. new.src = [made EXCEPT !.samp_rate = made.file_rate, !.config = paced]
      BY <1>2, <2>1
    <3> HIDE DEF paced
    <3>2. new.src.config = paced
      BY <1>2, <3>1
    <3>3. DOMAIN new.src = DOMAIN made /\ new.src.capturing = made.capturing
      BY <1>2, <3>1
    <3>4. new.src.sdr = made.sdr
      BY <1>2, <3>1
    <3> QED
      BY <3>2, <3>3, <3>4 DEF paced
  <2>3. SourceShape(new.src)
    BY <1>2, <1>4, <2>2 DEF SourceShape
  <2> QED
    BY <1>2, <1>4, <1>6, <2>2, <2>3 DEF c
<1>7. CASE new = suscan_source_open_sdr(made, {}) /\ c.type = "SDR"
  <2> DEFINE antenna == IF c.antenna = NULL THEN device.antenna ELSE c.antenna
             rate == suscan_source_set_sample_rate_near(made)
             soft == IF device.has_dc_mode THEN 0 ELSE c.dc_remove
             dc == IF device.has_dc_mode THEN c.dc_remove ELSE device.dc_remove
  <2>1. Needed(made) \cap {} = {} /\ "gain" \notin {}
    OBVIOUS
  <2> DEFINE telling == [made.sdr EXCEPT
              !.antenna = antenna, !.gain = c.gain, !.freq = c.freq - c.lnb_freq,
              !.bandwidth = c.bandwidth, !.ppm = c.ppm, !.samp_rate = rate, !.dc_remove = dc]
             tuned == [c EXCEPT !.antenna = antenna]
  <2>2. new.src = [made EXCEPT !.sdr = telling, !.soft_dc = soft, !.samp_rate = rate,
                               !.config = tuned]
    BY <1>7, <1>2, <2>1 DEF suscan_source_open_sdr, Done, Refused
  <2> HIDE DEF antenna, rate, soft, dc
  <2>3. /\ DOMAIN telling = DOMAIN device /\ telling.agc = device.agc
        /\ telling.freq = c.freq - c.lnb_freq /\ telling.bandwidth = c.bandwidth
        /\ telling.ppm = c.ppm /\ telling.gain = c.gain /\ telling.dc_remove = dc
    BY <1>2, <1>4
  <2>4. /\ DOMAIN tuned = DOMAIN c /\ tuned.type = c.type /\ tuned.freq = c.freq
        /\ tuned.lnb_freq = c.lnb_freq /\ tuned.bandwidth = c.bandwidth
        /\ tuned.ppm = c.ppm /\ tuned.gain = c.gain /\ tuned.dc_remove = c.dc_remove
    BY <1>4
  <2> HIDE DEF telling, tuned
  <2>5. /\ DOMAIN new.src = DOMAIN made /\ new.src.capturing = made.capturing
        /\ new.src.config = tuned /\ new.src.sdr = telling
    <3>1. /\ DOMAIN new.src = DOMAIN made
          /\ \A f \in {"config", "sdr", "capturing"} : f \in DOMAIN made
      BY <1>2, <2>2
    <3>2. new.src.config = tuned
      BY <2>2, <3>1
    <3>3. new.src.sdr = telling
      BY <2>2, <3>1
    <3>4. new.src.capturing = made.capturing
      BY <2>2, <3>1
    <3> QED
      BY <3>1, <3>2, <3>3, <3>4
  <2>6. SourceShape(new.src)
    BY <1>2, <1>4, <2>3, <2>4, <2>5 DEF SourceShape
  <2> QED
    BY <1>2, <1>7, <2>3, <2>4, <2>5, <2>6 DEF Configured, c, device, dc
<1> QED
  BY <1>5, <1>6, <1>7

LEMMA InitSettings ==
  ASSUME HotInit
  PROVE  SettingsInv
<1> DEFINE new == suscan_source_new(setup.config, setup.sdr, setup.frames, setup.file_rate, {})
           started == suscan_source_start_capture(new.src, TRUE)
<1>1. setup \in Setups /\ new.ok /\ src = started.src /\ info = populate_source_info(started.src)
  BY DEF HotInit
<1>2. /\ SourceShape(new.src) /\ ~new.src.capturing
      /\ new.src.config.type = setup.config.type /\ new.src.config.freq = setup.config.freq
      /\ new.src.config.lnb_freq = setup.config.lnb_freq
      /\ new.src.config.bandwidth = setup.config.bandwidth
      /\ new.src.config.ppm = setup.config.ppm /\ new.src.config.gain = setup.config.gain
      /\ new.src.config.dc_remove = setup.config.dc_remove
      /\ setup.config.type = "SDR" =>
           /\ Configured(new.src, setup.config) /\ new.src.sdr.agc = setup.sdr.agc
           /\ new.src.sdr.dc_remove = IF setup.sdr.has_dc_mode THEN setup.config.dc_remove
                                      ELSE setup.sdr.dc_remove
  BY <1>1, Opened, Zenon
<1> HIDE DEF new
<1>3. src = [new.src EXCEPT !.capturing = TRUE]
  BY <1>1, <1>2 DEF suscan_source_start_capture, Done
<1>4. /\ SourceShape(src) /\ src.capturing /\ src.config = new.src.config
      /\ src.sdr = new.src.sdr
  BY <1>2, <1>3 DEF SourceShape
<1>5. InfoSent
  <2> SUFFICES ASSUME PlainRadios, RealTime, NEW s \in Reported PROVE Hardware(s) = InfoOf(s)
    BY DEF InfoSent
  <2>1. setup.config.type = "SDR" /\ setup.config \in Configs /\ setup.sdr \in Devices
    BY <1>1, <1>2, <1>4, SlowConfAssumption DEF RealTime
  <2>2. info.freq[1] = src.sdr.freq + src.config.lnb_freq /\ info.freq[2] = src.config.lnb_freq
    BY <1>1, <1>4, <2>1, <1>2 DEF populate_source_info, suscan_source_get_freq, Tunable
  <2>3. /\ info.bw = src.config.bandwidth /\ info.ppm = src.config.ppm
        /\ info.dc_remove = src.config.dc_remove /\ info.gain = src.config.gain /\ info.agc = 0
    BY <1>1 DEF populate_source_info
  <2>4. src.sdr.freq \in Int /\ src.config.lnb_freq \in Int
    BY <1>2, <1>4, <2>1 DEF Configs, Configured
  <2>5. info.freq[1] - info.freq[2] = src.sdr.freq
    BY <2>2, <2>4
  <2>6. src.sdr.dc_remove = src.config.dc_remove /\ src.sdr.agc = 0
    BY <1>1, <1>2, <1>4, <2>1 DEF PlainRadios
  <2>7. /\ src.sdr.bandwidth = src.config.bandwidth /\ src.sdr.ppm = src.config.ppm
        /\ src.sdr.gain = src.config.gain
    BY <1>2, <1>4, <2>1 DEF Configured
  <2> QED
    BY <2>3, <2>5, <2>6, <2>7 DEF Reported, Hardware, InfoOf
<1>6. Types
  <2>1. Reported \subseteq DOMAIN info
    BY <1>1 DEF populate_source_info, Reported
  <2>2. /\ list \in Seq(Nat) /\ request_list \in Seq(Nat)
        /\ queue \in Seq([setting : Settings \ {"seek"}, cb_private : Nat])
    BY EmptySeq DEF HotInit
  <2>3. /\ requested = [s \in Settings |-> 0] /\ at = [s \in Settings |-> 0]
        /\ value = [s \in Settings |-> <<0, 0>>] /\ told = [s \in Settings |-> <<0, 0>>]
        /\ req = [s \in Settings |-> FALSE]
    BY DEF HotInit
  <2>4. \A s \in Settings : Len(Setter[s]) \in Nat
    BY SettingsAre, SetterTable DEF Pairs, Carried
  <2>5. /\ serving = [w \in Workers |-> "none"] /\ pc = [w \in Workers |-> 0]
        /\ local = [w \in Workers |-> <<0, 0>>] /\ again = [w \in Workers |-> FALSE]
        /\ refused = {} /\ raced = {} /\ slot = 0
    BY DEF HotInit
  <2>6. /\ requested \in [Settings -> Nat] /\ at \in [Settings -> 0 .. 5]
        /\ \A s \in Settings : at[s] <= Len(Setter[s]) /\ (at[s] > 0 => requested[s] > 0)
        /\ value = [s \in Settings |-> value[s]] /\ told = [s \in Settings |-> told[s]]
        /\ \A s \in Settings : Pair(value[s]) /\ Pair(told[s])
        /\ req \in [Settings -> BOOLEAN]
    BY <2>3, <2>4 DEF Pair
  <2>7. /\ serving \in [Workers -> Settings \cup {"none"}]
        /\ serving["source"] \in {"none", "seek"} /\ serving["slow"] # "seek"
        /\ pc \in [Workers -> Nat]
        /\ \A w \in Workers : serving[w] # "none" => pc[w] \in 1 .. Len(Callback[serving[w]])
        /\ local = [w \in Workers |-> local[w]] /\ \A w \in Workers : Pair(local[w])
        /\ again \in [Workers -> BOOLEAN]
        /\ refused \subseteq Settings /\ raced \subseteq Settings /\ slot \in Nat
    BY <2>5 DEF Pair, Workers
  <2> QED
    BY <1>1, <2>1, <2>2, <2>6, <2>7 DEF Types
<1>7. \A s \in Settings : requested[s] = 0 /\ at[s] = 0 /\ ~Queued(s) /\ ~Busy(s)
                          /\ value[s] = <<0, 0>> /\ told[s] = <<0, 0>> /\ ~req[s]
  BY SettingsAre DEF HotInit, Queued, Busy, ServerOf, Workers
<1>8. \A s \in Settings : Good(s)
  <2> SUFFICES ASSUME NEW s \in Settings PROVE Good(s)
    OBVIOUS
  <2>1. s \in Valued => ValueKept(s) /\ ValuedGood(s)
    BY <1>7 DEF ValueKept, Due, ValuedGood
  <2>2. s \in Carried => CarriedGood(s)
    BY <1>7 DEF CarriedGood, QueueGood, Latest, Both, Queued
  <2>3. s = "antenna" => AntennaGood
    BY <1>7 DEF AntennaGood, Latest, Both, HotInit
  <2>4. s = "gain" => GainGood
    BY <1>7 DEF GainGood, Latest, Both, HotInit, Applying
  <2> QED
    BY <2>1, <2>2, <2>3, <2>4 DEF Good
<1>9. DeviceTold
  BY <1>7, SettingsAre DEF DeviceTold, OfSource, Both
<1>10. Watched \subseteq Settings
  BY <1>1, SlowConfAssumption DEF Used, Watched
<1> QED
  BY <1>4, <1>5, <1>6, <1>7, <1>8, <1>9, <1>10 DEF SettingsInv

(***************************************************************************)
(* What happens to the source.                                             *)
(***************************************************************************)
\* Nothing a setting is about, and not its rate.
SourceKept(s, t) ==
  /\ SourceShape(t)
  /\ t.config.type = s.config.type /\ t.config.samp_rate = s.config.samp_rate
  /\ t.samp_rate = s.samp_rate /\ t.decim = s.decim

LEMMA MovedKept ==
  ASSUME NEW s, SourceShape(s), NEW to
  PROVE  /\ SourceKept(s, Moved(s, to)) /\ Moved(s, to).sdr = s.sdr
         /\ Moved(s, to).capturing = s.capturing
<1> DEFINE t == Moved(s, to)
<1>1. t = [s EXCEPT !.pos = to.pos, !.looped = to.looped, !.total_samples = to.total_samples,
                    !.ptrs = to.ptrs]
  BY DEF Moved
<1> HIDE DEF t
<1> QED
  BY <1>1 DEF SourceShape, SourceKept, t

LEMMA ReadKept ==
  ASSUME NEW s, SourceShape(s), NEW max, NEW answer, NEW t,
         t = suscan_source_read(s, max, answer).src
  PROVE  SourceKept(s, t) /\ t.sdr = s.sdr /\ t.capturing = s.capturing
<1> DEFINE once == ReadOnce(s, max, answer)
<1>1. \/ t = s \/ \E to : t = Moved(s, to)
      \/ t = once.src \/ t = Counted(once).src
  BY DEF suscan_source_read
<1>2. /\ SourceKept(s, once.src) /\ once.src.sdr = s.sdr /\ once.src.capturing = s.capturing
      /\ "src" \in DOMAIN once
  <2>1. once = suscan_source_read_file(s, max) \/ once = suscan_source_read_sdr(s, max, answer)
    BY DEF ReadOnce
  <2>2. CASE once = suscan_source_read_sdr(s, max, answer)
    BY <2>2 DEF suscan_source_read_sdr, SourceKept
  <2>3. CASE once = suscan_source_read_file(s, max)
    <3> DEFINE size == Min({max, BufferSize})
               Left(x) == Min({size, x.frames - x.pos})
               restarted == [s EXCEPT !.pos = 0, !.looped = TRUE, !.total_samples = 0]
               from == IF Left(s) = 0 /\ s.config.loop THEN restarted ELSE s
               moved == [from EXCEPT !.pos = @ + Left(from)]
    <3>1. /\ once.src \in {s, moved} /\ "src" \in DOMAIN once
      BY <2>3 DEF suscan_source_read_file
    <3>2. DOMAIN restarted = DOMAIN s /\ restarted.config = s.config /\ restarted.sdr = s.sdr
          /\ restarted.capturing = s.capturing /\ restarted.samp_rate = s.samp_rate
          /\ restarted.decim = s.decim
      BY DEF SourceShape
    <3>3. DOMAIN from = DOMAIN s /\ from.config = s.config /\ from.sdr = s.sdr
          /\ from.capturing = s.capturing /\ from.samp_rate = s.samp_rate
          /\ from.decim = s.decim
      <4> HIDE DEF restarted
      <4> QED
        BY <3>2
    <3> DEFINE n == from.pos + Left(from)
    <3>4. moved = [from EXCEPT !.pos = n]
      OBVIOUS
    <3> HIDE DEF from, moved, n
    <3>5. DOMAIN moved = DOMAIN s /\ moved.config = s.config /\ moved.sdr = s.sdr
          /\ moved.capturing = s.capturing /\ moved.samp_rate = s.samp_rate
          /\ moved.decim = s.decim
      BY <3>3, <3>4 DEF SourceShape
    <3> QED
      BY <3>1, <3>5 DEF SourceKept, SourceShape
  <2> QED
    BY <2>1, <2>2, <2>3
<1>3. /\ SourceKept(s, Counted(once).src) /\ Counted(once).src.sdr = s.sdr
      /\ Counted(once).src.capturing = s.capturing
  <2> DEFINE n == (once.src.total_samples + once.got) % CountModulus
             counted == [once.src EXCEPT !.total_samples = n]
  <2>1. Counted(once).src = counted
    BY <1>2 DEF Counted
  <2> HIDE DEF once, n
  <2>2. DOMAIN counted = DOMAIN once.src /\ counted.config = once.src.config
        /\ counted.sdr = once.src.sdr /\ counted.capturing = once.src.capturing
        /\ counted.samp_rate = once.src.samp_rate /\ counted.decim = once.src.decim
    BY <1>2 DEF SourceKept, SourceShape
  <2> HIDE DEF counted
  <2> QED
    BY <1>2, <2>1, <2>2 DEF SourceKept, SourceShape
<1>4. SourceKept(s, s)
  BY DEF SourceKept
<1> HIDE DEF once
<1> QED
  BY <1>1, <1>2, <1>3, <1>4, MovedKept


DeviceFields == {"freq", "bandwidth", "ppm", "dc_remove", "agc", "antenna", "gain"}

LEMMA TellKept ==
  ASSUME NEW s, SourceShape(s), NEW field \in DeviceFields, NEW v, NEW accepts \in BOOLEAN,
         NEW t, t = Tell(s, field, v, accepts)
  PROVE  /\ SourceKept(s, t.src) /\ t.ok = accepts
         /\ t.src.capturing = s.capturing /\ t.src.config = s.config
         /\ accepts => t.src.sdr[field] = v
         /\ \A f \in DeviceFields : f # field \/ ~accepts => t.src.sdr[f] = s.sdr[f]
         /\ t \in [src : {t.src}, ok : {t.ok}]
<1> DEFINE device == [s.sdr EXCEPT ![field] = v]
           telling == [s EXCEPT !.sdr = device]
<1>1. t = [src |-> IF accepts THEN telling ELSE s, ok |-> accepts]
  BY DEF Tell
<1>2. /\ DOMAIN device = DOMAIN s.sdr /\ device[field] = v
      /\ \A f \in DeviceFields : f # field => device[f] = s.sdr[f]
  BY DEF SourceShape, DeviceFields
<1> HIDE DEF device
<1>3. /\ DOMAIN telling = DOMAIN s /\ telling.sdr = device /\ telling.config = s.config
      /\ telling.capturing = s.capturing /\ telling.samp_rate = s.samp_rate
      /\ telling.decim = s.decim
  BY DEF SourceShape
<1> HIDE DEF telling
<1>4. t.src = (IF accepts THEN telling ELSE s) /\ t.ok = accepts
      /\ t \in [src : {t.src}, ok : {t.ok}]
  BY <1>1
<1>5. CASE accepts
  <2>1. t.src = telling
    BY <1>4, <1>5
  <2> QED
    BY <1>2, <1>3, <1>4, <1>5, <2>1 DEF SourceKept, SourceShape
<1>6. CASE ~accepts
  BY <1>4, <1>6 DEF SourceKept
<1> QED
  BY <1>5, <1>6

\* A change of the configuration alone.
LEMMA ConfigKept ==
  ASSUME NEW s, SourceShape(s), NEW config, DOMAIN config = DOMAIN s.config,
         config.type = s.config.type, config.samp_rate = s.config.samp_rate,
         NEW t, t = [s EXCEPT !.config = config]
  PROVE  /\ SourceKept(s, t) /\ t.capturing = s.capturing /\ t.sdr = s.sdr
         /\ t.config = config
BY DEF SourceKept, SourceShape

DeviceField(s) == CASE s = "freq" -> "freq" [] s = "bw" -> "bandwidth" [] OTHER -> s

LEMMA CallKept ==
  ASSUME SourceShape(src), NEW s \in Settings \ {"seek", "throttle", "psd_params"},
         NEW v, NEW accepts \in BOOLEAN, NEW call, call = Call(s, v, accepts)
  PROVE  /\ SourceKept(src, call.src) /\ call.src.capturing = src.capturing
         /\ call.ok \in BOOLEAN
         /\ RealTime =>
              /\ call.ok => call.src.sdr[DeviceField(s)] = DeviceValue(s, v)
              /\ \A f \in DeviceFields :
                   f # DeviceField(s) \/ ~call.ok => call.src.sdr[f] = src.sdr[f]
         /\ Void(s, v) => ~call.ok
<1>1. SourceKept(src, src)
  BY DEF SourceKept
<1>2. CASE call = Refused(src)
  BY <1>1, <1>2 DEF Refused
<1>3. CASE s = "agc"
  <2>1. CASE call = Tell(src, "agc", v[1], accepts)
    <3>1. /\ SourceKept(src, call.src) /\ call.ok = accepts
          /\ call.src.capturing = src.capturing
          /\ accepts => call.src.sdr["agc"] = v[1]
          /\ \A f \in DeviceFields : f # "agc" \/ ~accepts => call.src.sdr[f] = src.sdr[f]
      BY <2>1, TellKept DEF DeviceFields
    <3> QED
      BY <1>3, <3>1 DEF DeviceField, DeviceValue, Void
  <2> QED
    BY <1>2, <1>3, <2>1 DEF Call, suscan_source_set_agc
<1>4. CASE s = "gain"
  <2> DEFINE config == [src.config EXCEPT !.gain = v[1]]
             set == [src EXCEPT !.config = config]
  <2>1. config.type = src.config.type /\ config.samp_rate = src.config.samp_rate
        /\ DOMAIN config = DOMAIN src.config
    BY DEF SourceShape
  <2> HIDE DEF config
  <2>2. SourceKept(src, set) /\ set.capturing = src.capturing /\ set.sdr = src.sdr
    BY <2>1, ConfigKept
  <2> HIDE DEF set
  <2>3. call = Refused(src) \/ call = Tell(set, "gain", v[1], accepts)
    BY <1>4 DEF Call, suscan_source_set_gain, config, set
  <2>4. CASE call = Tell(set, "gain", v[1], accepts)
    <3>1. /\ SourceKept(set, call.src) /\ call.ok = accepts
          /\ call.src.capturing = set.capturing
          /\ accepts => call.src.sdr["gain"] = v[1]
          /\ \A f \in DeviceFields : f # "gain" \/ ~accepts => call.src.sdr[f] = set.sdr[f]
      BY <2>2, <2>4, TellKept DEF DeviceFields, SourceKept
    <3> QED
      BY <1>4, <2>2, <3>1 DEF SourceKept, DeviceField, DeviceValue, Void
  <2> QED
    BY <1>2, <2>3, <2>4
<1>5. CASE s = "bw"
  <2> DEFINE config == [src.config EXCEPT !.bandwidth = v[1]]
             set == [src EXCEPT !.config = config]
  <2>1. config.type = src.config.type /\ config.samp_rate = src.config.samp_rate
        /\ DOMAIN config = DOMAIN src.config
    BY DEF SourceShape
  <2> HIDE DEF config
  <2>2. SourceKept(src, set) /\ set.capturing = src.capturing /\ set.sdr = src.sdr
    BY <2>1, ConfigKept
  <2> HIDE DEF set
  <2>3. call = Refused(src) \/ call = Tell(set, "bandwidth", v[1], accepts)
    BY <1>5 DEF Call, suscan_source_set_bandwidth, config, set
  <2>4. CASE call = Tell(set, "bandwidth", v[1], accepts)
    <3>1. /\ SourceKept(set, call.src) /\ call.ok = accepts
          /\ call.src.capturing = set.capturing
          /\ accepts => call.src.sdr["bandwidth"] = v[1]
          /\ \A f \in DeviceFields : f # "bandwidth" \/ ~accepts => call.src.sdr[f] = set.sdr[f]
      BY <2>2, <2>4, TellKept DEF DeviceFields, SourceKept
    <3> QED
      BY <1>5, <2>2, <3>1 DEF SourceKept, DeviceField, DeviceValue, Void
  <2> QED
    BY <1>2, <2>3, <2>4
<1>6. CASE s = "ppm"
  <2> DEFINE config == [src.config EXCEPT !.ppm = v[1]]
             set == [src EXCEPT !.config = config]
  <2>1. config.type = src.config.type /\ config.samp_rate = src.config.samp_rate
        /\ DOMAIN config = DOMAIN src.config
    BY DEF SourceShape
  <2> HIDE DEF config
  <2>2. SourceKept(src, set) /\ set.capturing = src.capturing /\ set.sdr = src.sdr
    BY <2>1, ConfigKept
  <2> HIDE DEF set
  <2>3. call = Refused(src) \/ call = Tell(set, "ppm", v[1], accepts)
    BY <1>6 DEF Call, suscan_source_set_ppm, config, set
  <2>4. CASE call = Tell(set, "ppm", v[1], accepts)
    <3>1. /\ SourceKept(set, call.src) /\ call.ok = accepts
          /\ call.src.capturing = set.capturing
          /\ accepts => call.src.sdr["ppm"] = v[1]
          /\ \A f \in DeviceFields : f # "ppm" \/ ~accepts => call.src.sdr[f] = set.sdr[f]
      BY <2>2, <2>4, TellKept DEF DeviceFields, SourceKept
    <3> QED
      BY <1>6, <2>2, <3>1 DEF SourceKept, DeviceField, DeviceValue, Void
  <2> QED
    BY <1>2, <2>3, <2>4
<1>7. CASE s = "antenna"
  <2> DEFINE takes == accepts /\ v[1] # 0
             telling == Tell(src, "antenna", v[1], takes)
             config == [telling.src.config EXCEPT !.antenna = telling.src.sdr.antenna]
             set == [telling.src EXCEPT !.config = config]
  <2>1. takes \in BOOLEAN
    OBVIOUS
  <2>2. /\ SourceKept(src, telling.src) /\ telling.ok = takes
        /\ telling.src.capturing = src.capturing /\ telling.src.config = src.config
        /\ takes => telling.src.sdr["antenna"] = v[1]
        /\ \A f \in DeviceFields : f # "antenna" \/ ~takes => telling.src.sdr[f] = src.sdr[f]
        /\ telling \in [src : {telling.src}, ok : {telling.ok}]
    <3> HIDE DEF takes
    <3> QED
      BY <2>1, TellKept DEF DeviceFields
  <2>3. call = Refused(src) \/ (call.src = set /\ call.ok = telling.ok)
    BY <1>7, <2>2 DEF Call, suscan_source_set_antenna
  <2>4. takes => v[1] # 0
    OBVIOUS
  <2> HIDE DEF telling, takes
  <2>5. config.type = telling.src.config.type /\ DOMAIN config = DOMAIN telling.src.config
        /\ config.samp_rate = telling.src.config.samp_rate
    BY <2>2 DEF SourceKept, SourceShape
  <2> HIDE DEF config
  <2>6. SourceKept(telling.src, set) /\ set.capturing = src.capturing
        /\ set.sdr = telling.src.sdr
    BY <2>2, <2>5, ConfigKept DEF SourceKept
  <2> HIDE DEF set
  <2>7. CASE call.src = set /\ call.ok = telling.ok
    BY <1>7, <2>2, <2>6, <2>7, <2>4, <2>1 DEF SourceKept, DeviceField, DeviceValue, Void
  <2>8. CASE call = telling
    BY <1>7, <2>1, <2>2, <2>8, <2>4 DEF SourceKept, DeviceField, DeviceValue, Void
  <2> QED
    BY <1>2, <2>3, <2>7, <2>8
<1>8. CASE s = "dc_remove"
  <2> DEFINE telling == Tell(src, "dc_remove", v[1], accepts)
             config == [telling.src.config EXCEPT !.dc_remove = v[1]]
             set == [telling.src EXCEPT !.config = config]
  <2>1. (accepts) \in BOOLEAN
    OBVIOUS
  <2>2. /\ SourceKept(src, telling.src) /\ telling.ok = (accepts)
        /\ telling.src.capturing = src.capturing /\ telling.src.config = src.config
        /\ (accepts) => telling.src.sdr["dc_remove"] = v[1]
        /\ \A f \in DeviceFields : f # "dc_remove" \/ ~(accepts) => telling.src.sdr[f] = src.sdr[f]
        /\ telling \in [src : {telling.src}, ok : {telling.ok}]
    BY <2>1, TellKept DEF DeviceFields
  <2>3. call = Refused(src) \/ call = telling \/ (call.src = set /\ call.ok = telling.ok)
    BY <1>8, <2>2 DEF Call, suscan_source_set_dc_remove
  <2> HIDE DEF telling
  <2>4. config.type = telling.src.config.type /\ DOMAIN config = DOMAIN telling.src.config
        /\ config.samp_rate = telling.src.config.samp_rate
    BY <2>2 DEF SourceKept, SourceShape
  <2> HIDE DEF config
  <2>5. SourceKept(telling.src, set) /\ set.capturing = src.capturing
        /\ set.sdr = telling.src.sdr
    BY <2>2, <2>4, ConfigKept DEF SourceKept
  <2> HIDE DEF set
  <2>6. CASE call.src = set /\ call.ok = telling.ok
    BY <1>8, <2>2, <2>5, <2>6 DEF SourceKept, DeviceField, DeviceValue, Void
  <2>7. CASE call = telling
    BY <1>8, <2>2, <2>7 DEF SourceKept, DeviceField, DeviceValue, Void
  <2> QED
    BY <1>2, <2>3, <2>6, <2>7
<1>9. CASE s = "freq"
  <2> DEFINE config == [src.config EXCEPT !.freq = v[1], !.lnb_freq = v[2]]
             set == [src EXCEPT !.config = config]
  <2>1. /\ config.type = src.config.type /\ config.samp_rate = src.config.samp_rate
        /\ DOMAIN config = DOMAIN src.config
        /\ config.freq = v[1] /\ config.lnb_freq = v[2]
    BY DEF SourceShape
  <2>2. call = Refused(src) \/ (call = Done(src) /\ ~RealTime) \/ call = Tune(set, accepts)
    BY <1>9 DEF Call, suscan_source_set_freq2, RealTime
  <2> HIDE DEF config
  <2>3. /\ SourceKept(src, set) /\ set.capturing = src.capturing /\ set.sdr = src.sdr
        /\ set.config = config
    BY <2>1, ConfigKept
  <2> HIDE DEF set
  <2>4. CASE call = Tune(set, accepts)
    <3>1. call = Tell(set, "freq", v[1] - v[2], accepts)
      BY <2>1, <2>3, <2>4 DEF Tune
    <3>2. /\ SourceKept(set, call.src) /\ call.ok = accepts
          /\ call.src.capturing = set.capturing
          /\ accepts => call.src.sdr["freq"] = v[1] - v[2]
          /\ \A f \in DeviceFields : f # "freq" \/ ~accepts => call.src.sdr[f] = set.sdr[f]
      BY <2>3, <3>1, TellKept DEF DeviceFields, SourceKept
    <3> QED
      BY <1>9, <2>3, <3>2 DEF SourceKept, DeviceField, DeviceValue, Void
  <2>5. CASE call = Done(src) /\ ~RealTime
    <3>1. call.src = src /\ call.ok = TRUE
      BY <2>5 DEF Done
    <3> QED
      BY <1>1, <1>9, <2>5, <3>1 DEF Void
  <2> QED
    BY <1>2, <2>2, <2>4, <2>5
<1> QED
  BY <1>3, <1>4, <1>5, <1>6, <1>7, <1>8, <1>9, SettingsAre

(***************************************************************************)
(* What a step leaves alone.                                               *)
(***************************************************************************)
Frame(s) ==
  /\ at'[s] = at[s] /\ requested'[s] = requested[s]
  /\ value'[s] = value[s] /\ req'[s] = req[s] /\ told'[s] = told[s]
  /\ s \in raced => s \in raced'
  /\ Busy(s)' <=> Busy(s)
  /\ Busy(s) => Place(s)' = Place(s) /\ Copy(s)' = Copy(s)
  /\ Queued(s)' <=> Queued(s)
  /\ s \in Carried => QueueGood(s)'
  /\ s = "antenna" => slot' = slot
  /\ s = "gain" => list' = list /\ request_list' = request_list /\ ("gain" \in refused => "gain" \in refused')
  /\ s = "throttle" => suscan_source_get_samp_rate(src)' = suscan_source_get_samp_rate(src)

LEMMA AskedFrame ==
  ASSUME NEW s, s = "throttle" =>
                  suscan_source_get_samp_rate(src)' = suscan_source_get_samp_rate(src)
  PROVE  \A n : Asked(s, n)' = Asked(s, n)
BY DEF Asked

LEMMA GoodFrame ==
  ASSUME NEW s \in Settings, Good(s), Frame(s)
  PROVE  Good(s)'
<1>1. \A n : Due(s, n)' = Due(s, n)
  BY AskedFrame DEF Due, Frame
<1>2. CASE s \in Valued
  <2>1. ValueKept(s)'
    BY <1>1, <1>2 DEF ValueKept, Good, Frame
  <2>2. ASSUME s \notin raced \cap Flagged PROVE ValuedGood(s)'
    <3>1. Fresh(s)' <=> Fresh(s)
      BY DEF Fresh, Frame
    <3>2. Waiting(s)' <=> Waiting(s)
      BY DEF Waiting, Frame
    <3>3. Asked(s, requested[s])' = Asked(s, requested[s])
      BY AskedFrame DEF Frame
    <3> QED
      BY <1>2, <2>2, <3>1, <3>2, <3>3 DEF ValuedGood, Good, Frame, Coming, ApplyAt
  <2> QED
    BY <1>2, <2>1, <2>2 DEF Good, Frame, Valued, Pairs, Singles, Carried
<1>3. CASE s \in Carried
  BY <1>3 DEF Good, Frame, CarriedGood, Valued, Pairs, Singles, Carried, Latest
<1>4. CASE s = "antenna"
  BY <1>4 DEF Good, Frame, AntennaGood, Valued, Pairs, Singles, Carried, Latest
<1>5. CASE s = "gain"
  BY <1>5 DEF Good, Frame, GainGood, Valued, Pairs, Singles, Carried, Latest, Applying
<1> QED
  BY <1>2, <1>3, <1>4, <1>5, SettingsAre DEF Good, Valued, Pairs, Singles, Carried


(***************************************************************************)
(* Requests.                                                               *)
(***************************************************************************)
LEMMA SetterLengths ==
  /\ \A s \in Pairs : Len(Setter[s]) = 4
  /\ \A s \in {"bw", "ppm"} : Len(Setter[s]) = 3
  /\ Len(Setter["seek"]) = 2 /\ Len(Setter["throttle"]) = 5
  /\ \A s \in Carried : Len(Setter[s]) = 1
  /\ Len(Setter["antenna"]) = 2 /\ Len(Setter["gain"]) = 2
  /\ \A s \in Settings : Len(Setter[s]) \in 1 .. 5
<1>1. \A s \in Pairs : Len(Setter[s]) = 4
  <2> SUFFICES ASSUME NEW s \in Pairs PROVE Len(Setter[s]) = 4
    OBVIOUS
  <2>1. Setter[s] = <<"hi", "lo", "req", "push">>
    BY SetterTable
  <2> QED
    BY <2>1
<1>2. \A s \in {"bw", "ppm"} : Len(Setter[s]) = 3
  <2> SUFFICES ASSUME NEW s \in {"bw", "ppm"} PROVE Len(Setter[s]) = 3
    OBVIOUS
  <2>1. Setter[s] = <<"value", "req", "push">>
    BY SetterTable
  <2> QED
    BY <2>1
<1>3. Len(Setter["seek"]) = 2 /\ Len(Setter["throttle"]) = 5
  BY SetterTable
<1>4. \A s \in Carried : Len(Setter[s]) = 1
  <2> SUFFICES ASSUME NEW s \in Carried PROVE Len(Setter[s]) = 1
    OBVIOUS
  <2>1. Setter[s] = <<"push">>
    BY SetterTable
  <2> QED
    BY <2>1
<1>5. Len(Setter["antenna"]) = 2
  BY SetterTable
<1>6. Len(Setter["gain"]) = 2
  BY SetterTable
<1> QED
  BY <1>1, <1>2, <1>3, <1>4, <1>5, <1>6, SettingsAre DEF Pairs, Carried

LEMMA SetterPlaces ==
  ASSUME NEW s \in Settings, NEW i \in 1 .. Len(Setter[s])
  PROVE  /\ Len(Setter[s]) \in 1 .. 5
         /\ Setter[s][i] = "value" =>
              \/ s \in Singles /\ i = 1
              \/ s = "throttle" /\ i = 3
         /\ Setter[s][i] = "hi" => s \in Pairs /\ i = 1
         /\ Setter[s][i] = "lo" => s \in Pairs /\ i = 2
         /\ Setter[s][i] = "req" =>
              \/ s \in Pairs /\ i = 3
              \/ s \in Singles \cup {"throttle"} /\ i = 2
         /\ Setter[s][i] = "push" =>
              \/ s \in Pairs \cup {"throttle"} /\ i = 4
              \/ s \in {"bw", "ppm"} /\ i = 3
              \/ s \in Carried /\ i = 1
              \/ s \in {"antenna", "gain"} /\ i = 2
         /\ Setter[s][i] = "slot" => s = "antenna" /\ i = 1
         /\ Setter[s][i] = "list" => s = "gain" /\ i = 1
         /\ Setter[s][i] = "init" => s = "throttle" /\ i = 1
         /\ Setter[s][i] = "unlock" => s = "throttle" /\ i = 5
         /\ Setter[s][i] \in {"value", "hi", "lo", "req", "push", "slot", "list", "init", "unlock"}
<1>1. CASE s \in Pairs
  <2>1. /\ Setter[s] = <<"hi", "lo", "req", "push">>
        /\ i \in {1, 2, 3, 4}
    <3>1. /\ Setter[s] = <<"hi", "lo", "req", "push">> /\ Len(Setter[s]) = 4
      BY <1>1, SetterTable, SetterLengths
    <3> QED
      BY <3>1
  <2>2. /\ i = 1 => Setter[s][i] = "hi"
        /\ i = 2 => Setter[s][i] = "lo"
        /\ i = 3 => Setter[s][i] = "req"
        /\ i = 4 => Setter[s][i] = "push"
    BY <2>1
  <2> QED
    BY <1>1, <2>1, <2>2, SetterLengths DEF Pairs, Singles, Carried
<1>2. CASE s \in {"bw", "ppm"}
  <2>1. /\ Setter[s] = <<"value", "req", "push">>
        /\ i \in {1, 2, 3}
    <3>1. /\ Setter[s] = <<"value", "req", "push">> /\ Len(Setter[s]) = 3
      BY <1>2, SetterTable, SetterLengths
    <3> QED
      BY <3>1
  <2>2. /\ i = 1 => Setter[s][i] = "value"
        /\ i = 2 => Setter[s][i] = "req"
        /\ i = 3 => Setter[s][i] = "push"
    BY <2>1
  <2> QED
    BY <1>2, <2>1, <2>2, SetterLengths DEF Pairs, Singles, Carried
<1>3. CASE s = "seek"
  <2>1. /\ Setter[s] = <<"value", "req">>
        /\ i \in {1, 2}
    <3>1. /\ Setter[s] = <<"value", "req">> /\ Len(Setter[s]) = 2
      BY <1>3, SetterTable, SetterLengths
    <3> QED
      BY <3>1
  <2>2. /\ i = 1 => Setter[s][i] = "value"
        /\ i = 2 => Setter[s][i] = "req"
    BY <2>1
  <2> QED
    BY <1>3, <2>1, <2>2, SetterLengths DEF Pairs, Singles, Carried
<1>4. CASE s = "throttle"
  <2>1. /\ Setter[s] = <<"init", "req", "value", "push", "unlock">>
        /\ i \in {1, 2, 3, 4, 5}
    <3>1. /\ Setter[s] = <<"init", "req", "value", "push", "unlock">> /\ Len(Setter[s]) = 5
      BY <1>4, SetterTable, SetterLengths
    <3> QED
      BY <3>1
  <2>2. /\ i = 1 => Setter[s][i] = "init"
        /\ i = 2 => Setter[s][i] = "req"
        /\ i = 3 => Setter[s][i] = "value"
        /\ i = 4 => Setter[s][i] = "push"
        /\ i = 5 => Setter[s][i] = "unlock"
    BY <2>1
  <2> QED
    BY <1>4, <2>1, <2>2, SetterLengths DEF Pairs, Singles, Carried
<1>5. CASE s \in Carried
  <2>1. /\ Setter[s] = <<"push">>
        /\ i \in {1}
    <3>1. /\ Setter[s] = <<"push">> /\ Len(Setter[s]) = 1
      BY <1>5, SetterTable, SetterLengths
    <3> QED
      BY <3>1
  <2>2. /\ i = 1 => Setter[s][i] = "push"
    BY <2>1
  <2> QED
    BY <1>5, <2>1, <2>2, SetterLengths DEF Pairs, Singles, Carried
<1>6. CASE s = "antenna"
  <2>1. /\ Setter[s] = <<"slot", "push">>
        /\ i \in {1, 2}
    <3>1. /\ Setter[s] = <<"slot", "push">> /\ Len(Setter[s]) = 2
      BY <1>6, SetterTable, SetterLengths
    <3> QED
      BY <3>1
  <2>2. /\ i = 1 => Setter[s][i] = "slot"
        /\ i = 2 => Setter[s][i] = "push"
    BY <2>1
  <2> QED
    BY <1>6, <2>1, <2>2, SetterLengths DEF Pairs, Singles, Carried
<1>7. CASE s = "gain"
  <2>1. /\ Setter[s] = <<"list", "push">>
        /\ i \in {1, 2}
    <3>1. /\ Setter[s] = <<"list", "push">> /\ Len(Setter[s]) = 2
      BY <1>7, SetterTable, SetterLengths
    <3> QED
      BY <3>1
  <2>2. /\ i = 1 => Setter[s][i] = "list"
        /\ i = 2 => Setter[s][i] = "push"
    BY <2>1
  <2> QED
    BY <1>7, <2>1, <2>2, SetterLengths DEF Pairs, Singles, Carried
<1> QED
  BY <1>1, <1>2, <1>3, <1>4, <1>5, <1>6, <1>7, SettingsAre DEF Pairs, Singles, Carried

LEMMA RequestingAt ==
  ASSUME Types, NEW s \in Settings, NEW access, Requesting(s, access)
  PROVE  /\ at[s] \in 1 .. Len(Setter[s]) /\ Setter[s][at[s]] = access
         /\ Len(Setter[s]) \in 1 .. 5
         /\ at'[s] = IF at[s] = Len(Setter[s]) THEN 0 ELSE at[s] + 1
         /\ at' \in [Settings -> 0 .. 5] /\ at'[s] <= Len(Setter[s])
         /\ \A x \in Settings : x # s => at'[x] = at[x]
         /\ requested[s] > 0
         /\ \A x \in Settings : at'[x] <= Len(Setter[x]) /\ (at'[x] > 0 => requested[x] > 0)
<1>1. /\ at[s] > 0 /\ Setter[s][at[s]] = access
      /\ at' = [at EXCEPT ![s] = IF @ = Len(Setter[s]) THEN 0 ELSE @ + 1]
  BY DEF Requesting
<1>2. \A x \in Settings : Len(Setter[x]) \in 1 .. 5
  BY SetterLengths
<1>3. /\ at \in [Settings -> 0 .. 5]
      /\ \A x \in Settings : at[x] <= Len(Setter[x]) /\ (at[x] > 0 => requested[x] > 0)
  BY DEF Types
<1>4. at[s] \in 1 .. Len(Setter[s])
  BY <1>1, <1>2, <1>3
<1>5. at'[s] = (IF at[s] = Len(Setter[s]) THEN 0 ELSE at[s] + 1) /\ at'[s] \in 0 .. Len(Setter[s])
      /\ \A x \in Settings : x # s => at'[x] = at[x]
  BY <1>1, <1>2, <1>3, <1>4
<1>6. at' \in [Settings -> 0 .. 5]
  <2> DEFINE i == at[s]
             len == Len(Setter[s])
             next == IF i = len THEN 0 ELSE i + 1
  <2>1. i \in 1 .. len /\ len \in 1 .. 5
    BY <1>2, <1>4
  <2>2. next \in 0 .. 5
    <3> HIDE DEF i, len
    <3> QED
      BY <2>1
  <2>3. at' = [at EXCEPT ![s] = next]
    BY <1>1
  <2> HIDE DEF next
  <2> QED
    BY <1>3, <2>2, <2>3
<1> QED
  BY <1>1, <1>2, <1>3, <1>4, <1>5, <1>6

LEMMA CallerFrame ==
  ASSUME SettingsInv, NEW x \in Watched, at'[x] = at[x], requested'[x] = requested[x],
         value'[x] = value[x], req'[x] = req[x], UNCHANGED <<queue, servers, outcome, raced>>,
         x = "antenna" => slot' = slot, x = "gain" => list' = list
  PROVE  Good(x)'
<1>1. x \in Settings /\ Good(x)
  BY SlowConfAssumption DEF SettingsInv, Types, Used, Watched
<1>2. Latest(x)' = Latest(x)
  BY DEF Latest
<1>3. x \in Carried => QueueGood(x)'
  BY <1>1, <1>2 DEF Good, CarriedGood, QueueGood
<1>4. Frame(x)
  BY <1>3 DEF Frame, servers, outcome, Busy, Place, Copy, ServerOf, Queued
<1> QED
  BY <1>1, <1>4, GoodFrame

LEMMA RequestInv ==
  ASSUME SettingsInv, NEW s \in Settings, Request(s)
  PROVE  SettingsInv'
<1>1. /\ s \in Used /\ at[s] = 0 /\ requested' = [requested EXCEPT ![s] = @ + 1]
      /\ at' = [at EXCEPT ![s] = 1]
      /\ UNCHANGED <<setup, value, req, slot, list, queue, servers, outcome, raced, loop>>
  BY DEF Request
<1>2. Types'
  <2>1. Len(Setter[s]) \in 1 .. 5
    BY SetterLengths
  <2>2. /\ requested' \in [Settings -> Nat] /\ at' \in [Settings -> 0 .. 5]
        /\ requested'[s] = requested[s] + 1 /\ at'[s] = 1 /\ requested[s] \in Nat
        /\ \A x \in Settings : x # s => at'[x] = at[x] /\ requested'[x] = requested[x]
    BY <1>1 DEF SettingsInv, Types
  <2>3. \A x \in Settings : at[x] <= Len(Setter[x]) /\ (at[x] > 0 => requested[x] > 0)
    BY DEF SettingsInv, Types
  <2>4. \A x \in Settings : at'[x] <= Len(Setter[x]) /\ (at'[x] > 0 => requested'[x] > 0)
    <3> SUFFICES ASSUME NEW x \in Settings
                 PROVE  at'[x] <= Len(Setter[x]) /\ (at'[x] > 0 => requested'[x] > 0)
      OBVIOUS
    <3>1. CASE x = s
      <4> DEFINE len == Len(Setter[s])
      <4>1. len \in 1 .. 5
        BY <2>1
      <4> HIDE DEF len
      <4>2. at'[s] <= len /\ requested'[s] > 0
        BY <2>2, <4>1
      <4> QED
        BY <3>1, <4>2 DEF len
    <3>2. CASE x # s
      BY <2>2, <2>3, <3>2
    <3> QED
      BY <3>1, <3>2
  <2> QED
    BY <1>1, <2>2, <2>4 DEF SettingsInv, Types, servers, outcome, loop
<1>3. \A x \in Watched : Good(x)'
  <2> SUFFICES ASSUME NEW x \in Watched PROVE Good(x)'
    OBVIOUS
  <2>1. x \in Settings /\ Good(x)
    BY SlowConfAssumption DEF SettingsInv, Types, Used, Watched
  <2>2. CASE x # s
    BY <1>1, <2>1, <2>2, CallerFrame DEF SettingsInv, Types, servers, outcome
  <2>3. CASE x = s
    <3>1. requested'[s] = requested[s] + 1 /\ at'[s] = 1 /\ requested[s] \in Nat
      BY <1>1 DEF SettingsInv, Types
    <3>2. \A n : Due(s, n)' = Due(s, n)
      BY <1>1, AskedFrame DEF Due, outcome
    <3>3. Latest(s)' = Latest(s)
      BY <1>1, <3>1 DEF Latest
    <3>4. CASE s \in Valued
      <4>1. ValueKept(s)'
        BY <1>1, <2>1, <2>3, <3>1, <3>2, <3>4 DEF ValueKept, Good
      <4>2. ASSUME s \notin raced \cap Flagged PROVE ValuedGood(s)'
        <5>1. Coming(s)' <=> Coming(s)
          BY <1>1, <3>1 DEF Coming, Fresh, Waiting, Queued
        <5>2. Fresh(s)' <=> Fresh(s)
          BY <1>1, <3>1 DEF Fresh
        <5> QED
          BY <1>1, <2>1, <2>3, <3>1, <3>4, <4>2, <5>1, <5>2
             DEF ValuedGood, Good, ApplyAt, Busy, Place, Copy, ServerOf, servers, outcome
      <4> QED
        BY <1>1, <3>4, <4>1, <4>2, <2>3 DEF Good, Valued, Pairs, Singles, Carried
    <3>5. CASE s \in Carried
      BY <1>1, <2>1, <2>3, <3>3, <3>5
         DEF Good, CarriedGood, QueueGood, Queued, Valued, Pairs, Singles, Carried, Busy, Copy,
             ServerOf, servers, outcome
    <3>6. CASE s = "antenna"
      BY <1>1, <2>1, <2>3, <3>1, <3>3, <3>6
         DEF Good, AntennaGood, Queued, Valued, Pairs, Singles, Carried, Busy, Copy, Place,
             ServerOf, servers, outcome
    <3>7. CASE s = "gain"
      BY <1>1, <2>1, <2>3, <3>1, <3>3, <3>7
         DEF Good, GainGood, Queued, Valued, Pairs, Singles, Carried, Busy, Copy, Place,
             ServerOf, servers, outcome, Applying
    <3> QED
      BY <3>4, <3>5, <3>6, <3>7, SettingsAre DEF Valued, Pairs, Singles, Carried
  <2> QED
    BY <2>2, <2>3
<1>4. \A x \in Settings \ Used : (requested[x] = 0 /\ ~Queued(x) /\ (x # "seek" => ~Busy(x)))'
  BY <1>1 DEF SettingsInv, Types, Used, Watched, Queued, Busy, ServerOf, servers
<1>5. SourceShape(src)'
  BY <1>1 DEF SettingsInv, SourceShape, outcome, Used, Watched
<1>6. DeviceTold' /\ InfoSent'
  BY <1>1 DEF SettingsInv, DeviceTold, InfoSent, outcome, servers, RealTime, Hardware, InfoOf, Busy,
     ServerOf
<1>7. Used' = Used /\ Watched' = Watched
  BY <1>1 DEF Used, Watched
<1> QED
  BY <1>2, <1>3, <1>4, <1>5, <1>6, <1>7 DEF SettingsInv


LEMMA CallerRest ==
  ASSUME SettingsInv, UNCHANGED <<setup, servers, outcome>>, Types',
         \A x \in Watched : Good(x)',
         \A x \in Settings \ Used : requested'[x] = 0 /\ ~Queued(x)'
  PROVE  SettingsInv'
<1>1. SourceShape(src)' /\ Used' = Used /\ Watched' = Watched
  BY DEF SettingsInv, SourceShape, outcome, Used, Watched
<1>2. DeviceTold' /\ InfoSent'
  BY DEF SettingsInv, DeviceTold, InfoSent, outcome, servers, RealTime, Hardware, InfoOf, Busy,
         ServerOf
<1>3. \A x \in Settings : Busy(x)' <=> Busy(x)
  BY DEF Busy, ServerOf, servers
<1> QED
  BY <1>1, <1>2, <1>3 DEF SettingsInv

\* Of the rest of a request.
LEMMA RequestingRest ==
  ASSUME SettingsInv, NEW s \in Settings, NEW access, Requesting(s, access),
         UNCHANGED queue,
         \A x \in Settings : x # s => value'[x] = value[x] /\ req'[x] = req[x],
         s # "antenna" => slot' = slot, s # "gain" => list' = list,
         value' = [x \in Settings |-> value'[x]], \A x \in Settings : Pair(value'[x]),
         req' \in [Settings -> BOOLEAN], slot' \in Nat, list' \in Seq(Nat),
         s \in Watched => Good(s)'
  PROVE  SettingsInv'
<1>1. UNCHANGED <<setup, requested, servers, outcome, raced>>
  BY DEF Requesting
<1>2. /\ at' \in [Settings -> 0 .. 5]
      /\ \A x \in Settings : x # s => at'[x] = at[x]
      /\ \A x \in Settings : at'[x] <= Len(Setter[x]) /\ (at'[x] > 0 => requested[x] > 0)
  BY RequestingAt DEF SettingsInv
<1>3. Types'
  BY <1>1, <1>2 DEF SettingsInv, Types, servers, outcome
<1>4. ASSUME NEW x \in Watched PROVE Good(x)'
  <2>1. x \in Settings
    BY SlowConfAssumption DEF SettingsInv, Types, Used, Watched
  <2> QED
    BY <1>1, <1>2, <2>1, CallerFrame
<1>5. \A x \in Settings \ Used : requested'[x] = 0 /\ ~Queued(x)'
  BY <1>1 DEF SettingsInv, Queued
<1> QED
  BY <1>1, <1>3, <1>4, <1>5, CallerRest

LEMMA SetValueInv ==
  ASSUME SettingsInv, NEW s \in Settings, NEW access \in {"value", "hi", "lo"},
         SetValue(s, access)
  PROVE  SettingsInv'
<1> DEFINE v == Asked(s, requested[s])
           new == CASE access = "value" -> v
                    [] access = "hi" -> <<v[1], value[s][2]>>
                    [] access = "lo" -> <<value[s][1], v[2]>>
<1>1. /\ Requesting(s, access) /\ value' = [value EXCEPT ![s] = new]
      /\ UNCHANGED <<req, slot, list, queue, loop>>
  BY DEF SetValue
<1>2. /\ at[s] \in 1 .. Len(Setter[s]) /\ Setter[s][at[s]] = access
      /\ at'[s] = (IF at[s] = Len(Setter[s]) THEN 0 ELSE at[s] + 1) /\ requested[s] > 0
  BY <1>1, RequestingAt DEF SettingsInv
<1>3. /\ access = "value" =>
           \/ s \in Singles /\ at[s] = 1
           \/ s = "throttle" /\ at[s] = 3
      /\ access = "hi" => s \in Pairs /\ at[s] = 1
      /\ access = "lo" => s \in Pairs /\ at[s] = 2
  BY <1>2, SetterPlaces
<1>4. Pair(v) /\ Pair(value[s])
  <2>1. Pair(v)
    BY DEF Asked, Pair
  <2> QED
    BY <2>1 DEF SettingsInv, Types
<1>5. Pair(new)
  <2> HIDE DEF v
  <2> QED
    BY <1>4 DEF Pair
<1>6. at'[s] = at[s] + 1
  <2>1. at[s] # Len(Setter[s])
    <3>1. CASE s \in Pairs
      BY <1>3, <3>1, SetterLengths DEF Singles, Pairs
    <3>2. CASE s \in {"bw", "ppm"}
      BY <1>3, <3>2, SetterLengths DEF Singles, Pairs
    <3>3. CASE s = "seek"
      BY <1>3, <3>3, SetterLengths DEF Singles, Pairs
    <3>4. CASE s = "throttle"
      BY <1>3, <3>4, SetterLengths DEF Singles, Pairs
    <3> QED
      BY <1>3, <3>1, <3>2, <3>3, <3>4 DEF Singles
  <2> QED
    BY <1>2, <2>1
<1>7. value'[s] = new /\ UNCHANGED <<requested, servers, outcome, raced>>
      /\ value' = [x \in Settings |-> value'[x]]
      /\ \A x \in Settings : x # s => value'[x] = value[x]
  <2> HIDE DEF new
  <2> QED
    BY <1>1 DEF SettingsInv, Types, Requesting
<1>8. ASSUME s \in Watched PROVE Good(s)'
  <2>1. Good(s)
    BY <1>8 DEF SettingsInv
  <2>2. \A n : Due(s, n)' = Due(s, n)
    BY <1>7, AskedFrame DEF Due, outcome
  <2>3. requested[s] \in Nat \ {0} /\ Due(s, requested[s]) = v
    BY <1>2 DEF SettingsInv, Types, Due
  <2>4. s \in Valued /\ s \notin Carried \cup {"antenna", "gain"}
    BY <1>3 DEF Valued, Pairs, Singles, Carried
  <2>5. ValueKept(s)'
    <3>1. ValueKept(s)
      BY <2>1, <2>4 DEF Good
    <3> HIDE DEF v
    <3>2. CASE access = "value"
      BY <1>3, <1>6, <1>7, <2>2, <2>3, <3>2 DEF ValueKept, Singles, Pairs
    <3>3. CASE access = "hi"
      <4>1. value[s] = Due(s, requested[s] - 1)
        BY <1>3, <3>1, <3>3 DEF ValueKept
      <4> QED
        BY <1>3, <1>6, <1>7, <2>2, <2>3, <3>3, <4>1 DEF ValueKept, Pairs
    <3>4. CASE access = "lo"
      <4>1. value[s] = <<v[1], Due(s, requested[s] - 1)[2]>>
        BY <1>3, <2>3, <3>1, <3>4 DEF ValueKept, Pairs
      <4>2. value'[s] = v
        BY <1>4, <1>7, <3>4, <4>1 DEF Pair
      <4> QED
        BY <1>3, <1>6, <1>7, <2>2, <2>3, <3>4, <4>2 DEF ValueKept, Pairs
    <3> QED
      BY <3>2, <3>3, <3>4
  <2>6. ASSUME s \notin raced \cap Flagged PROVE ValuedGood(s)'
    <3>1. ValuedGood(s)
      BY <2>1, <2>4, <2>6 DEF Good
    <3>2. CASE s = "throttle"
      <4>1. \/ Coming(s)' /\ req'[s]
            \/ value'[s] = value[s] /\ (Coming(s) => Coming(s)')
        <5>1. CASE req[s]
          BY <1>1, <1>3, <1>6, <3>2, <5>1 DEF Coming, Waiting, Pairs, Singles
        <5>2. CASE value[s] = Asked(s, requested[s])
          <6>1. access = "value" /\ value'[s] = value[s]
            BY <1>3, <1>7, <3>2, <5>2 DEF Pairs, Singles
          <6>2. Coming(s) => Coming(s)'
            BY <1>1, <3>2, <1>6, <1>3 DEF Coming, Fresh, Waiting, Queued, Pairs, Singles
          <6> QED
            BY <6>1, <6>2
        <5> QED
          BY <1>3, <3>1, <3>2, <5>1, <5>2 DEF ValuedGood, Pairs, Singles
      <4> QED
        BY <1>1, <1>3, <1>6, <1>7, <3>1, <3>2, <4>1
           DEF ValuedGood, Busy, Place, Copy, ServerOf, servers, outcome, ApplyAt, Pairs, Singles,
               Fresh
    <3>3. CASE s # "throttle"
      <4>1. Coming(s)' /\ Fresh(s)'
        BY <1>1, <1>3, <1>6, <3>1, <3>3 DEF ValuedGood, Coming, Fresh, Waiting, Pairs, Singles
      <4> QED
        BY <1>3, <1>6, <1>7, <3>1, <3>3, <4>1
           DEF ValuedGood, Busy, Place, Copy, ServerOf, servers, outcome, ApplyAt, Pairs, Singles
    <3> QED
      BY <3>2, <3>3
  <2> QED
    BY <1>7, <2>4, <2>5, <2>6 DEF Good
<1> HIDE DEF new
<1> QED
  BY <1>1, <1>5, <1>7, <1>8, RequestingRest DEF SettingsInv, Types


LEMMA SetReqInv ==
  ASSUME SettingsInv, NEW s \in Settings, SetReq(s)
  PROVE  SettingsInv'
<1>1. /\ Requesting(s, "req") /\ req' = [req EXCEPT ![s] = TRUE]
      /\ UNCHANGED <<value, slot, list, queue, loop>>
  BY DEF SetReq
<1>2. /\ at[s] \in 1 .. Len(Setter[s]) /\ Setter[s][at[s]] = "req"
      /\ at'[s] = (IF at[s] = Len(Setter[s]) THEN 0 ELSE at[s] + 1) /\ requested[s] > 0
  BY <1>1, RequestingAt DEF SettingsInv
<1>3. \/ s \in Pairs /\ at[s] = 3
      \/ s \in Singles \cup {"throttle"} /\ at[s] = 2
  BY <1>2, SetterPlaces
<1>4. at'[s] = IF s = "seek" THEN 0 ELSE at[s] + 1
  <2>1. CASE s \in Pairs
    <3>1. Len(Setter[s]) = 4 /\ s # "seek" /\ s \notin Singles \cup {"throttle"}
      BY <2>1, SetterLengths DEF Singles, Pairs
    <3> QED
      BY <1>2, <1>3, <3>1
  <2>2. CASE s \in {"bw", "ppm"}
    <3>1. Len(Setter[s]) = 3 /\ s # "seek" /\ s \notin Pairs
      BY <2>2, SetterLengths DEF Pairs
    <3> QED
      BY <1>2, <1>3, <2>2, <3>1
  <2>3. CASE s = "seek"
    BY <1>2, <1>3, <2>3, SetterLengths DEF Singles, Pairs
  <2>4. CASE s = "throttle"
    BY <1>2, <1>3, <2>4, SetterLengths DEF Singles, Pairs
  <2> QED
    BY <1>3, <2>1, <2>2, <2>3, <2>4 DEF Singles
<1>5. /\ req'[s] = TRUE /\ UNCHANGED <<requested, servers, outcome, raced>>
      /\ req' \in [Settings -> BOOLEAN]
      /\ \A x \in Settings : x # s => req'[x] = req[x]
  BY <1>1 DEF SettingsInv, Types, Requesting
<1>6. ASSUME s \in Watched PROVE Good(s)'
  <2>1. Good(s)
    BY <1>6 DEF SettingsInv
  <2>2. \A n : Due(s, n)' = Due(s, n)
    BY <1>5, AskedFrame DEF Due, outcome
  <2>3. s \in Valued /\ s \notin Carried \cup {"antenna", "gain"}
    BY <1>3 DEF Valued, Pairs, Singles, Carried
  <2>4. ValueKept(s)'
    <3>1. ValueKept(s)
      BY <2>1, <2>3 DEF Good
    <3> QED
      BY <1>1, <1>3, <1>4, <1>5, <2>2, <3>1 DEF ValueKept, Pairs, Singles
  <2>5. ASSUME s \notin raced \cap Flagged PROVE ValuedGood(s)'
    <3>1. ValuedGood(s)
      BY <2>1, <2>3, <2>5 DEF Good
    <3>2. CASE s = "throttle"
      <4>1. Coming(s) => Coming(s)'
        BY <1>1, <1>3, <1>4, <1>5, <3>2 DEF Coming, Fresh, Waiting, Pairs, Singles, Queued
      <4> QED
        BY <1>1, <1>5, <3>1, <3>2, <4>1
           DEF ValuedGood, Busy, Place, Copy, ServerOf, servers, outcome, ApplyAt, Pairs, Singles
    <3>3. CASE s # "throttle"
      <4>1. Coming(s)'
        BY <1>3, <1>4, <1>5, <3>3 DEF Coming, Waiting, Pairs, Singles
      <4> QED
        BY <1>1, <1>5, <3>1, <3>3, <4>1
           DEF ValuedGood, Busy, Place, Copy, ServerOf, servers, outcome, ApplyAt
    <3> QED
      BY <3>2, <3>3
  <2> QED
    BY <1>5, <2>3, <2>4, <2>5 DEF Good
<1>7. /\ value' = [x \in Settings |-> value'[x]] /\ \A x \in Settings : Pair(value'[x])
      /\ slot' \in Nat /\ list' \in Seq(Nat) /\ \A x \in Settings : value'[x] = value[x]
  BY <1>1 DEF SettingsInv, Types, Pair
<1> QED
  BY <1>1, <1>5, <1>6, <1>7, RequestingRest

LEMMA SetSlotInv ==
  ASSUME SettingsInv, NEW s \in Settings, SetSlot(s)
  PROVE  SettingsInv'
<1>1. /\ Requesting(s, "slot") /\ slot' = requested[s]
      /\ UNCHANGED <<value, req, list, queue, loop>>
  BY DEF SetSlot
<1>2. /\ at[s] \in 1 .. Len(Setter[s]) /\ Setter[s][at[s]] = "slot"
      /\ at'[s] = (IF at[s] = Len(Setter[s]) THEN 0 ELSE at[s] + 1) /\ requested[s] > 0
  BY <1>1, RequestingAt DEF SettingsInv
<1>3. s = "antenna" /\ at[s] = 1
  BY <1>2, SetterPlaces
<1>4. at'[s] = 2
  BY <1>2, <1>3, SetterLengths
<1>5. UNCHANGED <<requested, servers, outcome, raced>> /\ slot' \in Nat
  BY <1>1, <1>3 DEF SettingsInv, Types, Requesting
<1>6. AntennaGood'
  <2>1. Latest("antenna")' = requested["antenna"] /\ requested["antenna"] # 0
    BY <1>2, <1>3, <1>4, <1>5 DEF Latest, SettingsInv, Types
  <2> QED
    BY <1>1, <1>3, <1>4, <2>1 DEF AntennaGood
<1>7. Good(s)'
  BY <1>3, <1>6 DEF Good, Valued, Pairs, Singles, Carried
<1> QED
  BY <1>1, <1>3, <1>5, <1>7, RequestingRest DEF SettingsInv, Types

LEMMA AppendToListInv ==
  ASSUME SettingsInv, NEW s \in Settings, AppendToList(s)
  PROVE  SettingsInv'
<1>1. /\ Requesting(s, "list") /\ list' = Append(list, requested[s])
      /\ UNCHANGED <<value, req, slot, queue, loop>>
  BY DEF AppendToList
<1>2. /\ at[s] \in 1 .. Len(Setter[s]) /\ Setter[s][at[s]] = "list"
      /\ at'[s] = (IF at[s] = Len(Setter[s]) THEN 0 ELSE at[s] + 1) /\ requested[s] > 0
  BY <1>1, RequestingAt DEF SettingsInv
<1>3. s = "gain" /\ at[s] = 1
  BY <1>2, SetterPlaces
<1>4. at'[s] = 2
  BY <1>2, <1>3, SetterLengths
<1>5. UNCHANGED <<requested, servers, outcome, raced>> /\ requested[s] \in Nat /\ list \in Seq(Nat)
  BY <1>1, <1>3 DEF SettingsInv, Types, Requesting
<1>6. /\ list' \in Seq(Nat) /\ Len(list') = Len(list) + 1 /\ list'[Len(list')] = requested[s]
      /\ \A i \in 1 .. Len(list) : list'[i] = list[i]
      /\ list' # <<>> /\ DOMAIN list' = 1 .. Len(list) + 1 /\ DOMAIN list = 1 .. Len(list)
  BY <1>1, <1>5, AppendFacts
<1>7. ASSUME s \in Watched PROVE Good(s)'
  <2>1. GainGood
    BY <1>3, <1>7 DEF SettingsInv, Good
  <2>2. Latest("gain")' = requested["gain"]
    BY <1>3, <1>4, <1>5 DEF Latest
  <2>3. \A i \in DOMAIN list' : list'[i] > 0
    BY <1>2, <1>3, <1>5, <1>6, <2>1 DEF GainGood
  <2>4. Applying' <=> Applying
    BY <1>5 DEF Applying, Busy, Place, ServerOf, servers
  <2>5. GainGood'
    BY <1>3, <1>4, <1>5, <1>6, <2>1, <2>2, <2>3, <2>4 DEF GainGood, servers, outcome
  <2> QED
    BY <1>3, <2>5 DEF Good, Valued, Pairs, Singles, Carried
<1> QED
  BY <1>1, <1>3, <1>5, <1>6, <1>7, RequestingRest DEF SettingsInv, Types

LEMMA ThrottleInv ==
  ASSUME SettingsInv, NEW s \in Settings, InitThrottle(s) \/ UnlockThrottle(s)
  PROVE  SettingsInv'
<1> DEFINE access == IF InitThrottle(s) THEN "init" ELSE "unlock"
<1>1. /\ Requesting(s, "init") \/ Requesting(s, "unlock")
      /\ UNCHANGED <<value, req, slot, list, queue>>
  BY DEF InitThrottle, UnlockThrottle
<1>2. PICK a \in {"init", "unlock"} : Requesting(s, a)
  BY <1>1
<1>3. /\ at[s] \in 1 .. Len(Setter[s]) /\ Setter[s][at[s]] = a
      /\ at'[s] = (IF at[s] = Len(Setter[s]) THEN 0 ELSE at[s] + 1) /\ requested[s] > 0
  BY <1>2, RequestingAt DEF SettingsInv
<1>4. s = "throttle" /\ at[s] \in {1, 5}
  BY <1>3, SetterPlaces
<1>5. at'[s] = IF at[s] = 5 THEN 0 ELSE 2
  BY <1>3, <1>4, SetterLengths
<1>6. UNCHANGED <<requested, servers, outcome, raced>>
  BY <1>2 DEF Requesting
<1>7. ASSUME s \in Watched PROVE Good(s)'
  <2>1. Good(s)
    BY <1>7 DEF SettingsInv
  <2>2. \A n : Due(s, n)' = Due(s, n)
    BY <1>6, AskedFrame DEF Due, outcome
  <2>3. ValueKept(s)'
    BY <1>1, <1>4, <1>5, <1>6, <2>1, <2>2 DEF ValueKept, Good, Valued, Pairs
  <2>4. ASSUME s \notin raced \cap Flagged PROVE ValuedGood(s)'
    <3>1. ValuedGood(s)
      BY <1>4, <2>1, <2>4 DEF Good, Valued
    <3>2. (Coming(s)' <=> Coming(s)) /\ (Fresh(s)' <=> Fresh(s))
      BY <1>1, <1>4, <1>5 DEF Coming, Fresh, Waiting, Queued, Pairs, Singles
    <3> QED
      BY <1>1, <1>4, <1>5, <1>6, <3>1, <3>2
         DEF ValuedGood, Busy, Place, Copy, ServerOf, servers, outcome, ApplyAt, Pairs, Singles
  <2> QED
    BY <1>4, <1>6, <2>3, <2>4 DEF Good, Valued, Pairs, Singles, Carried
<1> QED
  BY <1>1, <1>2, <1>4, <1>7, RequestingRest DEF SettingsInv, Types

(***************************************************************************)
(* The queue.                                                              *)
(***************************************************************************)
Callbacks == [setting : Settings \ {"seek"}, cb_private : Nat]

LEMMA QueueAppend ==
  ASSUME queue \in Seq(Callbacks), NEW e \in Callbacks, queue' = Append(queue, e)
  PROVE  /\ queue' \in Seq(Callbacks)
         /\ \A x : Queued(x)' <=> Queued(x) \/ x = e.setting
         /\ \A x : /\ x # e.setting /\ Latest(x)' = Latest(x) /\ QueueGood(x) => QueueGood(x)'
                   /\ x = e.setting /\ Latest(x)' = e.cb_private => QueueGood(x)'
<1>1. /\ queue' \in Seq(Callbacks) /\ Len(queue') = Len(queue) + 1
      /\ queue'[Len(queue) + 1] = e
      /\ \A j \in 1 .. Len(queue) : queue'[j] = queue[j]
  BY AppendFacts
<1>2. DOMAIN queue' = 1 .. Len(queue) + 1 /\ DOMAIN queue = 1 .. Len(queue) /\ Len(queue) \in Nat
  BY <1>1, LenProperties
<1>3. ASSUME NEW x PROVE Queued(x)' <=> Queued(x) \/ x = e.setting
  <2> DEFINE n == Len(queue)
  <2> HIDE DEF n
  <2>1. /\ n \in Nat /\ DOMAIN queue' = 1 .. n + 1 /\ DOMAIN queue = 1 .. n
        /\ queue'[n + 1] = e /\ \A j \in 1 .. n : queue'[j] = queue[j]
    BY <1>1, <1>2 DEF n
  <2>2. Queued(x)' <=> \E i \in 1 .. n + 1 : queue'[i].setting = x
    BY <2>1 DEF Queued
  <2>3. Queued(x) <=> \E i \in 1 .. n : queue[i].setting = x
    BY <2>1 DEF Queued
  <2>4. Queued(x) => Queued(x)'
    BY <2>1, <2>2, <2>3
  <2>5. x = e.setting => Queued(x)'
    BY <2>1, <2>2
  <2>6. Queued(x)' => Queued(x) \/ x = e.setting
    <3> SUFFICES ASSUME NEW i \in 1 .. n + 1, queue'[i].setting = x
                 PROVE  Queued(x) \/ x = e.setting
      BY <2>2
    <3>1. CASE i = n + 1
      BY <2>1, <3>1
    <3>2. CASE i # n + 1
      BY <2>1, <2>3, <3>2
    <3> QED
      BY <3>1, <3>2
  <2> QED
    BY <2>4, <2>5, <2>6
<1>4. ASSUME NEW x, x # e.setting, Latest(x)' = Latest(x), QueueGood(x) PROVE QueueGood(x)'
  <2> SUFFICES ASSUME NEW i \in 1 .. Len(queue) + 1, queue'[i].setting = x,
                      \A j \in 1 .. Len(queue) + 1 : j > i => queue'[j].setting # x
               PROVE  queue'[i].cb_private = Latest(x)'
    BY <1>2 DEF QueueGood
  <2>1. i \in 1 .. Len(queue)
    BY <1>1, <1>2, <1>4
  <2>2. queue[i].setting = x /\ \A j \in 1 .. Len(queue) : j > i => queue[j].setting # x
    BY <1>1, <1>2, <2>1
  <2> QED
    BY <1>1, <1>2, <1>4, <2>1, <2>2 DEF QueueGood
<1>5. ASSUME NEW x, x = e.setting, Latest(x)' = e.cb_private PROVE QueueGood(x)'
  <2> SUFFICES ASSUME NEW i \in 1 .. Len(queue) + 1, queue'[i].setting = x,
                      \A j \in 1 .. Len(queue) + 1 : j > i => queue'[j].setting # x
               PROVE  queue'[i].cb_private = Latest(x)'
    BY <1>2 DEF QueueGood
  <2>1. i = Len(queue) + 1
    BY <1>1, <1>2, <1>5
  <2> QED
    BY <1>1, <1>5, <2>1
<1> QED
  BY <1>1, <1>3, <1>4, <1>5

LEMMA PushInv ==
  ASSUME SettingsInv, NEW s \in Settings, Push(s)
  PROVE  SettingsInv'
<1> DEFINE e == [setting |-> s, cb_private |-> requested[s]]
<1>1. /\ Requesting(s, "push") /\ queue' = Append(queue, e)
      /\ UNCHANGED <<value, req, slot, list, loop>>
  BY DEF Push
<1>2. /\ at[s] \in 1 .. Len(Setter[s]) /\ Setter[s][at[s]] = "push"
      /\ at'[s] = (IF at[s] = Len(Setter[s]) THEN 0 ELSE at[s] + 1) /\ requested[s] > 0
      /\ at' \in [Settings -> 0 .. 5]
      /\ \A x \in Settings : x # s => at'[x] = at[x]
      /\ \A x \in Settings : at'[x] <= Len(Setter[x]) /\ (at'[x] > 0 => requested[x] > 0)
  BY <1>1, RequestingAt DEF SettingsInv
<1>3. \/ s \in Pairs \cup {"throttle"} /\ at[s] = 4
      \/ s \in {"bw", "ppm"} /\ at[s] = 3
      \/ s \in Carried /\ at[s] = 1
      \/ s \in {"antenna", "gain"} /\ at[s] = 2
  BY <1>2, SetterPlaces
<1>4. at'[s] = IF s = "throttle" THEN 5 ELSE 0
  <2>1. CASE s \in Pairs
    <3>1. Len(Setter[s]) = 4 /\ s \notin Carried \cup {"bw", "ppm", "antenna", "gain", "throttle"}
      BY <2>1, SetterLengths DEF Carried, Pairs
    <3> QED
      BY <1>2, <1>3, <3>1
  <2>2. CASE s \in {"bw", "ppm"}
    BY <1>2, <1>3, <2>2, SetterLengths DEF Carried, Pairs
  <2>3. CASE s \in Carried
    <3>1. Len(Setter[s]) = 1 /\ s \notin Pairs \cup {"bw", "ppm", "antenna", "gain", "throttle"}
      BY <2>3, SetterLengths DEF Carried, Pairs
    <3> QED
      BY <1>2, <1>3, <3>1
  <2>4. CASE s = "throttle"
    BY <1>2, <1>3, <2>4, SetterLengths DEF Carried, Pairs
  <2>5. CASE s \in {"antenna", "gain"}
    BY <1>2, <1>3, <2>5, SetterLengths DEF Carried, Pairs
  <2> QED
    BY <1>3, <2>1, <2>2, <2>3, <2>4, <2>5
<1>5. UNCHANGED <<setup, requested, servers, outcome, raced>> /\ requested[s] \in Nat
  BY <1>1 DEF SettingsInv, Types, Requesting
<1>6. e \in Callbacks /\ e.setting = s /\ e.cb_private = requested[s] /\ s # "seek"
      /\ queue \in Seq(Callbacks)
  BY <1>3, <1>5 DEF Callbacks, Pairs, Carried, SettingsInv, Types
<1>7. /\ queue' \in Seq(Callbacks)
      /\ \A x : Queued(x)' <=> Queued(x) \/ x = s
      /\ \A x : /\ x # s /\ Latest(x)' = Latest(x) /\ QueueGood(x) => QueueGood(x)'
                /\ x = s /\ Latest(x)' = requested[s] => QueueGood(x)'
  <2> HIDE DEF e
  <2> QED
    BY <1>1, <1>6, QueueAppend
<1>8. s \in Used /\ \A x \in Watched : x \in Settings
  BY <1>2, <1>5, SlowConfAssumption DEF SettingsInv, Types, Used, Watched
<1>9. Types'
  BY <1>1, <1>2, <1>5, <1>7 DEF SettingsInv, Types, servers, outcome, Callbacks
<1>10. ASSUME NEW x \in Watched, x # s PROVE Good(x)'
  <2>1. x \in Settings /\ Good(x) /\ Latest(x)' = Latest(x)
    BY <1>2, <1>5, <1>8, <1>10 DEF SettingsInv, Latest
  <2>2. x \in Carried => QueueGood(x)'
    BY <1>7, <1>10, <2>1 DEF Good, CarriedGood
  <2>3. Frame(x)
    BY <1>1, <1>2, <1>5, <1>7, <1>8, <1>10, <2>2
       DEF Frame, servers, outcome, Busy, Place, Copy, ServerOf
  <2> QED
    BY <2>1, <2>3, GoodFrame
<1>11. ASSUME s \in Watched PROVE Good(s)'
  <2>1. Good(s) /\ Queued(s)'
    BY <1>7, <1>11 DEF SettingsInv
  <2>2. CASE s \in Valued
    <3>1. s \in Pairs \cup {"bw", "ppm", "throttle"} /\ s \notin Carried \cup {"antenna", "gain"}
      BY <1>6, <2>2 DEF Valued, Pairs, Singles, Carried
    <3>2. \A n : Due(s, n)' = Due(s, n)
      BY <1>5, AskedFrame DEF Due, outcome
    <3>3. ValueKept(s)'
      BY <1>1, <1>3, <1>4, <1>5, <2>1, <2>2, <3>1, <3>2 DEF ValueKept, Good, Pairs, Carried
    <3>4. ASSUME s \notin raced \cap Flagged PROVE ValuedGood(s)'
      <4>1. ValuedGood(s) /\ (Fresh(s) <=> FALSE) /\ (Fresh(s)' <=> FALSE)
        BY <1>3, <1>4, <2>1, <2>2, <3>1, <3>4 DEF Good, Fresh, Pairs, Singles, Carried
      <4>2. Coming(s) => Coming(s)'
        BY <1>1, <2>1, <4>1 DEF Coming, Waiting
      <4> QED
        BY <1>1, <1>4, <1>5, <4>1, <4>2
           DEF ValuedGood, Busy, Place, Copy, ServerOf, servers, outcome, ApplyAt
    <3> QED
      BY <1>5, <2>2, <3>1, <3>3, <3>4 DEF Good
  <2>3. CASE s \in Carried
    <3>1. QueueGood(s)'
      BY <1>3, <1>4, <1>5, <1>7, <2>3 DEF Latest, Carried
    <3> QED
      BY <2>1, <2>3, <3>1 DEF Good, CarriedGood, Valued, Pairs, Singles, Carried
  <2>4. CASE s = "antenna"
    <3>1. Latest(s)' = Latest(s)
      BY <1>3, <1>4, <1>5, <2>4 DEF Latest, Pairs, Carried
    <3> QED
      BY <1>1, <1>5, <2>1, <2>4, <3>1
         DEF Good, AntennaGood, Valued, Pairs, Singles, Carried, Busy, Copy, Place, ServerOf, servers,
             outcome
  <2>5. CASE s = "gain"
    <3>1. Latest(s)' = Latest(s)
      BY <1>3, <1>4, <1>5, <2>5 DEF Latest, Pairs, Carried
    <3>2. at["gain"] = 2
      BY <1>3, <2>5 DEF Pairs, Carried
    <3> QED
      BY <1>1, <1>5, <2>1, <2>5, <3>1, <3>2
         DEF Good, GainGood, Valued, Pairs, Singles, Carried, Busy, Copy, Place, ServerOf, servers,
             outcome, Applying
  <2> QED
    BY <1>3, <2>2, <2>3, <2>4, <2>5 DEF Valued, Singles
<1>12. \A x \in Settings \ Used : requested'[x] = 0 /\ ~Queued(x)'
  BY <1>5, <1>7, <1>8 DEF SettingsInv
<1> QED
  BY <1>5, <1>9, <1>10, <1>11, <1>12, CallerRest

LEMMA CallbackLengths ==
  /\ Len(Callback["freq"]) = 6
  /\ \A s \in Singles : Len(Callback[s]) = 5
  /\ Len(Callback["throttle"]) = 4 /\ Len(Callback["psd_params"]) = 5
  /\ \A s \in Carried : Len(Callback[s]) = 1
  /\ Len(Callback["antenna"]) = 2 /\ Len(Callback["gain"]) = 2
  /\ \A s \in Settings : Len(Callback[s]) \in 1 .. 6
<1>1. Len(Callback["freq"]) = 6
  BY CallbackTable
<1>2. \A s \in Singles : Len(Callback[s]) = 5
  <2> SUFFICES ASSUME NEW s \in Singles PROVE Len(Callback[s]) = 5
    OBVIOUS
  <2>1. Callback[s] = <<"test", "value", "apply", "compare", "store">>
    BY CallbackTable
  <2> QED
    BY <2>1
<1>3. Len(Callback["throttle"]) = 4
  BY CallbackTable
<1>4. Len(Callback["psd_params"]) = 5
  BY CallbackTable
<1>5. \A s \in Carried : Len(Callback[s]) = 1
  <2> SUFFICES ASSUME NEW s \in Carried PROVE Len(Callback[s]) = 1
    OBVIOUS
  <2>1. Callback[s] = <<"apply">>
    BY CallbackTable
  <2> QED
    BY <2>1
<1>6. Len(Callback["antenna"]) = 2
  BY CallbackTable
<1>7. Len(Callback["gain"]) = 2
  BY CallbackTable
<1> QED
  BY <1>1, <1>2, <1>3, <1>4, <1>5, <1>6, <1>7, SettingsAre DEF Singles, Carried

LEMMA QueueTail ==
  ASSUME queue \in Seq(Callbacks), queue # <<>>, queue' = Tail(queue), NEW e, e = Head(queue)
  PROVE  /\ queue' \in Seq(Callbacks) /\ e \in Callbacks /\ Queued(e.setting)
         /\ \A x : Queued(x) <=> Queued(x)' \/ x = e.setting
         /\ \A x : Latest(x)' = Latest(x) /\ QueueGood(x) => QueueGood(x)'
         /\ \A x : x = e.setting /\ QueueGood(x) /\ ~Queued(x)' => e.cb_private = Latest(x)
<1> DEFINE n == Len(queue)
<1>1. /\ queue' \in Seq(Callbacks) /\ Len(queue') = n - 1 /\ n > 0
      /\ \A j \in 1 .. n - 1 : queue'[j] = queue[j + 1]
  BY TailFacts
<1>2. e = queue[1] /\ e \in Callbacks
  BY HeadFacts
<1>3. DOMAIN queue' = 1 .. n - 1 /\ DOMAIN queue = 1 .. n /\ n \in Nat
  BY <1>1, LenProperties
<1> HIDE DEF n
<1>4. Queued(e.setting)
  BY <1>1, <1>2, <1>3 DEF Queued
<1>5. \A x : Queued(x)' => Queued(x)
  <2> SUFFICES ASSUME NEW x, NEW i \in 1 .. n - 1, queue'[i].setting = x PROVE Queued(x)
    BY <1>3 DEF Queued
  <2>1. i + 1 \in 1 .. n /\ queue[i + 1].setting = x
    BY <1>1, <1>3
  <2> QED
    BY <1>3, <2>1 DEF Queued
<1>6. \A x : Queued(x) => Queued(x)' \/ x = e.setting
  <2> SUFFICES ASSUME NEW x, NEW i \in 1 .. n, queue[i].setting = x
               PROVE  Queued(x)' \/ x = e.setting
    BY <1>3 DEF Queued
  <2>1. CASE i = 1
    BY <1>2, <2>1
  <2>2. CASE i # 1
    <3>1. i - 1 \in 1 .. n - 1 /\ queue'[i - 1] = queue[(i - 1) + 1] /\ (i - 1) + 1 = i
      BY <1>1, <1>3, <2>2
    <3> QED
      BY <1>3, <3>1 DEF Queued
  <2> QED
    BY <2>1, <2>2
<1>7. ASSUME NEW x, Latest(x)' = Latest(x), QueueGood(x) PROVE QueueGood(x)'
  <2> SUFFICES ASSUME NEW i \in 1 .. n - 1, queue'[i].setting = x,
                      \A j \in 1 .. n - 1 : j > i => queue'[j].setting # x
               PROVE  queue'[i].cb_private = Latest(x)'
    BY <1>3 DEF QueueGood
  <2>1. i + 1 \in 1 .. n /\ queue'[i] = queue[i + 1]
    BY <1>1, <1>3
  <2>2. ASSUME NEW j \in 1 .. n, j > i + 1 PROVE queue[j].setting # x
    <3>1. j - 1 \in 1 .. n - 1 /\ queue'[j - 1] = queue[(j - 1) + 1] /\ (j - 1) + 1 = j
          /\ j - 1 > i
      BY <1>1, <1>3, <2>2
    <3> QED
      BY <3>1
  <2> QED
    BY <1>3, <1>7, <2>1, <2>2 DEF QueueGood
<1>8. ASSUME NEW x, x = e.setting, QueueGood(x), ~Queued(x)' PROVE e.cb_private = Latest(x)
  <2>1. ASSUME NEW j \in 1 .. n, j > 1 PROVE queue[j].setting # x
    <3>1. j - 1 \in 1 .. n - 1 /\ queue'[j - 1] = queue[(j - 1) + 1] /\ (j - 1) + 1 = j
      BY <1>1, <1>3, <2>1
    <3> QED
      BY <1>3, <1>8, <3>1 DEF Queued
  <2>2. 1 \in 1 .. n
    BY <1>1, <1>3
  <2> QED
    BY <1>2, <1>3, <1>8, <2>1, <2>2 DEF QueueGood
<1> QED
  BY <1>1, <1>2, <1>4, <1>5, <1>6, <1>7, <1>8

LEMMA TakeInv ==
  ASSUME SettingsInv, Take
  PROVE  SettingsInv'
<1> SUFFICES ASSUME NEW e, e = Head(queue) PROVE SettingsInv'
  OBVIOUS
<1> DEFINE s == e.setting
           n == e.cb_private
<1>1. /\ serving["slow"] = "none" /\ queue # <<>> /\ queue' = Tail(queue)
      /\ serving' = [serving EXCEPT !["slow"] = s] /\ pc' = [pc EXCEPT !["slow"] = 1]
      /\ local' = [local EXCEPT !["slow"] = <<n, n>>]
      /\ UNCHANGED <<caller, value, req, slot, list, request_list, again, outcome, raced, loop>>
  BY DEF Take
<1>2. /\ queue' \in Seq(Callbacks) /\ e \in Callbacks /\ Queued(s)
      /\ \A x : Queued(x) <=> Queued(x)' \/ x = s
      /\ \A x : Latest(x)' = Latest(x) /\ QueueGood(x) => QueueGood(x)'
      /\ \A x : x = s /\ QueueGood(x) /\ ~Queued(x)' => n = Latest(x)
  <2>1. queue \in Seq(Callbacks)
    BY DEF SettingsInv, Types, Callbacks
  <2> QED
    BY <1>1, <2>1, QueueTail
<1>3. s \in Settings /\ s # "seek" /\ n \in Nat /\ s # "none" /\ "none" \notin Settings
  BY <1>2, SettingsAre DEF Callbacks
<1> HIDE DEF s, n
<1>4. s \in Used /\ \A x \in Watched : x \in Settings
  BY <1>2, <1>3, SlowConfAssumption DEF SettingsInv, Types, Used, Watched
<1>5. /\ serving'["slow"] = s /\ pc'["slow"] = 1 /\ local'["slow"] = <<n, n>>
      /\ serving'["source"] = serving["source"] /\ pc'["source"] = pc["source"]
      /\ local'["source"] = local["source"]
      /\ serving' \in [Workers -> Settings \cup {"none"}] /\ pc' \in [Workers -> Nat]
      /\ local' = [w \in Workers |-> local'[w]]
  BY <1>1, <1>3 DEF SettingsInv, Types, Workers
<1>6. Types'
  <2>1. \A w \in Workers : serving'[w] # "none" => pc'[w] \in 1 .. Len(Callback[serving'[w]])
    <3>1. Len(Callback[s]) \in 1 .. 6
      BY <1>3, CallbackLengths
    <3>2. pc'["slow"] \in 1 .. Len(Callback[serving'["slow"]])
      <4> DEFINE len == Len(Callback[s])
      <4>1. len \in 1 .. 6
        BY <3>1
      <4>2. Len(Callback[serving'["slow"]]) = len
        BY <1>5
      <4> HIDE DEF len
      <4>3. 1 \in 1 .. len
        BY <4>1
      <4> QED
        BY <1>5, <4>2, <4>3
    <3>3. serving'["source"] # "none" => pc'["source"] \in 1 .. Len(Callback[serving'["source"]])
      BY <1>5 DEF SettingsInv, Types, Workers
    <3> QED
      BY <3>2, <3>3 DEF Workers
  <2>2. \A w \in Workers : Pair(local'[w])
    BY <1>5 DEF SettingsInv, Types, Workers, Pair
  <2>3. serving'["source"] \in {"none", "seek"} /\ serving'["slow"] # "seek"
    BY <1>3, <1>5 DEF SettingsInv, Types
  <2> QED
    BY <1>1, <1>2, <1>5, <2>1, <2>2, <2>3 DEF SettingsInv, Types, caller, outcome, Callbacks
<1>7. /\ \A x \in Settings : x # s => (Busy(x)' <=> Busy(x))
      /\ ~Busy(s) /\ Busy(s)' /\ Place(s)' = 1 /\ Copy(s)' = Both(n)
      /\ \A x \in Settings : Latest(x)' = Latest(x)
      /\ \A x \in Settings : Busy(x) => x = "seek"
  BY <1>1, <1>3, <1>5 DEF Busy, ServerOf, Place, Copy, Both, Latest, caller
<1>8. ASSUME NEW x \in Watched, x # s PROVE Good(x)'
  <2>1. x \in Settings /\ Good(x)
    BY <1>4 DEF SettingsInv
  <2>2. x \in Carried => QueueGood(x)'
    BY <1>2, <1>7, <2>1 DEF Good, CarriedGood
  <2>3. Busy(x) => Place(x)' = Place(x) /\ Copy(x)' = Copy(x)
    BY <1>5, <1>7, <2>1 DEF Place, Copy, ServerOf
  <2>4. Frame(x)
    BY <1>1, <1>2, <1>7, <1>8, <2>1, <2>2, <2>3 DEF Frame, outcome, caller
  <2> QED
    BY <2>1, <2>4, GoodFrame
<1>9. ASSUME s \in Watched PROVE Good(s)'
  <2>1. Good(s)
    BY <1>9 DEF SettingsInv
  <2>2. CASE s \in Valued
    <3>1. s \notin Carried \cup {"antenna", "gain"}
      BY <2>2 DEF Valued, Pairs, Singles, Carried
    <3>2. \A i : Due(s, i)' = Due(s, i)
      BY <1>1, AskedFrame DEF Due, outcome
    <3>3. ValueKept(s)'
      BY <1>1, <2>1, <2>2, <3>2 DEF ValueKept, Good, caller
    <3>4. ASSUME s \notin raced \cap Flagged PROVE ValuedGood(s)'
      <4>1. ValuedGood(s) /\ (Fresh(s)' <=> Fresh(s)) /\ ApplyAt(s) >= 3
            /\ ApplyAt(s) \in Nat /\ (s \in Pairs => ApplyAt(s) > 3)
        BY <1>1, <2>1, <2>2, <3>4
           DEF Good, Fresh, caller, ApplyAt, Pairs, Singles
      <4>2. told[s] = value[s] \/ Fresh(s) \/ req[s]
        BY <1>7, <4>1 DEF ValuedGood, Coming, Waiting
      <4>3. Asked(s, requested[s])' = Asked(s, requested[s])
        BY <1>1, AskedFrame DEF outcome, caller
      <4> QED
        BY <1>1, <1>7, <4>1, <4>2, <4>3 DEF ValuedGood, caller, outcome
    <3> QED
      BY <1>1, <2>2, <3>1, <3>3, <3>4 DEF Good
  <2>3. CASE s \in Carried
    BY <1>2, <1>3, <1>7, <2>1, <2>3 DEF Good, CarriedGood, Valued, Pairs, Singles, Carried
  <2>4. CASE s = "antenna"
    BY <1>1, <1>3, <1>7, <2>1, <2>4
       DEF Good, AntennaGood, Valued, Pairs, Singles, Carried, caller, outcome
  <2>5. CASE s = "gain"
    <3>1. ~Applying /\ ~Applying'
      BY <1>7, <2>5 DEF Applying
    <3> QED
      BY <1>1, <1>2, <1>3, <1>7, <2>1, <2>5, <3>1
         DEF Good, GainGood, Valued, Pairs, Singles, Carried, caller, outcome
  <2> QED
    BY <1>3, <2>2, <2>3, <2>4, <2>5, SettingsAre DEF Valued, Pairs, Singles, Carried
<1>10. Used' = Used /\ Watched' = Watched /\ SourceShape(src)'
  BY <1>1 DEF SettingsInv, SourceShape, outcome, caller, Used, Watched
<1>11. DeviceTold' /\ InfoSent'
  <2>1. DeviceTold'
    BY <1>1 DEF SettingsInv, DeviceTold, outcome, RealTime, Hardware
  <2>2. InfoSent'
    <3>1. ~Busy("gain")
      BY <1>7, SettingsAre
    <3> QED
      BY <1>1, <3>1 DEF SettingsInv, InfoSent, outcome, RealTime, Hardware, InfoOf
  <2> QED
    BY <2>1, <2>2
<1>12. \A x \in Settings \ Used : (requested[x] = 0 /\ ~Queued(x) /\ (x # "seek" => ~Busy(x)))'
  BY <1>1, <1>2, <1>4, <1>7, <1>10 DEF SettingsInv, caller
<1> QED
  BY <1>6, <1>8, <1>9, <1>10, <1>11, <1>12 DEF SettingsInv

(***************************************************************************)
(* Where the callbacks are.                                                *)
(***************************************************************************)
AtEnd(s, i) == i = Len(Callback[s])

LEMMA CallbackPlaces ==
  ASSUME NEW s \in Settings, NEW i \in 1 .. Len(Callback[s])
  PROVE  /\ Callback[s][i] = "test" => s \in Valued /\ i = 1 /\ ~AtEnd(s, i)
         /\ Callback[s][i] = "clear" => s \in Clearing /\ i = 2 /\ ~AtEnd(s, i)
         /\ Callback[s][i] = "value" =>
              /\ ~AtEnd(s, i)
              /\ s \in Singles \cup {"throttle"} /\ i = ApplyAt(s) - 1
         /\ Callback[s][i] = "hi" => ~AtEnd(s, i) /\ s \in Pairs /\ i = ApplyAt(s) - 2
         /\ Callback[s][i] = "lo" => ~AtEnd(s, i) /\ s \in Pairs /\ i = ApplyAt(s) - 1
         /\ Callback[s][i] = "slot" => s = "antenna" /\ i = 1 /\ ~AtEnd(s, i)
         /\ Callback[s][i] = "list" => s = "gain" /\ i = 1 /\ ~AtEnd(s, i)
         /\ Callback[s][i] = "apply" =>
              \/ s \in Singles \cup {"freq"} /\ i = ApplyAt(s) /\ ~AtEnd(s, i)
              \/ s \in Clearing /\ i = ApplyAt(s) /\ AtEnd(s, i)
              \/ s \in Carried /\ i = 1 /\ AtEnd(s, i)
              \/ s \in {"antenna", "gain"} /\ i = 2 /\ AtEnd(s, i)
         /\ Callback[s][i] = "compare" =>
              ~AtEnd(s, i) /\ s \in Singles \cup {"freq"} /\ i = ApplyAt(s) + 1
         /\ Callback[s][i] = "store" =>
              AtEnd(s, i) /\ s \in Singles \cup {"freq"} /\ i = ApplyAt(s) + 2
         /\ Callback[s][i] \in {"test", "clear", "value", "hi", "lo", "slot", "list", "apply",
                                "compare", "store"}
         /\ i \in Nat /\ ApplyAt(s) \in {3, 4, 5}
<1>1. ApplyAt(s) \in {3, 4, 5}
  BY DEF ApplyAt
<1>2. CASE s = "freq"
  <2>1. Callback[s] = <<"test", "hi", "lo", "apply", "compare", "store">> /\ Len(Callback[s]) = 6
    BY <1>2, CallbackTable, CallbackLengths
  <2>2. i \in {1, 2, 3, 4, 5, 6}
    BY <2>1
  <2>3. /\ i = 1 => Callback[s][i] = "test"
        /\ i = 2 => Callback[s][i] = "hi"
        /\ i = 3 => Callback[s][i] = "lo"
        /\ i = 4 => Callback[s][i] = "apply"
        /\ i = 5 => Callback[s][i] = "compare"
        /\ i = 6 => Callback[s][i] = "store"
    BY <2>1
  <2>4. AtEnd(s, i) <=> i = 6
    BY <2>1 DEF AtEnd
  <2> QED
    BY <1>1, <1>2, <2>2, <2>3, <2>4 DEF ApplyAt, Valued, Singles, Pairs, Carried, Clearing
<1>3. CASE s \in Singles
  <2>1. Callback[s] = <<"test", "value", "apply", "compare", "store">> /\ Len(Callback[s]) = 5
    BY <1>3, CallbackTable, CallbackLengths
  <2>2. i \in {1, 2, 3, 4, 5}
    BY <2>1
  <2>3. /\ i = 1 => Callback[s][i] = "test"
        /\ i = 2 => Callback[s][i] = "value"
        /\ i = 3 => Callback[s][i] = "apply"
        /\ i = 4 => Callback[s][i] = "compare"
        /\ i = 5 => Callback[s][i] = "store"
    BY <2>1
  <2>4. AtEnd(s, i) <=> i = 5
    BY <2>1 DEF AtEnd
  <2> QED
    BY <1>1, <1>3, <2>2, <2>3, <2>4 DEF ApplyAt, Valued, Singles, Pairs, Carried, Clearing
<1>4. CASE s = "throttle"
  <2>1. Callback[s] = <<"test", "clear", "value", "apply">> /\ Len(Callback[s]) = 4
    BY <1>4, CallbackTable, CallbackLengths
  <2>2. i \in {1, 2, 3, 4}
    BY <2>1
  <2>3. /\ i = 1 => Callback[s][i] = "test"
        /\ i = 2 => Callback[s][i] = "clear"
        /\ i = 3 => Callback[s][i] = "value"
        /\ i = 4 => Callback[s][i] = "apply"
    BY <2>1
  <2>4. AtEnd(s, i) <=> i = 4
    BY <2>1 DEF AtEnd
  <2> QED
    BY <1>1, <1>4, <2>2, <2>3, <2>4 DEF ApplyAt, Valued, Singles, Pairs, Carried, Clearing
<1>5. CASE s = "psd_params"
  <2>1. Callback[s] = <<"test", "clear", "hi", "lo", "apply">> /\ Len(Callback[s]) = 5
    BY <1>5, CallbackTable, CallbackLengths
  <2>2. i \in {1, 2, 3, 4, 5}
    BY <2>1
  <2>3. /\ i = 1 => Callback[s][i] = "test"
        /\ i = 2 => Callback[s][i] = "clear"
        /\ i = 3 => Callback[s][i] = "hi"
        /\ i = 4 => Callback[s][i] = "lo"
        /\ i = 5 => Callback[s][i] = "apply"
    BY <2>1
  <2>4. AtEnd(s, i) <=> i = 5
    BY <2>1 DEF AtEnd
  <2> QED
    BY <1>1, <1>5, <2>2, <2>3, <2>4 DEF ApplyAt, Valued, Singles, Pairs, Carried, Clearing
<1>6. CASE s \in Carried
  <2>1. Callback[s] = <<"apply">> /\ Len(Callback[s]) = 1
    BY <1>6, CallbackTable, CallbackLengths
  <2>2. i \in {1}
    BY <2>1
  <2>3. /\ i = 1 => Callback[s][i] = "apply"
    BY <2>1
  <2>4. AtEnd(s, i) <=> i = 1
    BY <2>1 DEF AtEnd
  <2> QED
    BY <1>1, <1>6, <2>2, <2>3, <2>4 DEF ApplyAt, Valued, Singles, Pairs, Carried, Clearing
<1>7. CASE s = "antenna"
  <2>1. Callback[s] = <<"slot", "apply">> /\ Len(Callback[s]) = 2
    BY <1>7, CallbackTable, CallbackLengths
  <2>2. i \in {1, 2}
    BY <2>1
  <2>3. /\ i = 1 => Callback[s][i] = "slot"
        /\ i = 2 => Callback[s][i] = "apply"
    BY <2>1
  <2>4. AtEnd(s, i) <=> i = 2
    BY <2>1 DEF AtEnd
  <2> QED
    BY <1>1, <1>7, <2>2, <2>3, <2>4 DEF ApplyAt, Valued, Singles, Pairs, Carried, Clearing
<1>8. CASE s = "gain"
  <2>1. Callback[s] = <<"list", "apply">> /\ Len(Callback[s]) = 2
    BY <1>8, CallbackTable, CallbackLengths
  <2>2. i \in {1, 2}
    BY <2>1
  <2>3. /\ i = 1 => Callback[s][i] = "list"
        /\ i = 2 => Callback[s][i] = "apply"
    BY <2>1
  <2>4. AtEnd(s, i) <=> i = 2
    BY <2>1 DEF AtEnd
  <2> QED
    BY <1>1, <1>8, <2>2, <2>3, <2>4 DEF ApplyAt, Valued, Singles, Pairs, Carried, Clearing
<1> QED
  BY <1>2, <1>3, <1>4, <1>5, <1>6, <1>7, <1>8, SettingsAre DEF Singles, Carried

\* How far a worker gets with a step: to the next access, or out.
Moves(w) ==
  /\ serving' \in [Workers -> Settings \cup {"none"}] /\ pc' \in [Workers -> Nat]
  /\ \A v \in Workers \ {w} : serving'[v] = serving[v] /\ pc'[v] = pc[v]
  /\ \/ serving'[w] = "none"
     \/ serving'[w] = serving[w] /\ pc'[w] \in 1 .. Len(Callback[serving[w]])

LEMMA LeaveMoves ==
  ASSUME Types, NEW w \in Workers, Leave(w)
  PROVE  Moves(w) /\ serving'[w] = "none"
BY DEF Types, Leave, Moves

LEMMA PerformingAt ==
  ASSUME Types, NEW w \in Workers, NEW access, Performing(w, access), NEW s, s = serving[w]
  PROVE  /\ s \in Settings /\ w = ServerOf(s) /\ Busy(s) /\ pc[w] = Place(s)
         /\ pc[w] \in 1 .. Len(Callback[s]) /\ Callback[s][pc[w]] = access
         /\ UNCHANGED <<caller, queue, loop>> /\ s # "none" /\ local[w] = Copy(s)
<1>1. /\ s # "none" /\ Callback[s][pc[w]] = access /\ UNCHANGED <<caller, queue, loop>>
  BY DEF Performing
<1>2. s \in Settings /\ pc[w] \in 1 .. Len(Callback[s])
  BY <1>1 DEF Types
<1>3. w = ServerOf(s)
  BY <1>1 DEF Types, Workers, ServerOf
<1> QED
  BY <1>1, <1>2, <1>3 DEF Busy, Place, Copy

LEMMA GoOnMoves ==
  ASSUME Types, NEW w \in Workers, NEW s, s = serving[w], s # "none", GoOn(w)
  PROVE  /\ Moves(w)
         /\ AtEnd(s, pc[w]) => serving'[w] = "none"
         /\ ~AtEnd(s, pc[w]) => serving'[w] = s /\ pc'[w] = pc[w] + 1
<1> DEFINE i == pc[w]
           n == Len(Callback[s])
<1>1. s \in Settings /\ i \in 1 .. n
  BY DEF Types
<1>2. n \in 1 .. 6
  BY <1>1, CallbackLengths
<1>3. CASE i = n
  BY <1>3, LeaveMoves DEF GoOn, AtEnd
<1>4. CASE i # n
  <2>1. pc' = [pc EXCEPT ![w] = i + 1] /\ serving' = serving
    BY <1>4 DEF GoOn
  <2>2. ~AtEnd(s, i)
    BY <1>4 DEF AtEnd
  <2>3. n = Len(Callback[serving[w]])
    OBVIOUS
  <2> HIDE DEF i, n
  <2>4. i + 1 \in 1 .. n /\ i + 1 \in Nat
    BY <1>1, <1>2, <1>4
  <2>5. pc'[w] = i + 1 /\ \A v \in Workers \ {w} : pc'[v] = pc[v]
    BY <2>1, <2>4 DEF Types
  <2>6. pc' \in [Workers -> Nat]
    BY <2>1, <2>4 DEF Types
  <2>7. Moves(w)
    BY <2>1, <2>3, <2>4, <2>5, <2>6 DEF Moves, Types
  <2> QED
    BY <2>1, <2>2, <2>5, <2>7 DEF i
<1> QED
  BY <1>3, <1>4

(***************************************************************************)
(* What is left to show of a step of a worker.                             *)
(***************************************************************************)
SameRate == suscan_source_get_samp_rate(src)' = suscan_source_get_samp_rate(src)

LEMMA RateKept ==
  ASSUME SourceKept(src, src'), src'.capturing = src.capturing
  PROVE  SameRate
BY DEF SourceKept, SameRate, suscan_source_get_samp_rate

\* The types of the variables a worker changes.
ServerTypes ==
  /\ req' \in [Settings -> BOOLEAN] /\ slot' \in Nat /\ list' \in Seq(Nat)
  /\ request_list' \in Seq(Nat) /\ again' \in [Workers -> BOOLEAN]
  /\ local' = [v \in Workers |-> local'[v]] /\ \A v \in Workers : Pair(local'[v])
  /\ told' = [x \in Settings |-> told'[x]] /\ \A x \in Settings : Pair(told'[x])
  /\ refused' \subseteq Settings /\ raced' \subseteq Settings
  /\ Reported \subseteq DOMAIN info'

\* What a worker that serves s leaves to the other settings.
Aside(w, s) ==
  /\ \A x \in Settings \ {s} : req'[x] = req[x] /\ told'[x] = told[x]
  /\ \A v \in Workers \ {w} : local'[v] = local[v]
  /\ raced \subseteq raced'
  /\ s # "antenna" => slot' = slot
  /\ s # "gain" => list' = list /\ request_list' = request_list /\ ("gain" \in refused => "gain" \in refused')

LEMMA ServerRest ==
  ASSUME SettingsInv, NEW w \in Workers, NEW s \in Settings, s = serving[w], w = ServerOf(s),
         UNCHANGED <<caller, queue, value>>, Moves(w), ServerTypes, Aside(w, s),
         SourceKept(src, src'), src'.capturing = src.capturing,
         s \in Watched => Good(s)', DeviceTold', InfoSent'
  PROVE  SettingsInv'
<1>1. s # "none" /\ Busy(s) /\ \A x \in Watched : x \in Settings
  BY SettingsAre, SlowConfAssumption DEF SettingsInv, Types, Used, Watched, Busy
<1>2. /\ \A x \in Settings \ {s} : Busy(x)' <=> Busy(x)
      /\ \A x \in Settings \ {s} : Busy(x) => Place(x)' = Place(x) /\ Copy(x)' = Copy(x)
  <2> SUFFICES ASSUME NEW x \in Settings \ {s}
               PROVE  /\ Busy(x)' <=> Busy(x)
                      /\ Busy(x) => Place(x)' = Place(x) /\ Copy(x)' = Copy(x)
    OBVIOUS
  <2>1. x # "none" /\ ServerOf(x) \in Workers
    BY SettingsAre DEF ServerOf, Workers
  <2>2. CASE ServerOf(x) = w
    BY <2>1, <2>2 DEF Moves, Busy, ServerOf
  <2>3. CASE ServerOf(x) # w
    BY <2>1, <2>3 DEF Moves, Aside, Busy, Place, Copy, ServerOf
  <2> QED
    BY <2>2, <2>3
<1>3. Types'
  <2>1. \A v \in Workers : serving'[v] # "none" => pc'[v] \in 1 .. Len(Callback[serving'[v]])
    <3> SUFFICES ASSUME NEW v \in Workers, serving'[v] # "none"
                 PROVE  pc'[v] \in 1 .. Len(Callback[serving'[v]])
      OBVIOUS
    <3>1. CASE v = w
      BY <3>1 DEF Moves
    <3>2. CASE v # w
      BY <3>2 DEF Moves, SettingsInv, Types
    <3> QED
      BY <3>1, <3>2
  <2>2. serving'["source"] \in {"none", "seek"} /\ serving'["slow"] # "seek"
    BY <1>1 DEF Moves, SettingsInv, Types, Workers
  <2> QED
    BY <2>1, <2>2 DEF SettingsInv, Types, ServerTypes, Moves, caller
<1>4. ASSUME NEW x \in Watched, x # s PROVE Good(x)'
  <2>1. x \in Settings \ {s} /\ Good(x)
    BY <1>1, <1>4 DEF SettingsInv
  <2>2. Latest(x)' = Latest(x) /\ Queued(x)' = Queued(x)
    BY DEF Latest, Queued, caller
  <2>3. x \in Carried => QueueGood(x)'
    BY <2>1, <2>2 DEF Good, CarriedGood, QueueGood
  <2>4. Frame(x)
    BY <1>2, <2>1, <2>2, <2>3, RateKept DEF Frame, Aside, caller, SameRate
  <2> QED
    BY <2>1, <2>4, GoodFrame
<1>5. Used' = Used /\ Watched' = Watched /\ SourceShape(src)'
  BY DEF SettingsInv, SourceKept, caller, Used, Watched
<1>6. \A x \in Settings \ Used : (requested[x] = 0 /\ ~Queued(x) /\ (x # "seek" => ~Busy(x)))'
  <2> SUFFICES ASSUME NEW x \in Settings \ Used
               PROVE  (requested[x] = 0 /\ ~Queued(x) /\ (x # "seek" => ~Busy(x)))'
    OBVIOUS
  <2>1. requested'[x] = 0 /\ ~Queued(x)'
    BY DEF SettingsInv, Queued, caller
  <2>2. x # "seek" => x # s
    BY <1>1 DEF SettingsInv
  <2> QED
    BY <1>2, <2>1, <2>2 DEF SettingsInv
<1> QED
  BY <1>3, <1>4, <1>5, <1>6 DEF SettingsInv

\* And if it did not call the source.
LEMMA QuietRest ==
  ASSUME SettingsInv, NEW w \in Workers, NEW s \in Settings, s = serving[w], w = ServerOf(s),
         UNCHANGED <<caller, queue, value, outcome>>, Moves(w), ServerTypes, Aside(w, s),
         s \in Watched => Good(s)', s = "gain" => Busy("gain")'
  PROVE  SettingsInv'
<1>1. SourceKept(src, src') /\ src'.capturing = src.capturing
  BY DEF SettingsInv, SourceKept, SourceShape, outcome
<1>2. Busy("gain") => Busy("gain")'
  <2>1. CASE s = "gain"
    BY <2>1
  <2>2. CASE s # "gain"
    BY <2>2 DEF Moves, Busy, ServerOf, Workers
  <2> QED
    BY <2>1, <2>2
<1>3. DeviceTold' /\ InfoSent'
  <2>1. DeviceTold'
    BY DEF SettingsInv, DeviceTold, outcome, RealTime, Hardware
  <2>2. InfoSent'
    BY <1>2 DEF SettingsInv, InfoSent, outcome, RealTime, Hardware, InfoOf
  <2> QED
    BY <2>1, <2>2
<1> QED
  BY <1>1, <1>3, ServerRest

\* A setting of which nothing but the flag changes.
LEMMA ValuedStep ==
  ASSUME NEW s \in Valued, Good(s), UNCHANGED <<caller, value>>, SameRate,
         s \notin raced' \cap Flagged => ValuedGood(s)'
  PROVE  Good(s)'
<1>1. s \notin Carried \cup {"antenna", "gain"}
  BY DEF Valued, Pairs, Singles, Carried
<1>2. \A i : Due(s, i)' = Due(s, i)
  BY AskedFrame DEF Due, SameRate
<1>3. ValueKept(s)'
  BY <1>2 DEF ValueKept, Good, caller
<1> QED
  BY <1>1, <1>3 DEF Good

LEMMA TestReqInv ==
  ASSUME SettingsInv, NEW w \in Workers, TestReq(w)
  PROVE  SettingsInv'
<1> SUFFICES ASSUME NEW s, s = serving[w] PROVE SettingsInv'
  OBVIOUS
<1>1. Types /\ Performing(w, "test")
  BY DEF SettingsInv, TestReq
<1>2. /\ s \in Settings /\ w = ServerOf(s) /\ Busy(s) /\ pc[w] = Place(s)
      /\ pc[w] \in 1 .. Len(Callback[s]) /\ Callback[s][pc[w]] = "test"
      /\ UNCHANGED <<caller, queue, loop>> /\ s # "none" /\ local[w] = Copy(s)
  BY <1>1, PerformingAt
<1>3. s \in Valued /\ pc[w] = 1 /\ ~AtEnd(s, pc[w]) /\ ApplyAt(s) \in {3, 4, 5}
  BY <1>2, CallbackPlaces
<1>4. /\ UNCHANGED <<value, req, slot, list, local, request_list, again, outcome, raced>>
      /\ IF req[s] THEN GoOn(w) ELSE Leave(w)
  BY DEF TestReq
<1>5. /\ Moves(w)
      /\ req[s] => serving'[w] = s /\ pc'[w] = 2
      /\ ~req[s] => serving'[w] = "none"
  <2>1. CASE req[s]
    BY <1>1, <1>2, <1>3, <1>4, <2>1, GoOnMoves
  <2>2. CASE ~req[s]
    BY <1>1, <1>4, <2>2, LeaveMoves
  <2> QED
    BY <2>1, <2>2
<1>6. ServerTypes
  BY <1>1, <1>4 DEF ServerTypes, Types, outcome
<1>7. Aside(w, s)
  BY <1>4 DEF Aside, outcome
<1>8. ASSUME s \in Watched PROVE Good(s)'
  <2>1. Good(s) /\ SameRate
    BY <1>4, <1>8 DEF SettingsInv, SameRate, outcome
  <2>2. ASSUME s \notin raced \cap Flagged PROVE ValuedGood(s)'
    <3>1. ValuedGood(s) /\ (Fresh(s)' <=> Fresh(s)) /\ (Coming(s)' <=> Coming(s))
      BY <1>2, <1>3, <1>4, <2>1, <2>2 DEF Good, Fresh, Coming, Waiting, Queued, caller
    <3>2. told[s] = value[s] \/ Fresh(s) \/ req[s]
      BY <1>2, <1>3, <3>1 DEF ValuedGood
    <3>3. Asked(s, requested[s])' = Asked(s, requested[s])
      BY <1>2, <2>1, AskedFrame DEF SameRate, caller
    <3>4. CASE req[s]
      <4>1. Place(s)' = 2 /\ ApplyAt(s) \in Nat /\ (s \in Pairs => ApplyAt(s) > 3)
            /\ ApplyAt(s) > 2 /\ Busy(s)'
        BY <1>2, <1>3, <1>5, <3>4 DEF Place, ServerOf, ApplyAt, Pairs, Singles, Busy
      <4> QED
        BY <1>2, <1>4, <3>1, <3>2, <3>3, <4>1 DEF ValuedGood, caller, outcome
    <3>5. CASE ~req[s]
      <4>1. ~Busy(s)'
        BY <1>2, <1>5, <3>5 DEF Busy, ServerOf
      <4> QED
        BY <1>2, <1>4, <3>1, <3>2, <3>5, <3>3, <4>1 DEF ValuedGood, caller, outcome, Coming
    <3> QED
      BY <3>4, <3>5
  <2> QED
    BY <1>2, <1>3, <1>4, <2>1, <2>2, ValuedStep
<1> QED
  BY <1>2, <1>3, <1>4, <1>5, <1>6, <1>7, <1>8, QuietRest DEF Valued, Pairs, Singles

LEMMA ClearReqInv ==
  ASSUME SettingsInv, NEW w \in Workers, ClearReq(w)
  PROVE  SettingsInv'
<1> SUFFICES ASSUME NEW s, s = serving[w] PROVE SettingsInv'
  OBVIOUS
<1>1. Types /\ Performing(w, "clear")
  BY DEF SettingsInv, ClearReq
<1>2. /\ s \in Settings /\ w = ServerOf(s) /\ Busy(s) /\ pc[w] = Place(s)
      /\ pc[w] \in 1 .. Len(Callback[s]) /\ Callback[s][pc[w]] = "clear"
      /\ UNCHANGED <<caller, queue, loop>> /\ s # "none" /\ local[w] = Copy(s)
  BY <1>1, PerformingAt
<1>3. s \in Clearing /\ pc[w] = 2 /\ ~AtEnd(s, pc[w]) /\ ApplyAt(s) \in {4, 5}
  BY <1>2, CallbackPlaces DEF ApplyAt, Singles, Clearing
<1>4. /\ UNCHANGED <<value, slot, list, local, request_list, again, outcome>>
      /\ req' = [req EXCEPT ![s] = FALSE] /\ GoOn(w)
      /\ raced' = raced \cup {x \in {s} : at[x] > 0 /\ req[x] /\ value[x] # Asked(x, requested[x])}
  BY DEF ClearReq
<1>5. Moves(w) /\ serving'[w] = s /\ pc'[w] = 3
  BY <1>1, <1>2, <1>3, <1>4, GoOnMoves
<1>6. /\ req' \in [Settings -> BOOLEAN] /\ raced' \subseteq Settings /\ ~req'[s]
      /\ \A x \in Settings \ {s} : req'[x] = req[x]
  BY <1>1, <1>2, <1>4 DEF Types
<1>7. ServerTypes
  BY <1>1, <1>4, <1>6 DEF ServerTypes, Types, outcome
<1>8. Aside(w, s)
  BY <1>4, <1>6 DEF Aside, outcome
<1>9. ASSUME s \in Watched PROVE Good(s)'
  <2>1. Good(s) /\ SameRate /\ s \in Valued
    BY <1>3, <1>4, <1>9 DEF SettingsInv, SameRate, outcome, Clearing, Valued, Pairs
  <2>2. ASSUME s \notin raced' \cap Flagged PROVE ValuedGood(s)'
    <3>1. ValuedGood(s)
      BY <1>4, <2>1, <2>2 DEF Good
    <3>2. Busy(s)' /\ Place(s)' = 3
      BY <1>2, <1>5 DEF Busy, Place, ServerOf
    <3>3. /\ s \in Pairs => ApplyAt(s) = 5
          /\ ApplyAt(s) > 3
      BY <1>3 DEF ApplyAt, Pairs, Singles, Clearing
    <3>4. s = "throttle" /\ at[s] = 3 => value[s] = Asked(s, requested[s])
      BY <1>4, <2>2, <3>1 DEF ValuedGood, Flagged
    <3>5. Asked(s, requested[s])' = Asked(s, requested[s])
      BY <1>2, <2>1, AskedFrame DEF SameRate, caller
    <3> QED
      BY <1>2, <1>3, <1>4, <3>1, <3>2, <3>3, <3>4, <3>5 DEF ValuedGood, caller, Pairs, Clearing
  <2> QED
    BY <1>2, <1>4, <2>1, <2>2, ValuedStep
<1> QED
  BY <1>2, <1>3, <1>4, <1>5, <1>7, <1>8, <1>9, QuietRest DEF Clearing

LEMMA GetValueInv ==
  ASSUME SettingsInv, NEW w \in Workers, NEW access \in {"value", "hi", "lo"}, GetValue(w, access)
  PROVE  SettingsInv'
<1> SUFFICES ASSUME NEW s, s = serving[w] PROVE SettingsInv'
  OBVIOUS
<1>1. Types /\ Performing(w, access)
  BY DEF SettingsInv, GetValue
<1>2. /\ s \in Settings /\ w = ServerOf(s) /\ Busy(s) /\ pc[w] = Place(s)
      /\ pc[w] \in 1 .. Len(Callback[s]) /\ Callback[s][pc[w]] = access
      /\ UNCHANGED <<caller, queue, loop>> /\ s # "none" /\ local[w] = Copy(s)
  BY <1>1, PerformingAt
<1> DEFINE v == value[s]
           new == CASE access = "value" -> v
                    [] access = "hi" -> <<v[1], local[w][2]>>
                    [] access = "lo" -> <<local[w][1], v[2]>>
<1>3. /\ s \in Valued /\ ~AtEnd(s, pc[w]) /\ ApplyAt(s) \in {3, 4, 5}
      /\ access = "value" => s \notin Pairs /\ pc[w] = ApplyAt(s) - 1
      /\ access = "hi" => s \in Pairs /\ pc[w] = ApplyAt(s) - 2
      /\ access = "lo" => s \in Pairs /\ pc[w] = ApplyAt(s) - 1
  BY <1>2, CallbackPlaces DEF Valued, Pairs, Singles
<1>4. /\ UNCHANGED <<value, req, slot, list, request_list, again, outcome, raced>>
      /\ local' = [local EXCEPT ![w] = new] /\ GoOn(w)
  BY DEF GetValue
<1>5. Moves(w) /\ serving'[w] = s /\ pc'[w] = pc[w] + 1
  BY <1>1, <1>2, <1>3, <1>4, GoOnMoves
<1>6. Pair(v) /\ Pair(local[w]) /\ Pair(new)
  <2>1. Pair(v) /\ Pair(local[w])
    BY <1>1, <1>2 DEF Types
  <2> HIDE DEF v
  <2> QED
    BY <2>1 DEF Pair
<1>7. /\ local' = [x \in Workers |-> local'[x]] /\ local'[w] = new
      /\ \A x \in Workers \ {w} : local'[x] = local[x]
      /\ \A x \in Workers : Pair(local'[x])
  <2> HIDE DEF new
  <2> QED
    BY <1>1, <1>4, <1>6 DEF Types
<1>8. ServerTypes
  BY <1>1, <1>4, <1>7 DEF ServerTypes, Types, outcome
<1>9. Aside(w, s)
  BY <1>4, <1>7 DEF Aside, outcome
<1>10. ASSUME s \in Watched PROVE Good(s)'
  <2>1. Good(s) /\ SameRate
    BY <1>4, <1>10 DEF SettingsInv, SameRate, outcome
  <2>2. ASSUME s \notin raced' \cap Flagged PROVE ValuedGood(s)'
    <3>1. ValuedGood(s) /\ (Coming(s)' <=> Coming(s))
      BY <1>2, <1>3, <1>4, <2>1, <2>2 DEF Good, Fresh, Coming, Waiting, Queued, caller
    <3>2. Busy(s)' /\ Place(s)' = Place(s) + 1 /\ Copy(s)' = new
      BY <1>2, <1>5, <1>7 DEF Busy, Place, ServerOf, Copy
    <3>3. Asked(s, requested[s])' = Asked(s, requested[s])
      BY <1>2, <2>1, AskedFrame DEF SameRate, caller
    <3>4. /\ s \in Pairs => ApplyAt(s) \in {4, 5}
          /\ Place(s) \in {ApplyAt(s) - 1, ApplyAt(s) - 2}
      BY <1>2, <1>3 DEF ApplyAt, Pairs, Singles
    <3>5. access = "value" => Copy(s)' = value[s]
      BY <3>2
    <3>6. access = "hi" => Copy(s)'[1] = value[s][1]
      BY <3>2
    <3>7. access = "lo" => Copy(s)' = value[s] \/ Coming(s)
      <4> SUFFICES ASSUME access = "lo", ~Coming(s) PROVE Copy(s)' = value[s]
        OBVIOUS
      <4>1. Busy(s) /\ s \in Pairs /\ Place(s) = ApplyAt(s) - 1 /\ Copy(s) = local[w]
        BY <1>2, <1>3
      <4>2. Copy(s)[1] = value[s][1]
        BY <3>1, <4>1 DEF ValuedGood
      <4>3. new = <<v[1], v[2]>>
        BY <4>1, <4>2
      <4> QED
        BY <1>6, <3>2, <4>3 DEF Pair
    <3> HIDE DEF new, v
    <3>8. CASE access = "value"
      BY <1>2, <1>3, <1>4, <3>1, <3>2, <3>3, <3>4, <3>5, <3>8 DEF ValuedGood, caller
    <3>9. CASE access = "hi"
      <4>1. s \in Pairs /\ Place(s)' = ApplyAt(s) - 1 /\ ApplyAt(s) \in {4, 5} /\ s # "throttle"
        <5>1. s \in Pairs /\ s # "throttle" /\ Place(s) = ApplyAt(s) - 2 /\ ApplyAt(s) \in {4, 5}
          BY <1>2, <1>3, <3>4, <3>9 DEF Pairs
        <5>2. Place(s)' = Place(s) + 1
          BY <3>2
        <5> DEFINE k == ApplyAt(s)
        <5> HIDE DEF k
        <5>3. k \in {4, 5} /\ Place(s)' = (k - 2) + 1
          BY <5>1, <5>2 DEF k
        <5>4. Place(s)' = k - 1
          BY <5>3
        <5> QED
          BY <5>1, <5>4 DEF k
      <4>2. Copy(s)'[1] = value'[s][1]
        BY <1>4, <3>6, <3>9
      <4> QED
        BY <3>2, <4>1, <4>2 DEF ValuedGood
    <3>10. CASE access = "lo"
      BY <1>2, <1>3, <1>4, <3>1, <3>2, <3>3, <3>4, <3>7, <3>10 DEF ValuedGood, caller
    <3> QED
      BY <3>8, <3>9, <3>10
  <2> QED
    BY <1>2, <1>3, <1>4, <2>1, <2>2, ValuedStep
<1> QED
  BY <1>2, <1>3, <1>4, <1>5, <1>8, <1>9, <1>10, QuietRest DEF Valued, Pairs, Singles

LEMMA TakeSlotInv ==
  ASSUME SettingsInv, NEW w \in Workers, TakeSlot(w)
  PROVE  SettingsInv'
<1> SUFFICES ASSUME NEW s, s = serving[w] PROVE SettingsInv'
  OBVIOUS
<1>1. Types /\ Performing(w, "slot")
  BY DEF SettingsInv, TakeSlot
<1>2. /\ s \in Settings /\ w = ServerOf(s) /\ Busy(s) /\ pc[w] = Place(s)
      /\ pc[w] \in 1 .. Len(Callback[s]) /\ Callback[s][pc[w]] = "slot"
      /\ UNCHANGED <<caller, queue, loop>> /\ s # "none" /\ local[w] = Copy(s)
  BY <1>1, PerformingAt
<1>3. s = "antenna" /\ pc[w] = 1 /\ ~AtEnd(s, pc[w])
  BY <1>2, CallbackPlaces
<1>4. /\ UNCHANGED <<value, req, list, request_list, again, outcome, raced>>
      /\ local' = [local EXCEPT ![w] = <<slot, slot>>] /\ slot' = 0 /\ GoOn(w)
  BY DEF TakeSlot
<1>5. Moves(w) /\ serving'[w] = s /\ pc'[w] = 2
  BY <1>1, <1>2, <1>3, <1>4, GoOnMoves
<1>6. /\ local' = [x \in Workers |-> local'[x]] /\ local'[w] = Both(slot)
      /\ \A x \in Workers \ {w} : local'[x] = local[x]
      /\ \A x \in Workers : Pair(local'[x])
  BY <1>1, <1>4 DEF Types, Both, Pair
<1>7. ServerTypes
  BY <1>1, <1>4, <1>6 DEF ServerTypes, Types, outcome
<1>8. Aside(w, s)
  BY <1>3, <1>4, <1>6 DEF Aside, outcome
<1>9. ASSUME s \in Watched PROVE Good(s)'
  <2>1. AntennaGood
    BY <1>3, <1>9 DEF SettingsInv, Good
  <2>2. Latest("antenna")' = Latest("antenna")
    BY <1>2 DEF Latest, caller
  <2>3. Busy("antenna") /\ Place("antenna") = 1
    BY <1>2, <1>3
  <2>4. Busy("antenna")' /\ Place("antenna")' = 2 /\ Copy("antenna")' = Both(slot)
    BY <1>2, <1>3, <1>5, <1>6 DEF Busy, Place, Copy, ServerOf
  <2>5. AntennaGood'
    BY <1>4, <2>1, <2>2, <2>3, <2>4 DEF AntennaGood, outcome
  <2> QED
    BY <1>3, <2>5 DEF Good, Valued, Pairs, Singles, Carried
<1> QED
  BY <1>2, <1>3, <1>4, <1>5, <1>7, <1>8, <1>9, QuietRest

LEMMA TakeListInv ==
  ASSUME SettingsInv, NEW w \in Workers, TakeList(w)
  PROVE  SettingsInv'
<1> SUFFICES ASSUME NEW s, s = serving[w] PROVE SettingsInv'
  OBVIOUS
<1>1. Types /\ Performing(w, "list")
  BY DEF SettingsInv, TakeList
<1>2. /\ s \in Settings /\ w = ServerOf(s) /\ Busy(s) /\ pc[w] = Place(s)
      /\ pc[w] \in 1 .. Len(Callback[s]) /\ Callback[s][pc[w]] = "list"
      /\ UNCHANGED <<caller, queue, loop>> /\ s # "none" /\ local[w] = Copy(s)
  BY <1>1, PerformingAt
<1>3. s = "gain" /\ pc[w] = 1 /\ ~AtEnd(s, pc[w])
  BY <1>2, CallbackPlaces
<1>4. /\ UNCHANGED <<value, req, slot, local, again, outcome, raced>>
      /\ request_list' = list /\ list' = <<>> /\ GoOn(w)
  BY DEF TakeList
<1>5. Moves(w) /\ serving'[w] = s /\ pc'[w] = 2
  BY <1>1, <1>2, <1>3, <1>4, GoOnMoves
<1>6. ServerTypes
  BY <1>1, <1>4, EmptySeq DEF ServerTypes, Types, outcome
<1>7. Aside(w, s)
  BY <1>3, <1>4 DEF Aside, outcome
<1>8. Busy("gain")' /\ Place("gain")' = 2
  BY <1>2, <1>3, <1>5 DEF Busy, Place, ServerOf
<1>9. ASSUME s \in Watched PROVE Good(s)'
  <2>1. GainGood
    BY <1>3, <1>9 DEF SettingsInv, Good
  <2>2. Latest("gain")' = Latest("gain")
    BY <1>2 DEF Latest, caller
  <2>3. ~Applying /\ Applying' /\ Busy("gain")
    BY <1>2, <1>3, <1>8 DEF Applying
  <2>4. GainGood'
    BY <1>2, <1>4, <2>1, <2>2, <2>3, <1>8 DEF GainGood, outcome, caller
  <2> QED
    BY <1>3, <2>4 DEF Good, Valued, Pairs, Singles, Carried
<1> QED
  BY <1>2, <1>3, <1>4, <1>5, <1>6, <1>7, <1>8, <1>9, QuietRest

LEMMA CompareInv ==
  ASSUME SettingsInv, NEW w \in Workers, Compare(w)
  PROVE  SettingsInv'
<1> SUFFICES ASSUME NEW s, s = serving[w] PROVE SettingsInv'
  OBVIOUS
<1>1. Types /\ Performing(w, "compare")
  BY DEF SettingsInv, Compare
<1>2. /\ s \in Settings /\ w = ServerOf(s) /\ Busy(s) /\ pc[w] = Place(s)
      /\ pc[w] \in 1 .. Len(Callback[s]) /\ Callback[s][pc[w]] = "compare"
      /\ UNCHANGED <<caller, queue, loop>> /\ s # "none" /\ local[w] = Copy(s)
  BY <1>1, PerformingAt
<1>3. /\ s \in Singles \cup {"freq"} /\ pc[w] = ApplyAt(s) + 1 /\ ~AtEnd(s, pc[w])
      /\ ApplyAt(s) \in {3, 4, 5}
  BY <1>2, CallbackPlaces
<1>4. /\ UNCHANGED <<value, req, slot, list, local, request_list, outcome, raced>>
      /\ again' = [again EXCEPT ![w] = value[serving[w]] # local[w]] /\ GoOn(w)
  BY DEF Compare
<1>5. Moves(w) /\ serving'[w] = s /\ pc'[w] = pc[w] + 1
  BY <1>1, <1>2, <1>3, <1>4, GoOnMoves
<1>6. again' \in [Workers -> BOOLEAN]
  <2> DEFINE b == value[serving[w]] # local[w]
  <2>1. b \in BOOLEAN
    OBVIOUS
  <2> HIDE DEF b
  <2>2. again' = [again EXCEPT ![w] = b]
    BY <1>4 DEF b
  <2> QED
    BY <1>1, <2>1, <2>2 DEF Types
<1>7. ServerTypes
  BY <1>1, <1>4, <1>6 DEF ServerTypes, Types, outcome
<1>8. Aside(w, s)
  BY <1>4 DEF Aside, outcome
<1>9. ASSUME s \in Watched PROVE Good(s)'
  <2>1. Good(s) /\ SameRate /\ s \in Valued /\ s # "throttle"
    BY <1>3, <1>4, <1>9 DEF SettingsInv, SameRate, outcome, Singles, Valued, Pairs
  <2>2. ASSUME s \notin raced' \cap Flagged PROVE ValuedGood(s)'
    <3>1. ValuedGood(s) /\ (Coming(s)' <=> Coming(s))
      BY <1>2, <1>3, <1>4, <2>1, <2>2 DEF Good, Fresh, Coming, Waiting, Queued, caller
    <3>2. Busy(s)' /\ Place(s)' = Place(s) + 1 /\ Copy(s)' = Copy(s) /\ Place(s) = ApplyAt(s) + 1
      BY <1>2, <1>3, <1>4, <1>5 DEF Busy, Place, ServerOf, Copy
    <3> QED
      BY <1>2, <1>3, <1>4, <2>1, <3>1, <3>2 DEF ValuedGood, caller, outcome
  <2> QED
    BY <1>2, <1>4, <2>1, <2>2, ValuedStep
<1> QED
  BY <1>2, <1>3, <1>4, <1>5, <1>7, <1>8, <1>9, QuietRest DEF Singles

LEMMA StoreInv ==
  ASSUME SettingsInv, NEW w \in Workers, Store(w)
  PROVE  SettingsInv'
<1> SUFFICES ASSUME NEW s, s = serving[w] PROVE SettingsInv'
  OBVIOUS
<1>1. Types /\ Performing(w, "store")
  BY DEF SettingsInv, Store
<1>2. /\ s \in Settings /\ w = ServerOf(s) /\ Busy(s) /\ pc[w] = Place(s)
      /\ pc[w] \in 1 .. Len(Callback[s]) /\ Callback[s][pc[w]] = "store"
      /\ UNCHANGED <<caller, queue, loop>> /\ s # "none" /\ local[w] = Copy(s)
  BY <1>1, PerformingAt
<1>3. /\ s \in Singles \cup {"freq"} /\ pc[w] = ApplyAt(s) + 2 /\ AtEnd(s, pc[w])
      /\ ApplyAt(s) \in {3, 4, 5}
  BY <1>2, CallbackPlaces
<1>4. /\ UNCHANGED <<value, slot, list, local, request_list, again, outcome>>
      /\ req' = [req EXCEPT ![s] = again[w]] /\ GoOn(w)
      /\ raced' = raced \cup {x \in {s} : req[x] /\ ~again[w] /\ value[x] # local[w]}
  BY DEF Store
<1>5. Moves(w) /\ serving'[w] = "none"
  BY <1>1, <1>2, <1>3, <1>4, GoOnMoves
<1>6. /\ req' \in [Settings -> BOOLEAN] /\ raced' \subseteq Settings /\ req'[s] = again[w]
      /\ \A x \in Settings \ {s} : req'[x] = req[x]
  BY <1>1, <1>2, <1>4 DEF Types
<1>7. ServerTypes
  BY <1>1, <1>4, <1>6 DEF ServerTypes, Types, outcome
<1>8. Aside(w, s)
  BY <1>4, <1>6 DEF Aside, outcome
<1>9. ASSUME s \in Watched PROVE Good(s)'
  <2>1. /\ Good(s) /\ SameRate /\ s \in Valued /\ s # "throttle" /\ s \in Flagged
        /\ s \notin Clearing
    BY <1>3, <1>4, <1>9 DEF SettingsInv, SameRate, outcome, Singles, Valued, Pairs, Flagged, Clearing
  <2>2. ASSUME s \notin raced' \cap Flagged PROVE ValuedGood(s)'
    <3>1. ValuedGood(s) /\ s \notin raced /\ ~(req[s] /\ ~again[w] /\ value[s] # local[w])
      BY <1>4, <2>1, <2>2 DEF Good
    <3>2. ~Busy(s)' /\ Copy(s)' = Copy(s) /\ Place(s) = ApplyAt(s) + 2
      BY <1>2, <1>3, <1>4, <1>5 DEF Busy, Place, ServerOf, Copy
    <3>3. told[s] = Copy(s) /\ (Copy(s) = value[s] \/ Coming(s))
      BY <1>2, <1>3, <3>1, <3>2 DEF ValuedGood
    <3>4. Copy(s) # value[s] => Coming(s)'
      BY <1>2, <1>4, <1>6, <3>1, <3>3 DEF Fresh, Coming, Waiting, Queued, caller
    <3> QED
      BY <1>2, <1>4, <2>1, <3>2, <3>3, <3>4 DEF ValuedGood, outcome
  <2> QED
    BY <1>2, <1>4, <2>1, <2>2, ValuedStep
<1> QED
  BY <1>2, <1>3, <1>4, <1>5, <1>7, <1>8, <1>9, QuietRest DEF Singles

(***************************************************************************)
(* Calls to the source.                                                    *)
(***************************************************************************)
LEMMA SeekKept ==
  ASSUME SourceShape(src), NEW s \in {"seek", "throttle", "psd_params"}, NEW v,
         NEW accepts \in BOOLEAN, NEW call, call = Call(s, v, accepts)
  PROVE  /\ SourceKept(src, call.src) /\ call.src.capturing = src.capturing
         /\ call.ok \in BOOLEAN /\ call.src.sdr = src.sdr
<1>1. SourceKept(src, src)
  BY DEF SourceKept
<1>2. CASE call.src = src /\ call.ok \in BOOLEAN
  BY <1>1, <1>2
<1>3. CASE s # "seek"
  <2>1. call = Done(src)
    BY <1>3 DEF Call
  <2> QED
    BY <1>2, <2>1 DEF Done
<1>4. CASE s = "seek"
  <2>1. call = suscan_source_seek(src, v[1])
    BY <1>4 DEF Call
  <2> DEFINE moved == [src EXCEPT !.pos = v[1], !.total_samples = v[1]]
  <2>2. call = Refused(src) \/ call = Done(moved)
    BY <2>1 DEF suscan_source_seek, suscan_source_seek_file
  <2>3. SourceKept(src, moved) /\ moved.capturing = src.capturing /\ moved.sdr = src.sdr
    <3>1. DOMAIN moved = DOMAIN src /\ moved.config = src.config /\ moved.sdr = src.sdr
          /\ moved.capturing = src.capturing /\ moved.samp_rate = src.samp_rate
          /\ moved.decim = src.decim
      BY DEF SourceShape
    <3> HIDE DEF moved
    <3> QED
      BY <3>1 DEF SourceKept, SourceShape
  <2> HIDE DEF moved
  <2>4. CASE call = Refused(src)
    BY <1>2, <2>4 DEF Refused
  <2>5. CASE call = Done(moved)
    <3>1. call.src = moved /\ call.ok = TRUE
      BY <2>5 DEF Done
    <3> QED
      BY <2>3, <3>1
  <2> QED
    BY <2>2, <2>4, <2>5
<1> QED
  BY <1>3, <1>4

\* What a call does to the device, and to what is said of it.
LEMMA HardwareField ==
  ASSUME NEW s \in OfSource
  PROVE  /\ Hardware(s) = src.sdr[DeviceField(s)] /\ DeviceField(s) \in DeviceFields
         /\ Hardware(s)' = src'.sdr[DeviceField(s)]
         /\ \A x \in OfSource : DeviceField(x) = DeviceField(s) => x = s
BY DEF OfSource, Hardware, DeviceField, DeviceFields

LEMMA AppliedDevice ==
  ASSUME Types, SourceShape(src), DeviceTold, NEW s \in Settings, NEW v, Pair(v),
         NEW accepts \in BOOLEAN,
         NEW call, call = Call(s, v, accepts), Applied(s, v, call)
  PROVE  /\ SourceKept(src, src') /\ src'.capturing = src.capturing /\ DeviceTold'
         /\ told' = [x \in Settings |-> told'[x]] /\ \A x \in Settings : Pair(told'[x])
         /\ \A x \in Settings \ {s} : told'[x] = told[x] /\ (x \in refused' <=> x \in refused)
         /\ told'[s] = IF Void(s, v) THEN told[s] ELSE v
         /\ refused' \subseteq Settings /\ call.ok \in BOOLEAN
         /\ ~call.ok /\ ~Void(s, v) => s \in refused'
         /\ RealTime <=> RealTime'
         /\ RealTime =>
              /\ \A x \in OfSource \ {s} : Hardware(x)' = Hardware(x)
              /\ s \in OfSource /\ call.ok => Hardware(s)' = DeviceValue(s, v)
              /\ s \in OfSource /\ ~call.ok => Hardware(s)' = Hardware(s)
<1>1. /\ src' = call.src
      /\ told' = IF Void(s, v) THEN told ELSE [told EXCEPT ![s] = v]
      /\ refused' = CASE Void(s, v) -> refused
                      [] call.ok -> refused \ {s}
                      [] OTHER -> refused \cup {s}
  BY DEF Applied
<1>2. /\ SourceKept(src, call.src) /\ call.src.capturing = src.capturing /\ call.ok \in BOOLEAN
      /\ RealTime =>
              /\ \A x \in OfSource \ {s} : Hardware(x)' = Hardware(x)
              /\ s \in OfSource /\ call.ok => Hardware(s)' = DeviceValue(s, v)
              /\ s \in OfSource /\ ~call.ok => Hardware(s)' = Hardware(s)
      /\ Void(s, v) => ~call.ok
  <2>1. CASE s \in {"seek", "throttle", "psd_params"}
    <3>1. /\ SourceKept(src, call.src) /\ call.src.capturing = src.capturing
          /\ call.ok \in BOOLEAN /\ call.src.sdr = src.sdr
      BY <2>1, SeekKept
    <3>2. \A x \in OfSource : Hardware(x)' = Hardware(x)
      BY <1>1, <3>1, HardwareField
    <3> QED
      BY <2>1, <3>1, <3>2 DEF OfSource, Void
  <2>2. CASE s \notin {"seek", "throttle", "psd_params"}
    <3>1. /\ SourceKept(src, call.src) /\ call.src.capturing = src.capturing
          /\ call.ok \in BOOLEAN
          /\ RealTime =>
               /\ call.ok => call.src.sdr[DeviceField(s)] = DeviceValue(s, v)
               /\ \A f \in DeviceFields :
                    f # DeviceField(s) \/ ~call.ok => call.src.sdr[f] = src.sdr[f]
          /\ Void(s, v) => ~call.ok
      BY <2>2, CallKept
    <3>2. s \in OfSource
      BY <2>2, SettingsAre DEF OfSource
    <3> QED
      BY <1>1, <3>1, <3>2, HardwareField
  <2> QED
    BY <2>1, <2>2
<1>3. /\ told' = [x \in Settings |-> told'[x]] /\ \A x \in Settings : Pair(told'[x])
      /\ \A x \in Settings \ {s} : told'[x] = told[x]
      /\ told'[s] = IF Void(s, v) THEN told[s] ELSE v
  <2>1. CASE Void(s, v)
    BY <1>1, <2>1 DEF Types, Pair
  <2>2. CASE ~Void(s, v)
    BY <1>1, <2>2 DEF Types, Pair
  <2> QED
    BY <2>1, <2>2
<1>4. /\ refused' \subseteq Settings
      /\ \A x \in Settings \ {s} : x \in refused' <=> x \in refused
      /\ ~call.ok /\ ~Void(s, v) => s \in refused'
      /\ Void(s, v) => refused' = refused
  BY <1>1, <1>2 DEF Types
<1>5. RealTime <=> RealTime'
  BY <1>1, <1>2 DEF RealTime, SourceKept
<1>6. DeviceTold'
  <2> SUFFICES ASSUME RealTime, NEW x \in OfSource \ refused', told'[x] # Both(0)
               PROVE  Hardware(x)' = DeviceValue(x, told'[x])
    BY <1>5 DEF DeviceTold, Both, DeviceValue
  <2>1. x \in Settings
    BY SettingsAre DEF OfSource
  <2>2. CASE x # s
    BY <1>2, <1>3, <1>4, <2>1, <2>2 DEF DeviceTold
  <2>3. CASE x = s /\ ~Void(s, v)
    BY <1>2, <1>3, <1>4, <2>1, <2>3
  <2>4. CASE x = s /\ Void(s, v)
    BY <1>2, <1>3, <1>4, <2>1, <2>4 DEF DeviceTold
  <2> QED
    BY <2>2, <2>3, <2>4
<1> QED
  BY <1>1, <1>2, <1>3, <1>4, <1>5, <1>6

LEMMA ApplyInv ==
  ASSUME SettingsInv, NEW w \in Workers, Apply(w)
  PROVE  SettingsInv'
<1> SUFFICES ASSUME NEW s, s = serving[w] PROVE SettingsInv'
  OBVIOUS
<1>1. Types /\ Performing(w, "apply")
  BY DEF SettingsInv, Apply
<1>2. /\ s \in Settings /\ w = ServerOf(s) /\ Busy(s) /\ pc[w] = Place(s)
      /\ pc[w] \in 1 .. Len(Callback[s]) /\ Callback[s][pc[w]] = "apply"
      /\ UNCHANGED <<caller, queue, loop>> /\ s # "none" /\ local[w] = Copy(s)
  BY <1>1, PerformingAt
<1>3. /\ \/ s \in Singles \cup {"freq"} /\ pc[w] = ApplyAt(s) /\ ~AtEnd(s, pc[w])
         \/ s \in Clearing /\ pc[w] = ApplyAt(s) /\ AtEnd(s, pc[w])
         \/ s \in Carried /\ pc[w] = 1 /\ AtEnd(s, pc[w])
         \/ s = "antenna" /\ pc[w] = 2 /\ AtEnd(s, pc[w])
      /\ ApplyAt(s) \in {3, 4, 5} /\ s # "gain"
  BY <1>2, CallbackPlaces DEF Apply
<1> SUFFICES ASSUME NEW v, v = local[w] PROVE SettingsInv'
  OBVIOUS
<1>4. PICK accepts \in BOOLEAN :
        LET call == Call(s, v, accepts)
        IN /\ Applied(s, v, call)
           /\ info' = IF s \in Reported /\ (call.ok \/ s \in Unchecked)
                      THEN [info EXCEPT ![s] = InfoValue(s, v)] ELSE info
  BY DEF Apply
<1> SUFFICES ASSUME NEW call, call = Call(s, v, accepts) PROVE SettingsInv'
  OBVIOUS
<1>5. /\ Applied(s, v, call)
      /\ info' = IF s \in Reported /\ (call.ok \/ s \in Unchecked)
                 THEN [info EXCEPT ![s] = InfoValue(s, v)] ELSE info
      /\ UNCHANGED <<value, req, slot, list, local, request_list, again, raced>> /\ GoOn(w)
  BY <1>4 DEF Apply
<1>6. Pair(v) /\ SourceShape(src) /\ DeviceTold
  BY <1>1 DEF SettingsInv, Types
<1>7. /\ SourceKept(src, src') /\ src'.capturing = src.capturing /\ DeviceTold'
      /\ told' = [x \in Settings |-> told'[x]] /\ \A x \in Settings : Pair(told'[x])
      /\ \A x \in Settings \ {s} : told'[x] = told[x] /\ (x \in refused' <=> x \in refused)
      /\ told'[s] = (IF Void(s, v) THEN told[s] ELSE v)
      /\ refused' \subseteq Settings /\ call.ok \in BOOLEAN
      /\ ~call.ok /\ ~Void(s, v) => s \in refused'
      /\ RealTime <=> RealTime'
      /\ RealTime =>
           /\ \A x \in OfSource \ {s} : Hardware(x)' = Hardware(x)
           /\ s \in OfSource /\ call.ok => Hardware(s)' = DeviceValue(s, v)
           /\ s \in OfSource /\ ~call.ok => Hardware(s)' = Hardware(s)
  BY <1>1, <1>2, <1>5, <1>6, AppliedDevice
<1>8. /\ Moves(w)
      /\ AtEnd(s, pc[w]) => serving'[w] = "none"
      /\ ~AtEnd(s, pc[w]) => serving'[w] = s /\ pc'[w] = pc[w] + 1
  BY <1>1, <1>2, <1>5, GoOnMoves
<1>9. Reported \subseteq DOMAIN info' /\ \A x \in Reported \ {s} : info'[x] = info[x]
  BY <1>1, <1>5 DEF Types
<1>10. ServerTypes
  BY <1>1, <1>5, <1>7, <1>9 DEF ServerTypes, Types
<1>11. Aside(w, s)
  BY <1>3, <1>5, <1>7, SettingsAre DEF Aside
<1>12. InfoSent'
  <2> SUFFICES ASSUME PlainRadios, RealTime, NEW x \in Reported,
                      ~(x \in refused' \cap (Unchecked \cup {"gain"})), ~(x = "gain" /\ Busy("gain")')
               PROVE  Hardware(x)' = InfoOf(x)'
    BY <1>7 DEF InfoSent
  <2>1. x \in OfSource /\ x \in Settings /\ x \in DOMAIN info
    BY <1>1, SettingsAre DEF Reported, OfSource, Types
  <2>2. ~(x = "gain" /\ Busy("gain"))
    BY <1>2, <1>3, <1>8 DEF Moves, Busy, ServerOf, Workers
  <2>3. CASE x # s
    <3>1. Hardware(x) = InfoOf(x)
      BY <1>7, <2>1, <2>2, <2>3 DEF SettingsInv, InfoSent
    <3>2. InfoOf(x)' = InfoOf(x)
      BY <1>9, <2>1, <2>3 DEF InfoOf
    <3> QED
      BY <1>7, <2>1, <2>3, <3>1, <3>2
  <2>4. CASE x = s /\ call.ok
    <3>1. info'[x] = InfoValue(x, v)
      BY <1>5, <2>1, <2>4
    <3>2. InfoOf(x)' = DeviceValue(x, v)
      BY <3>1 DEF InfoOf, InfoValue, DeviceValue
    <3> QED
      BY <1>7, <2>1, <2>4, <3>2
  <2>5. CASE x = s /\ ~call.ok
    <3>1. ~Void(s, v)
      BY <2>5 DEF Void, Reported
    <3>2. s \in refused' /\ s \notin Unchecked
      BY <1>7, <2>5, <3>1
    <3>3. info' = info /\ x \notin Unchecked \cup {"gain"}
      BY <1>3, <1>5, <2>5, <3>2
    <3>4. Hardware(x) = InfoOf(x)
      BY <3>3, <2>2 DEF SettingsInv, InfoSent
    <3> QED
      BY <1>7, <2>1, <2>5, <3>3, <3>4 DEF InfoOf
  <2> QED
    BY <1>7, <2>3, <2>4, <2>5
<1>13. ASSUME s \in Watched PROVE Good(s)'
  <2>1. Good(s) /\ SameRate
    BY <1>7, <1>13, RateKept DEF SettingsInv
  <2>2. CASE s \in Valued
    <3>1. s \notin Carried \cup {"antenna"} /\ ~Void(s, v)
      BY <2>2 DEF Valued, Pairs, Singles, Carried, Void
    <3>2. ASSUME s \notin raced' \cap Flagged PROVE ValuedGood(s)'
      <4>1. ValuedGood(s) /\ (Coming(s)' <=> Coming(s))
        BY <1>2, <1>5, <2>1, <2>2, <3>2 DEF Good, Fresh, Coming, Waiting, Queued, caller
      <4>2. Place(s) = ApplyAt(s) /\ Copy(s) = v /\ Copy(s)' = v /\ told'[s] = v
        BY <1>2, <1>3, <1>5, <1>7, <3>1 DEF Copy
      <4>3. v = value[s] \/ Coming(s)
        BY <1>2, <1>3, <4>1, <4>2 DEF ValuedGood
      <4>4. Asked(s, requested[s])' = Asked(s, requested[s])
        BY <1>2, <2>1, AskedFrame DEF SameRate, caller
      <4>5. s = "throttle" /\ at'[s] = 3 => (req[s] \/ value[s] = Asked(s, requested[s]))'
        BY <1>2, <1>5, <4>1, <4>4 DEF ValuedGood, caller
      <4>6. CASE AtEnd(s, pc[w])
        <5>1. ~Busy(s)'
          BY <1>2, <1>8, <4>6 DEF Busy, ServerOf
        <5> QED
          BY <1>5, <4>1, <4>2, <4>3, <4>5, <5>1 DEF ValuedGood
      <4>7. CASE ~AtEnd(s, pc[w])
        <5>1. Busy(s)' /\ Place(s)' = ApplyAt(s) + 1
          BY <1>2, <1>8, <4>2, <4>7 DEF Busy, Place, ServerOf
        <5>2. Place(s)' # 1 /\ Place(s)' # ApplyAt(s) - 1
          BY <1>3, <5>1
        <5> QED
          BY <1>5, <4>1, <4>2, <4>3, <4>5, <5>1, <5>2 DEF ValuedGood
      <4> QED
        BY <4>6, <4>7
    <3> QED
      BY <1>2, <1>5, <2>1, <2>2, <3>2, ValuedStep
  <2>3. CASE s \in Carried
    <3>1. ~Busy(s)' /\ ~Void(s, v) /\ told'[s] = v /\ v = Copy(s)
      BY <1>2, <1>3, <1>7, <1>8, <2>3
         DEF Carried, Busy, ServerOf, Void, Singles, Clearing
    <3>2. Latest(s)' = Latest(s) /\ Queued(s)' = Queued(s)
      BY <1>2 DEF Latest, Queued, caller
    <3>3. QueueGood(s)' /\ (~Queued(s) => v = Both(Latest(s)))
      BY <1>2, <2>1, <2>3, <3>1, <3>2 DEF Good, CarriedGood, QueueGood, Both
    <3> QED
      BY <2>3, <3>1, <3>2, <3>3 DEF Good, CarriedGood, Valued, Pairs, Singles, Carried, Both
  <2>4. CASE s = "antenna"
    <3>1. Busy(s) /\ Place(s) = 2 /\ ~Busy(s)' /\ v = Copy(s)
      BY <1>2, <1>3, <1>8, <2>4 DEF Busy, ServerOf, Carried, Singles, Clearing
    <3>2. Latest(s)' = Latest(s) /\ Queued(s)' = Queued(s)
      BY <1>2 DEF Latest, Queued, caller
    <3>3. AntennaGood
      BY <2>1, <2>4 DEF Good
    <3>4. AntennaGood'
      <4> DEFINE n == Latest("antenna")
                 coming == slot = n /\ n # 0 /\ (at["antenna"] = 2 \/ Queued("antenna"))
      <4>1. coming => coming'
        BY <1>2, <1>5, <2>4, <3>2 DEF caller
      <4>2. told'["antenna"] = Both(n) \/ coming
        <5>1. CASE v = Both(n) /\ n # 0
          BY <1>7, <2>4, <5>1 DEF Void, Both
        <5>2. CASE v = Both(0) /\ told["antenna"] = Both(n)
          BY <1>7, <2>4, <5>2 DEF Void, Both
        <5> QED
          BY <2>4, <3>1, <3>3, <5>1, <5>2 DEF AntennaGood
      <4> QED
        BY <1>5, <2>4, <3>1, <3>2, <3>3, <4>1, <4>2 DEF AntennaGood, Both
    <3> QED
      BY <2>4, <3>4 DEF Good, Valued, Pairs, Singles, Carried
  <2> QED
    BY <1>3, <2>2, <2>3, <2>4 DEF Valued, Pairs, Clearing
<1> QED
  BY <1>2, <1>5, <1>7, <1>8, <1>10, <1>11, <1>12, <1>13, ServerRest

LEMMA ApplyGainInv ==
  ASSUME SettingsInv, NEW w \in Workers, ApplyGain(w)
  PROVE  SettingsInv'
<1> SUFFICES ASSUME NEW s, s = serving[w] PROVE SettingsInv'
  OBVIOUS
<1>1. Types /\ Performing(w, "apply") /\ s = "gain"
  BY DEF SettingsInv, ApplyGain
<1>2. /\ s \in Settings /\ w = ServerOf(s) /\ Busy(s) /\ pc[w] = Place(s)
      /\ pc[w] \in 1 .. Len(Callback[s]) /\ Callback[s][pc[w]] = "apply"
      /\ UNCHANGED <<caller, queue, loop>> /\ s # "none" /\ local[w] = Copy(s)
  BY <1>1, PerformingAt
<1>3. pc[w] = 2 /\ Applying /\ w = "slow"
  <2>1. pc[w] = 2
    BY <1>1, <1>2, CallbackPlaces DEF Singles, Carried, Clearing
  <2> QED
    BY <1>1, <1>2, <2>1 DEF Applying, ServerOf
<1>4. "gain" \in Watched
  BY <1>1, <1>2 DEF SettingsInv, Watched
<1>5. GainGood /\ request_list \in Seq(Nat) /\ list \in Seq(Nat)
  BY <1>1, <1>4 DEF SettingsInv, Good, Types
<1>6. UNCHANGED <<value, req, slot, list, local, again, raced>>
  BY DEF ApplyGain
<1>7. CASE request_list = <<>>
  <2>1. /\ info' = [info EXCEPT !.gain = told["gain"][1]] /\ Leave(w)
        /\ UNCHANGED <<request_list, told, src, refused>>
    BY <1>7 DEF ApplyGain
  <2>2. Moves(w) /\ serving'[w] = "none"
    BY <1>1, <2>1, LeaveMoves
  <2>3. Reported \subseteq DOMAIN info' /\ info'["gain"] = told["gain"][1]
        /\ \A x \in Reported \ {"gain"} : info'[x] = info[x]
    BY <1>1, <2>1 DEF Types, Reported
  <2>4. ServerTypes
    BY <1>1, <1>6, <2>1, <2>3 DEF ServerTypes, Types
  <2>5. Aside(w, s)
    BY <1>1, <1>6, <2>1 DEF Aside
  <2>6. SourceKept(src, src') /\ src'.capturing = src.capturing /\ DeviceTold'
    BY <2>1 DEF SettingsInv, SourceKept, SourceShape, DeviceTold, RealTime, Hardware
  <2>7. InfoSent'
    <3> SUFFICES ASSUME PlainRadios, RealTime, NEW x \in Reported,
                        ~(x \in refused \cap (Unchecked \cup {"gain"}))
                 PROVE  Hardware(x)' = InfoOf(x)'
      BY <2>1 DEF InfoSent, RealTime
    <3>1. CASE x # "gain"
      <4>1. Hardware(x) = InfoOf(x)
        BY <3>1 DEF SettingsInv, InfoSent
      <4>2. InfoOf(x)' = InfoOf(x)
        BY <2>3, <3>1 DEF InfoOf, Reported
      <4>3. Hardware(x)' = Hardware(x)
        BY <2>1 DEF Hardware
      <4> QED
        BY <4>1, <4>2, <4>3
    <3>2. CASE x = "gain"
      <4>1. told["gain"] # Both(0) /\ "gain" \in OfSource \ refused
        BY <1>3, <1>5, <1>7, <3>2 DEF GainGood, OfSource
      <4>2. Hardware("gain") = told["gain"][1]
        BY <4>1 DEF SettingsInv, DeviceTold, DeviceValue
      <4> QED
        BY <2>1, <2>3, <3>2, <4>2 DEF InfoOf, Hardware
    <3> QED
      BY <3>1, <3>2
  <2>8. GainGood'
    <3>1. ~Applying' /\ ~Busy("gain")'
      BY <1>3, <2>2 DEF Applying, Busy, ServerOf
    <3>2. Latest("gain")' = Latest("gain") /\ Queued("gain")' = Queued("gain")
      BY <1>2 DEF Latest, Queued, caller
    <3> QED
      BY <1>2, <1>3, <1>5, <1>6, <1>7, <2>1, <3>1, <3>2 DEF GainGood, Applying, caller
  <2>9. Good(s)'
    BY <1>1, <2>8 DEF Good, Valued, Pairs, Singles, Carried
  <2> QED
    BY <1>2, <1>6, <2>1, <2>2, <2>4, <2>5, <2>6, <2>7, <2>9, ServerRest
<1>8. CASE request_list # <<>>
  <2> SUFFICES ASSUME NEW first, first = Head(request_list) PROVE SettingsInv'
    OBVIOUS
  <2> SUFFICES ASSUME NEW v, v = Both(first) PROVE SettingsInv'
    OBVIOUS
  <2>1. PICK accepts \in BOOLEAN :
          LET call == Call("gain", v, accepts) IN
            /\ Applied("gain", v, call)
            /\ IF call.ok THEN request_list' = Tail(request_list) /\ UNCHANGED <<serving, pc>>
               ELSE request_list' = <<>> /\ Leave(w)
    BY <1>8 DEF ApplyGain, Both
  <2> SUFFICES ASSUME NEW call, call = Call("gain", v, accepts) PROVE SettingsInv'
    OBVIOUS
  <2>2. /\ Applied("gain", v, call) /\ info' = info
        /\ IF call.ok THEN request_list' = Tail(request_list) /\ UNCHANGED <<serving, pc>>
           ELSE request_list' = <<>> /\ Leave(w)
    BY <1>8, <2>1 DEF ApplyGain
  <2>3. /\ first = request_list[1] /\ first \in Nat /\ first > 0
        /\ Len(request_list) \in Nat /\ Len(request_list) > 0
        /\ Tail(request_list) \in Seq(Nat) /\ Len(Tail(request_list)) = Len(request_list) - 1
        /\ \A j \in 1 .. Len(request_list) - 1 : Tail(request_list)[j] = request_list[j + 1]
        /\ DOMAIN request_list = 1 .. Len(request_list)
        /\ DOMAIN Tail(request_list) = 1 .. Len(request_list) - 1
    <3>1. /\ first = request_list[1] /\ first \in Nat /\ Len(request_list) > 0
          /\ Tail(request_list) \in Seq(Nat) /\ Len(Tail(request_list)) = Len(request_list) - 1
          /\ \A j \in 1 .. Len(request_list) - 1 : Tail(request_list)[j] = request_list[j + 1]
      BY <1>5, <1>8, HeadFacts, TailFacts
    <3>2. DOMAIN request_list = 1 .. Len(request_list) /\ Len(request_list) \in Nat
      BY <1>5, LenProperties
    <3>3. DOMAIN Tail(request_list) = 1 .. Len(request_list) - 1
      BY <3>1, LenProperties
    <3>4. \A i \in DOMAIN request_list : request_list[i] > 0
      BY <1>5 DEF GainGood
    <3> QED
      BY <3>1, <3>2, <3>3, <3>4
  <2>4. Pair(v) /\ ~Void("gain", v) /\ v # Both(0)
    BY <2>3 DEF Both, Pair, Void
  <2>5. /\ SourceKept(src, src') /\ src'.capturing = src.capturing /\ DeviceTold'
        /\ told' = [x \in Settings |-> told'[x]] /\ \A x \in Settings : Pair(told'[x])
        /\ \A x \in Settings \ {"gain"} : told'[x] = told[x] /\ (x \in refused' <=> x \in refused)
        /\ told'["gain"] = v
        /\ refused' \subseteq Settings /\ call.ok \in BOOLEAN
        /\ ~call.ok => "gain" \in refused'
        /\ RealTime <=> RealTime'
        /\ RealTime => \A x \in OfSource \ {"gain"} : Hardware(x)' = Hardware(x)
    <3>1. SourceShape(src) /\ DeviceTold /\ "gain" \in Settings
      BY SettingsAre DEF SettingsInv
    <3> QED
      BY <1>1, <2>2, <2>4, <3>1, AppliedDevice
  <2>6. request_list' = (IF call.ok THEN Tail(request_list) ELSE <<>>) /\ request_list' \in Seq(Nat)
    BY <2>2, <2>3, <2>5, EmptySeq
  <2>7. Moves(w) /\ serving'[w] = (IF call.ok THEN "gain" ELSE "none")
        /\ (call.ok => pc'[w] = 2)
    <3>1. CASE call.ok
      BY <1>1, <1>2, <1>3, <2>2, <3>1 DEF Moves, Types
    <3>2. CASE ~call.ok
      BY <1>1, <2>2, <3>2, LeaveMoves
    <3> QED
      BY <3>1, <3>2
  <2>8. ServerTypes
    BY <1>1, <1>6, <2>2, <2>5, <2>6 DEF ServerTypes, Types
  <2>9. Aside(w, s)
    BY <1>1, <1>6, <2>5 DEF Aside
  <2>10. InfoSent'
    <3> SUFFICES ASSUME PlainRadios, RealTime, NEW x \in Reported,
                        ~(x \in refused' \cap (Unchecked \cup {"gain"})), ~(x = "gain" /\ Busy("gain")')
                 PROVE  Hardware(x)' = InfoOf(x)'
      BY <2>5 DEF InfoSent
    <3>1. x # "gain"
      <4>1. call.ok => Busy("gain")'
        BY <1>3, <2>7 DEF Busy, ServerOf
      <4> QED
        BY <2>5, <4>1
    <3>2. Hardware(x) = InfoOf(x) /\ x \in OfSource /\ x \in Settings
      <4>1. x \in OfSource /\ x \in Settings
        BY SettingsAre DEF Reported, OfSource
      <4> QED
        BY <2>5, <3>1, <4>1 DEF SettingsInv, InfoSent
    <3> QED
      BY <2>2, <2>5, <3>1, <3>2 DEF InfoOf
  <2>11. GainGood'
    <3> DEFINE n == Latest("gain")
    <3>1. Latest("gain")' = n /\ Queued("gain")' = Queued("gain") /\ at' = at
      BY <1>2 DEF Latest, Queued, caller
    <3>2. \A i \in DOMAIN request_list : request_list[i] > 0
      BY <1>5 DEF GainGood
    <3>3. list # <<>> => list[Len(list)] = n /\ (at["gain"] = 2 \/ Queued("gain"))
      BY <1>3, <1>5 DEF GainGood, Applying
    <3>4. list = <<>> => request_list[Len(request_list)] = n
      BY <1>3, <1>5, <1>8 DEF GainGood
    <3>5. told'["gain"] # Both(0)
      BY <2>4, <2>5
    <3>6. \A i \in DOMAIN list : list[i] > 0
      BY <1>5 DEF GainGood
    <3> HIDE DEF n
    <3>7. CASE call.ok
      <4>1. Applying' /\ Busy("gain")' /\ Place("gain")' = 2
        BY <1>3, <2>7, <3>7 DEF Applying, Busy, Place, ServerOf
      <4>2. \A i \in DOMAIN request_list' : request_list'[i] > 0
        <5> SUFFICES ASSUME NEW i \in 1 .. Len(request_list) - 1 PROVE Tail(request_list)[i] > 0
          BY <2>3, <2>6, <3>7
        <5>1. i + 1 \in DOMAIN request_list /\ Tail(request_list)[i] = request_list[i + 1]
          BY <2>3
        <5> QED
          BY <3>2, <5>1
      <4>3. request_list' # <<>> => request_list'[Len(request_list')] = request_list[Len(request_list)]
        <5> DEFINE m == Len(request_list)
        <5> HIDE DEF m
        <5>1. Len(request_list') = m - 1 /\ m \in Nat /\ m > 0
              /\ \A j \in 1 .. m - 1 : request_list'[j] = request_list[j + 1]
          BY <2>3, <2>6, <3>7 DEF m
        <5>2. request_list' # <<>> => m - 1 > 0
          BY <2>6, <5>1, EmptySeq
        <5>3. m - 1 > 0 => request_list'[m - 1] = request_list[(m - 1) + 1] /\ (m - 1) + 1 = m
          BY <5>1
        <5> QED
          BY <5>1, <5>2, <5>3 DEF m
      <4>4. request_list' = <<>> => request_list[Len(request_list)] = first
        <5> DEFINE m == Len(request_list)
        <5> HIDE DEF m
        <5>1. Len(request_list') = m - 1 /\ m \in Nat /\ m > 0
          BY <2>3, <2>6, <3>7 DEF m
        <5>2. request_list' = <<>> => m = 1
          BY <5>1, EmptySeq
        <5> QED
          BY <2>3, <5>2 DEF m
      <4> QED
        BY <1>6, <2>4, <2>5, <3>1, <3>3, <3>4, <3>5, <3>6, <4>1, <4>2, <4>3, <4>4
           DEF GainGood, n
    <3>8. CASE ~call.ok
      <4>1. ~Applying' /\ ~Busy("gain")' /\ request_list' = <<>> /\ "gain" \in refused'
        BY <1>3, <2>5, <2>6, <2>7, <3>8 DEF Applying, Busy, ServerOf
      <4> QED
        BY <1>6, <3>1, <3>3, <3>5, <3>6, <4>1 DEF GainGood, n
    <3> QED
      BY <2>5, <3>7, <3>8
  <2>12. Good(s)'
    BY <1>1, <2>11 DEF Good, Valued, Pairs, Singles, Carried
  <2> QED
    BY <1>2, <1>6, <2>5, <2>7, <2>8, <2>9, <2>10, <2>12, ServerRest
<1> QED
  BY <1>7, <1>8

(***************************************************************************)
(* The loop of the source worker, and the rest.                            *)
(***************************************************************************)
LEMMA LoopRest ==
  ASSUME SettingsInv, UNCHANGED <<caller, value, req, slot, list, queue, servers, told, info, refused, raced>>,
         SourceKept(src, src'), src'.sdr = src.sdr, 
         "throttle" \in Watched => src'.capturing = src.capturing
  PROVE  SettingsInv'
<1>1. Types'
  BY DEF SettingsInv, Types, caller, servers
<1>2. ASSUME NEW x \in Watched PROVE Good(x)'
  <2>1. x \in Settings /\ Good(x)
    BY SlowConfAssumption DEF SettingsInv, Types, Used, Watched
  <2>2. Latest(x)' = Latest(x) /\ Queued(x)' = Queued(x)
    BY DEF Latest, Queued, caller
  <2>3. x \in Carried => QueueGood(x)'
    BY <2>1, <2>2 DEF Good, CarriedGood, QueueGood
  <2>4. x = "throttle" => SameRate
    BY RateKept
  <2>5. Frame(x)
    BY <2>2, <2>3, <2>4 DEF Frame, caller, servers, SameRate, Busy, Place, Copy, ServerOf
  <2> QED
    BY <2>1, <2>5, GoodFrame
<1>3. Used' = Used /\ Watched' = Watched /\ SourceShape(src)'
  BY DEF SettingsInv, SourceKept, caller, Used, Watched
<1>4. \A x \in Settings \ Used : (requested[x] = 0 /\ ~Queued(x) /\ (x # "seek" => ~Busy(x)))'
  BY DEF SettingsInv, Queued, Busy, ServerOf, caller, servers
<1>5. RealTime' <=> RealTime
  BY DEF RealTime, SourceKept
<1>6. \A s : Hardware(s)' = Hardware(s)
  BY DEF Hardware
<1>7. DeviceTold' /\ InfoSent'
  BY <1>5, <1>6 DEF SettingsInv, DeviceTold, InfoSent, InfoOf, Busy, ServerOf, servers
<1> QED
  BY <1>1, <1>2, <1>3, <1>4, <1>7 DEF SettingsInv

LEMMA SeekBegins ==
  ASSUME SettingsInv, parse_overridable
  PROVE  SettingsInv'
<1>1. /\ serving["source"] = "none"
      /\ serving' = [serving EXCEPT !["source"] = "seek"] /\ pc' = [pc EXCEPT !["source"] = 1]
      /\ UNCHANGED <<caller, value, req, slot, list, queue, told, info, refused, raced,
                     local, request_list, again, src>>
  BY DEF parse_overridable, Looping
<1>2. /\ serving'["source"] = "seek" /\ pc'["source"] = 1
      /\ serving'["slow"] = serving["slow"] /\ pc'["slow"] = pc["slow"]
      /\ serving' \in [Workers -> Settings \cup {"none"}] /\ pc' \in [Workers -> Nat]
  BY <1>1, SettingsAre DEF SettingsInv, Types, Workers
<1>3. Types'
  <2>1. Len(Callback["seek"]) = 5
    BY CallbackLengths DEF Singles
  <2>2. \A w \in Workers : serving'[w] # "none" => pc'[w] \in 1 .. Len(Callback[serving'[w]])
    <3>1. pc'["source"] \in 1 .. Len(Callback[serving'["source"]])
      BY <1>2, <2>1
    <3>2. serving'["slow"] # "none" => pc'["slow"] \in 1 .. Len(Callback[serving'["slow"]])
      BY <1>2 DEF SettingsInv, Types, Workers
    <3> QED
      BY <3>1, <3>2 DEF Workers
  <2> QED
    BY <1>1, <1>2, <2>2 DEF SettingsInv, Types, caller
<1>4. /\ \A x \in Settings \ {"seek"} : Busy(x)' <=> Busy(x)
      /\ \A x \in Settings \ {"seek"} : Place(x)' = Place(x) /\ Copy(x)' = Copy(x)
      /\ ~Busy("seek") /\ Busy("seek")' /\ Place("seek")' = 1
      /\ SameRate
  BY <1>1, <1>2 DEF Busy, Place, Copy, ServerOf, SameRate
<1>5. ASSUME NEW x \in Watched PROVE Good(x)'
  <2>1. x \in Settings /\ Good(x)
    BY SlowConfAssumption DEF SettingsInv, Types, Used, Watched
  <2>2. CASE x # "seek"
    <3>1. Latest(x)' = Latest(x) /\ Queued(x)' = Queued(x)
      BY <1>1 DEF Latest, Queued, caller
    <3>2. x \in Carried => QueueGood(x)'
      BY <1>1, <2>1, <3>1 DEF Good, CarriedGood, QueueGood
    <3>3. Frame(x)
      BY <1>1, <1>4, <2>1, <2>2, <3>1, <3>2 DEF Frame, caller, SameRate
    <3> QED
      BY <2>1, <3>3, GoodFrame
  <2>3. CASE x = "seek"
    <3>1. ASSUME "seek" \notin raced' \cap Flagged PROVE ValuedGood("seek")'
      <4>1. ValuedGood("seek") /\ (Fresh("seek")' <=> Fresh("seek"))
        BY <1>1, <2>1, <2>3, <3>1 DEF Good, Fresh, caller, Valued, Singles
      <4>2. told["seek"] = value["seek"] \/ Fresh("seek") \/ req["seek"]
        BY <1>4, <4>1 DEF ValuedGood, Coming, Waiting
      <4> QED
        BY <1>1, <1>4, <4>1, <4>2 DEF ValuedGood, ApplyAt, Singles, Pairs
    <3> QED
      BY <1>1, <1>4, <2>1, <2>3, <3>1, ValuedStep DEF Valued, Singles
  <2> QED
    BY <2>2, <2>3
<1>6. Used' = Used /\ Watched' = Watched /\ SourceShape(src)'
  BY <1>1 DEF SettingsInv, SourceShape, caller, Used, Watched
<1>7. \A x \in Settings \ Used : (requested[x] = 0 /\ ~Queued(x) /\ (x # "seek" => ~Busy(x)))'
  BY <1>1, <1>4, <1>6 DEF SettingsInv, Queued, caller
<1>8. DeviceTold' /\ InfoSent'
  BY <1>1, <1>4, SettingsAre DEF SettingsInv, DeviceTold, InfoSent, RealTime, Hardware, InfoOf
<1> QED
  BY <1>3, <1>5, <1>6, <1>7, <1>8 DEF SettingsInv

LEMMA NextSettings ==
  ASSUME SettingsInv, [HotNext]_hot_vars
  PROVE  SettingsInv'
<1>1. CASE \E s \in Settings : Caller(s)
  <2>1. PICK s \in Settings : Caller(s)
    BY <1>1
  <2>2. CASE \E access \in {"value", "hi", "lo"} : SetValue(s, access)
    BY <2>2, SetValueInv
  <2> QED
    BY <2>1, <2>2, RequestInv, SetReqInv, SetSlotInv, AppendToListInv, PushInv, ThrottleInv
       DEF Caller
<1>2. CASE Take
  BY <1>2, TakeInv
<1>3. CASE \E w \in Workers : Server(w)
  <2>1. PICK w \in Workers : Server(w)
    BY <1>3
  <2>2. CASE \E access \in {"value", "hi", "lo"} : GetValue(w, access)
    BY <2>2, GetValueInv
  <2> QED
    BY <2>1, <2>2, TestReqInv, ClearReqInv, TakeSlotInv, TakeListInv, ApplyInv, ApplyGainInv,
       CompareInv, StoreInv DEF Server
<1>4. SourceShape(src)
  BY DEF SettingsInv
<1>5. CASE channel_wk_cb
  <2>1. CASE parse_overridable
    BY <2>1, SeekBegins
  <2>2. CASE Read
    <3>1. /\ UNCHANGED <<caller, value, req, slot, list, queue, servers, told, info, refused, raced>>
          /\ \E answer \in setup.answers :
               src' = suscan_source_read(src, reader.portion, answer).src
      BY <2>2 DEF Read, Looping
    <3>2. SourceKept(src, src') /\ src'.sdr = src.sdr /\ src'.capturing = src.capturing
      BY <1>4, <3>1, ReadKept
    <3> QED
      BY <3>1, <3>2, LoopRest
  <2>3. CASE GetPortion \/ Wake \/ Advance
    <3>1. UNCHANGED <<caller, value, req, slot, list, queue, servers, told, info, refused, raced, src>>
      <4>1. CASE GetPortion
        BY <4>1 DEF GetPortion, Looping
      <4>2. CASE Wake
        BY <4>2 DEF Wake, Looping
      <4>3. CASE Advance
        BY <4>3 DEF Advance, Looping
      <4> QED
        BY <2>3, <4>1, <4>2, <4>3
    <3>2. SourceKept(src, src')
      BY <1>4, <3>1 DEF SourceKept
    <3> QED
      BY <3>1, <3>2, LoopRest
  <2> QED
    BY <1>5, <2>1, <2>2, <2>3 DEF channel_wk_cb
<1>6. CASE ForceEos
  <2>1. /\ UNCHANGED <<caller, value, req, slot, list, queue, servers, told, info, refused, raced>>
        /\ src' = [src EXCEPT !.force_eos = TRUE]
    BY <1>6 DEF ForceEos
  <2>2. SourceKept(src, src') /\ src'.sdr = src.sdr /\ src'.capturing = src.capturing
    BY <1>4, <2>1 DEF SourceKept, SourceShape
  <2> QED
    BY <2>1, <2>2, LoopRest
<1>7. CASE StopCapture
  <2>1. /\ UNCHANGED <<caller, value, req, slot, list, queue, servers, told, info, refused, raced>>
        /\ setup.force
        /\ \E accepts \in BOOLEAN : src' = suscan_source_stop_capture(src, accepts).src
    BY <1>7 DEF StopCapture
  <2>2. src' = src \/ src' = [src EXCEPT !.capturing = FALSE]
    BY <2>1 DEF suscan_source_stop_capture, Done, Refused
  <2>3. SourceKept(src, src') /\ src'.sdr = src.sdr
    BY <1>4, <2>2 DEF SourceKept, SourceShape
  <2>4. "throttle" \notin Watched
    BY <2>1 DEF Steady, SettingsInv, Types, Used, Watched
  <2> QED
    BY <2>1, <2>3, <2>4, LoopRest
<1>8. CASE Tick \/ UNCHANGED hot_vars
  <2>1. UNCHANGED <<caller, value, req, slot, list, queue, servers, told, info, refused, raced, src>>
    <3>1. CASE Tick
      BY <3>1 DEF Tick, outcome
    <3>2. CASE UNCHANGED hot_vars
      BY <3>2 DEF hot_vars, caller, servers
    <3> QED
      BY <1>8, <3>1, <3>2
  <2>2. SourceKept(src, src')
    BY <1>4, <2>1 DEF SourceKept
  <2> QED
    BY <2>1, <2>2, LoopRest
<1> QED
  BY <1>1, <1>2, <1>3, <1>5, <1>6, <1>7, <1>8 DEF HotNext

LEMMA QuietSettings ==
  ASSUME SettingsInv, NEW s \in Watched, Quiet(s)
  PROVE  /\ s \in Settings /\ Good(s) /\ at[s] = 0 /\ ~Queued(s) /\ ~Busy(s)
         /\ Latest(s) = requested[s] /\ (s \in Valued => ~Coming(s))
<1>1. s \in Settings /\ Good(s)
  BY SlowConfAssumption DEF SettingsInv, Types, Used, Watched
<1>2. at[s] = 0 /\ ~Queued(s) /\ ~Busy(s) /\ (s = "seek" => ~req[s])
  BY DEF Quiet, Queued, Busy, ServerOf, Workers
<1>3. ~Coming(s)
  BY <1>2 DEF Coming, Fresh, Waiting
<1> QED
  BY <1>1, <1>2, <1>3 DEF Latest

LEMMA LastIsApplied ==
  ASSUME SettingsInv, Steady
  PROVE  LastRequestApplied
<1> SUFFICES ASSUME NEW s \in Used, Quiet(s), requested[s] > 0, s \notin raced \cap Flagged,
                    s = "gain" => s \notin refused
             PROVE  /\ told[s] = Asked(s, requested[s])
                    /\ s \in OfSource \ refused /\ RealTime => Hardware(s) = requested[s]
  BY DEF LastRequestApplied
<1> DEFINE n == requested[s]
<1>1. /\ s \in Settings /\ Good(s) /\ at[s] = 0 /\ ~Queued(s) /\ ~Busy(s)
      /\ Latest(s) = n /\ (s \in Valued => ~Coming(s))
  BY QuietSettings DEF Watched
<1>2. n \in Nat /\ n > 0
  BY <1>1 DEF SettingsInv, Types
<1>3. s \notin {"freq", "psd_params", "throttle"} => Asked(s, n) = Both(n)
  BY DEF Asked, Both
<1>4. told[s] = Asked(s, n)
  <2>1. CASE s \in Valued
    <3>1. value[s] = Asked(s, n)
      BY <1>1, <1>2, <2>1 DEF Good, ValueKept, Due
    <3>2. told[s] = value[s]
      BY <1>1, <2>1 DEF Good, ValuedGood
    <3> QED
      BY <3>1, <3>2
  <2>2. CASE s \in Carried
    BY <1>1, <1>3, <2>2 DEF Good, CarriedGood, Carried
  <2>3. CASE s = "antenna"
    BY <1>1, <1>3, <2>3 DEF Good, AntennaGood
  <2>4. CASE s = "gain"
    BY <1>1, <1>3, <2>4 DEF Good, GainGood, Applying
  <2> QED
    BY <1>1, <2>1, <2>2, <2>3, <2>4, SettingsAre DEF Valued, Pairs, Singles, Carried
<1>5. ASSUME s \in OfSource \ refused, RealTime PROVE Hardware(s) = n
  <2> HIDE DEF n
  <2>1. CASE s = "freq"
    <3>1. told[s] = <<2 * n, n>>
      BY <1>4, <2>1 DEF Asked
    <3>2. told[s] # Both(0) /\ DeviceValue(s, told[s]) = n
      BY <1>2, <2>1, <3>1 DEF Both, DeviceValue
    <3> QED
      BY <1>5, <3>2 DEF SettingsInv, DeviceTold
  <2>2. CASE s # "freq"
    <3>1. told[s] = Both(n)
      BY <1>3, <1>4, <1>5, <2>2 DEF OfSource
    <3>2. told[s] # Both(0) /\ DeviceValue(s, told[s]) = n
      BY <1>2, <2>2, <3>1 DEF Both, DeviceValue
    <3> QED
      BY <1>5, <3>2 DEF SettingsInv, DeviceTold
  <2> QED
    BY <2>1, <2>2
<1> QED
  BY <1>4, <1>5

LEMMA InfoTells ==
  ASSUME SettingsInv, PlainRadios
  PROVE  InfoIsCurrent
<1> SUFFICES ASSUME RealTime, NEW s \in Used \cap Reported, Quiet(s),
                    ~(s \in refused \cap (Unchecked \cup {"gain"}))
             PROVE  Hardware(s) = InfoOf(s)
  BY DEF InfoIsCurrent, InfoOf
<1>1. ~Busy(s)
  BY DEF Quiet, Busy, ServerOf, Workers
<1> QED
  BY <1>1 DEF SettingsInv, InfoSent

(***************************************************************************)
(* Whatever is requested, with any interleaving of the threads that        *)
(* request and the two that serve (slow.c): a setting that is quiet has    *)
(* what was last asked for, in its value and, unless the device refused    *)
(* it, in the device; a flagged one that lost a race in which the code     *)
(* clears the flag is excepted, and a gain after a refused one.            *)
(***************************************************************************)
THEOREM RequestsAreApplied ==
  ASSUME Steady
  PROVE  HotSpec => []LastRequestApplied
<1>1. HotInit => SettingsInv
  BY InitSettings
<1>2. SettingsInv /\ [HotNext]_hot_vars => SettingsInv'
  BY NextSettings
<1>3. SettingsInv => LastRequestApplied
  BY LastIsApplied
<1> QED
  BY <1>1, <1>2, <1>3, PTL DEF HotSpec

(***************************************************************************)
(* When a setting of a radio is quiet, what the callbacks (slow.c) have    *)
(* sent to the client is what the device has, also if the device refused   *)
(* it: the source info is changed only by what the source accepted.        *)
(***************************************************************************)
THEOREM InfoFollows ==
  ASSUME PlainRadios
  PROVE  HotSpec => []InfoIsCurrent
<1>1. HotInit => SettingsInv
  BY InitSettings
<1>2. SettingsInv /\ [HotNext]_hot_vars => SettingsInv'
  BY NextSettings
<1>3. SettingsInv => InfoIsCurrent
  BY InfoTells
<1> QED
  BY <1>1, <1>2, <1>3, PTL DEF HotSpec

=============================================================================
