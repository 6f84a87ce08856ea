----------------------------- MODULE InspServer -----------------------------
(***************************************************************************)
(* The inspector server (analyzer/insp-server.c): what the analyzer thread *)
(* does with an inspector message, as operators on                         *)
(*   srv == [insp, table, requests, sent]                                  *)
(* - the inspectors (analyzer/inspector/inspector.h) by number, in the     *)
(* order they were opened; insp_hash, from handles to inspectors; what     *)
(* insp_reqmgr holds for the source worker; and the inspector messages     *)
(* written to the program - and on the message                             *)
(*   msg == [kind, req_id, handle, inspector_id, args].                    *)
(* A callback gives what becomes of both, and whether it succeeded.  When  *)
(* an object is freed is in InspLife.tla.                                  *)
(***************************************************************************)
EXTENDS Integers, FiniteSets, SequencesExt

CONSTANTS
  Classes,    \* inspector classes: [subcarriers, estimators, spectsrcs]
  Handles,    \* handles that rand() may give
  have_qth,   \* a receiver position is configured
  SAMPLER_BUF_SIZE

ASSUME InspServerAssumption ==
  Handles \subseteq Nat /\ SAMPLER_BUF_SIZE \in Nat /\ have_qth \in BOOLEAN

None == 0
NoHandle == -1

NoInspectors == [insp |-> <<>>, table |-> [h \in Handles |-> None], requests |-> {}, sent |-> <<>>]

Message(kind, req_id, handle, id, args) ==
  [kind |-> kind, req_id |-> req_id, handle |-> handle, inspector_id |-> id, args |-> args]

\* A request (AnalyzerClient.tla) as it is received.
Received(request) == request @@ [inspector_id |-> 0]

Served(srv, msg) == [srv |-> srv, msg |-> msg, ok |-> TRUE]
Refused(srv, msg, kind) == Served(srv, [msg EXCEPT !.kind = kind])
Failed(srv, msg) == [srv |-> srv, msg |-> msg, ok |-> FALSE]

\* suscan_mq_write to the program.
Output(srv, msg) == [srv EXCEPT !.sent = Append(@, msg)]

----------------------------------------------------------------------------
(***************************************************************************)
(* The handle list.                                                        *)
(***************************************************************************)
suscan_local_analyzer_acquire_inspector(srv, handle) ==
  IF handle \in Handles THEN srv.table[handle] ELSE None

\* A handle is drawn until it is one that is not in use.
FreeHandles(srv) == {h \in Handles : srv.table[h] = None}

suscan_local_analyzer_register_inspector(srv, n, handle) ==
  [srv EXCEPT !.table[handle] = n, !.insp[n].handle = handle]

suscan_inspector_factory_halt_inspector(insp) ==
  [insp EXCEPT !.state = IF @ = "running" THEN "halting" ELSE @]

suscan_local_analyzer_insp_from_msg(srv, msg, serve(_, _)) ==
  LET n == suscan_local_analyzer_acquire_inspector(srv, msg.handle)
  IN IF n = None THEN Refused(srv, msg, "WRONG_HANDLE")
     ELSE serve(n, [msg EXCEPT !.inspector_id = srv.insp[n].inspector_id])

----------------------------------------------------------------------------
(***************************************************************************)
(* OPEN.  The message names the parent of a subcarrier inspector.          *)
(***************************************************************************)

\* suscan_inspector_new and suscan_inspector_factory_open, which first
\* forgets the inspectors of the factory that have halted.
suscan_inspector_factory_open(srv, parent, class) ==
  [srv EXCEPT !.insp = Append(
     [m \in DOMAIN srv.insp |->
        IF srv.insp[m].parent = parent /\ srv.insp[m].state = "halted"
        THEN [srv.insp[m] EXCEPT !.listed = FALSE] ELSE srv.insp[m]],
     [state |-> "running", parent |-> parent, listed |-> TRUE, class |-> class,
      handle |-> NoHandle, inspector_id |-> 0, estimators |-> {}, spectsrc_index |-> 0,
      config |-> "default", corrector |-> FALSE, watermark |-> 0])]

suscan_inspector_get_config(srv, n) == srv.insp[n].config

\* handle is the one that rand() gives.  The bands of the channel, which
\* the message tells too, are left out.
cb_OPEN(srv, msg, handle) ==
  LET parent == suscan_local_analyzer_acquire_inspector(srv, msg.handle)
      n == Len(srv.insp) + 1
      opened == suscan_local_analyzer_register_inspector(
                  suscan_inspector_factory_open(srv, parent, msg.args.class_name), n, handle)
  IN CASE msg.handle # NoHandle /\ parent = None -> Refused(srv, msg, "WRONG_HANDLE")
       [] parent # None /\ ~Classes[srv.insp[parent].class].subcarriers ->
            Refused(srv, msg, "INVALID_ARGUMENT")
       [] (parent # None => Classes[srv.insp[parent].class].subcarriers)
          /\ msg.args.channel = "invalid" -> Refused(srv, msg, "INVALID_CHANNEL")
       [] OTHER ->
            Served(opened, [msg EXCEPT !.handle = handle,
                                       !.args = [config |->
                                                   suscan_inspector_get_config(opened, n)]])

----------------------------------------------------------------------------
(***************************************************************************)
(* Settings.                                                               *)
(***************************************************************************)
cb_NOOP(srv, msg) == Served(srv, msg)

cb_SET_ID(srv, msg) ==
  LET n == suscan_local_analyzer_acquire_inspector(srv, msg.handle)
  IN IF n = None THEN Refused(srv, msg, "WRONG_HANDLE")
     ELSE Served([srv EXCEPT !.insp[n].inspector_id = msg.args.inspector_id],
              [msg EXCEPT !.inspector_id = msg.args.inspector_id])

cb_ESTIMATOR(srv, msg) ==
  suscan_local_analyzer_insp_from_msg(srv, msg, LAMBDA n, m :
    IF m.args.estimator_id < Classes[srv.insp[n].class].estimators
    THEN Served([srv EXCEPT !.insp[n].estimators =
                   {e \in @ : e # m.args.estimator_id}
                     \cup {e \in {m.args.estimator_id} : m.args.enabled}], m)
    ELSE Refused(srv, m, "WRONG_OBJECT"))

\* 0 is no spectrum.
cb_SPECTRUM(srv, msg) ==
  suscan_local_analyzer_insp_from_msg(srv, msg, LAMBDA n, m :
    IF m.args.spectsrc_id <= Classes[srv.insp[n].class].spectsrcs
    THEN Served([srv EXCEPT !.insp[n].spectsrc_index = m.args.spectsrc_id], m)
    ELSE Refused(srv, m, "WRONG_OBJECT"))

\* The callbacks of the configuration fail when the handle is wrong.
cb_GET_CONFIG(srv, msg) ==
  LET answer(n, m) ==
        Served(srv, [m EXCEPT !.kind = "SET_CONFIG",
                              !.args = [config |-> suscan_inspector_get_config(srv, n)]])
      served == suscan_local_analyzer_insp_from_msg(srv, msg, answer)
  IN IF served.msg.kind = "WRONG_HANDLE" THEN Failed(srv, served.msg) ELSE served

\* suscan_inspector_set_config: a configuration may be refused.
cb_SET_CONFIG(srv, msg) ==
  LET apply(n, m) ==
        IF m.args.config = "refused" THEN Failed(srv, m)
        ELSE Served([srv EXCEPT !.insp[n].config = m.args.config], m)
      served == suscan_local_analyzer_insp_from_msg(srv, msg, apply)
  IN IF served.msg.kind = "WRONG_HANDLE" THEN Failed(srv, served.msg) ELSE served

cb_SET_TLE(srv, msg) ==
  suscan_local_analyzer_insp_from_msg(srv, msg, LAMBDA n, m :
    IF m.args.tle_enable /\ ~have_qth THEN Refused(srv, m, "INVALID_CORRECTION")
    ELSE Served([srv EXCEPT !.insp[n].corrector = m.args.tle_enable], m))

\* The equalizer of the demodulator is outside this model.
cb_RESET_EQUALIZER(srv, msg) ==
  suscan_local_analyzer_insp_from_msg(srv, msg, LAMBDA n, m : Served(srv, m))

cb_SET_WATERMARK(srv, msg) ==
  suscan_local_analyzer_insp_from_msg(srv, msg, LAMBDA n, m :
    IF m.args.watermark > SAMPLER_BUF_SIZE THEN Refused(srv, m, "INVALID_ARGUMENT")
    ELSE Served([srv EXCEPT !.insp[n].watermark = m.args.watermark], m))

\* Mutant: the inspector may have been halted.
SubmitAnyway(srv, n, field, value) ==
  [srv EXCEPT !.requests = {r \in @ : ~(r.insp = n /\ r.field = field)}
                             \cup {[insp |-> n, field |-> field, value |-> value]}]

\* suscan_inspector_request_manager_acquire_overridable and
\* submit_overridable, for the source worker to commit (InspLife.tla).  There
\* is no request of an inspector that does not run, and nobody is told.
Submit(srv, n, field, value) ==
  IF srv.insp[n].state # "running" THEN srv
  ELSE [srv EXCEPT !.requests = {r \in @ : ~(r.insp = n /\ r.field = field)}
                                  \cup {[insp |-> n, field |-> field, value |-> value]}]

\* Relative to the centre of the channel's parent.
cb_SET_FREQ(srv, msg) ==
  suscan_local_analyzer_insp_from_msg(srv, msg, LAMBDA n, m :
    Served(Submit(srv, n, "freq", m.args.fc - m.args.ft), m))

cb_SET_BANDWIDTH(srv, msg) ==
  suscan_local_analyzer_insp_from_msg(srv, msg, LAMBDA n, m :
    Served(Submit(srv, n, "bandwidth", m.args.bw), m))

----------------------------------------------------------------------------
(***************************************************************************)
(* CLOSE: the subcarrier inspectors first, each with a message that        *)
(* nobody asked for, whose request is 0.                                   *)
(***************************************************************************)
Listed(srv, n) ==
  SetToSortSeq({m \in DOMAIN srv.insp : srv.insp[m].parent = n /\ srv.insp[m].listed}, <)

\* suscan_inspector_walk_inspectors: what runs inside of n, innermost first.
\* suscan_inspector_factory_walk_inspectors goes down before it calls back,
\* whether or not what it goes into runs.
suscan_inspector_walk_inspectors(srv, n) ==
  LET running(m) == IF srv.insp[m].state = "running" THEN <<m>> ELSE <<>>
      inside[m \in 0 .. Len(srv.insp)] ==
        FlattenSeq([i \in DOMAIN Listed(srv, m) |->
                      inside[Listed(srv, m)[i]] \o running(Listed(srv, m)[i])])
  IN inside[n]

\* Inspectors halted, with no request left, and unregistered.
Closed(srv, inspectors) ==
  [srv EXCEPT
     !.insp = [m \in DOMAIN @ |->
       IF m \in inspectors
       THEN [suscan_inspector_factory_halt_inspector(@[m]) EXCEPT !.handle = NoHandle] ELSE @[m]],
     !.table = [h \in Handles |-> IF @[h] \in inspectors THEN None ELSE @[h]],
     !.requests = {r \in @ : r.insp \notin inspectors}]

\* suscan_local_analyzer_cascade_close, of each of a sequence of inspectors.
suscan_local_analyzer_cascade_close(srv, inside) ==
  [Closed(srv, ToSet(inside)) EXCEPT
     !.sent = @ \o [i \in DOMAIN inside |->
       Message("CLOSE", 0, srv.insp[inside[i]].handle, srv.insp[inside[i]].inspector_id, <<>>)]]

\* Mutant: an inspector is closed and the ones inside of it are not.
CloseAlone(srv, msg) ==
  suscan_local_analyzer_insp_from_msg(srv, msg, LAMBDA n, m :
    Served(Closed(srv, {n}), m))

cb_CLOSE(srv, msg) ==
  suscan_local_analyzer_insp_from_msg(srv, msg, LAMBDA n, m :
    Served(Closed(suscan_local_analyzer_cascade_close(
                    srv, suscan_inspector_walk_inspectors(srv, n)), {n}), m))

----------------------------------------------------------------------------
(***************************************************************************)
(* g_insp_callbacks                                                        *)
(***************************************************************************)
Kinds == {"NOOP", "OPEN", "SET_ID", "ESTIMATOR", "SPECTRUM", "GET_CONFIG", "SET_CONFIG", "SET_TLE",
          "RESET_EQUALIZER", "SET_WATERMARK", "SET_FREQ", "SET_BANDWIDTH", "CLOSE"}

suscan_insp_server_init(srv, msg, handle) ==
  CASE msg.kind = "NOOP"            -> cb_NOOP(srv, msg)
    [] msg.kind = "OPEN"            -> cb_OPEN(srv, msg, handle)
    [] msg.kind = "SET_ID"          -> cb_SET_ID(srv, msg)
    [] msg.kind = "ESTIMATOR"       -> cb_ESTIMATOR(srv, msg)
    [] msg.kind = "SPECTRUM"        -> cb_SPECTRUM(srv, msg)
    [] msg.kind = "GET_CONFIG"      -> cb_GET_CONFIG(srv, msg)
    [] msg.kind = "SET_CONFIG"      -> cb_SET_CONFIG(srv, msg)
    [] msg.kind = "SET_TLE"         -> cb_SET_TLE(srv, msg)
    [] msg.kind = "RESET_EQUALIZER" -> cb_RESET_EQUALIZER(srv, msg)
    [] msg.kind = "SET_WATERMARK"   -> cb_SET_WATERMARK(srv, msg)
    [] msg.kind = "SET_FREQ"        -> cb_SET_FREQ(srv, msg)
    [] msg.kind = "SET_BANDWIDTH"   -> cb_SET_BANDWIDTH(srv, msg)
    [] msg.kind = "CLOSE"           -> cb_CLOSE(srv, msg)

\* Mutant: what is not understood is not answered.
IgnoreUnknown(srv, msg, handle) ==
  LET served == suscan_insp_server_init(srv, msg, handle)
  IN IF msg.kind \notin Kinds THEN [srv |-> srv, ok |-> TRUE]
     ELSE IF served.ok THEN [srv |-> Output(served.srv, served.msg), ok |-> TRUE]
     ELSE [srv |-> served.srv, ok |-> FALSE]

\* The message itself is the answer.  A callback that fails has none: the
\* message is destroyed.
suscan_local_analyzer_parse_inspector_msg(srv, msg, handle) ==
  LET served == IF msg.kind \in Kinds THEN suscan_insp_server_init(srv, msg, handle)
                ELSE Refused(srv, msg, "WRONG_KIND")
  IN IF served.ok THEN [srv |-> Output(served.srv, served.msg), ok |-> TRUE]
     ELSE [srv |-> served.srv, ok |-> FALSE]
=============================================================================
