------------------------------ MODULE Multicast ------------------------------
(***************************************************************************)
(* Multicast delivery.  The manager of a device server (cli/devserv/       *)
(* mc_manager.c) chops calls into fragments and queues them for a worker   *)
(* that sends them to the network, next to the announces; the network      *)
(* loses and reorders datagrams.  The processor of a remote analyzer       *)
(* (analyzer/impl/mc_processor.c, processors/encap.c, processors/psd.c)    *)
(* puts superframes together and hands calls to the analyzer.              *)
(*                                                                         *)
(* The k-th superframe carries the bytes, or the bins, <<k, 0>>, <<k, 1>>, *)
(* ..., so that what arrives tells where it came from.  A call is [type,   *)
(* size, fc]: a spectrum of size bins at frequency fc, or an encapsulated  *)
(* call of size bytes.                                                     *)
(***************************************************************************)
EXTENDS Integers, Sequences, FiniteSets, SequencesExt

CONSTANTS
  Calls,             \* what the server may broadcast
  MaxCalls,          \* bound: superframes sent
  MaxAnnounces,      \* bound: announces sent
  MaxFailures,       \* bound: failing allocations and failing sends
  Usable,            \* usable[type]: bins or bytes of a fragment
  IdModulus,         \* values of a superframe identifier (256)
  FirstId,           \* identifier of the first superframe sent
  BlockBits,         \* bits of a block of the bitmap (64)
  MaskBits,          \* bits of the mask that selects one (32)
  MAX_SUPERFRAME,    \* SUSCLI_MULTICAST_MAX_SUPERFRAME_SIZE
  Faults             \* subset of {"duplicate", "race"}

ASSUME MulticastAssumption ==
  /\ Calls \subseteq [type : {"PSD", "ENCAP"}, size : Nat, fc : Int]
  /\ Usable \in [{"PSD", "ENCAP"} -> Nat \ {0}]
  /\ {MaxCalls, MaxAnnounces, MaxFailures, MAX_SUPERFRAME} \subseteq Nat
  /\ IdModulus \in Nat /\ IdModulus % 2 = 0 /\ FirstId \in 0..(IdModulus - 1)
  /\ BlockBits \in Nat /\ MaskBits \in 1..BlockBits
  /\ Faults \subseteq {"duplicate", "race"}

VARIABLES
  sent,        \* superframes the manager chopped: calls with their identifier
  id,          \* suscli_multicast_manager.id
  queue,       \* fragments for the worker
  tx_pushed,   \* the worker has a tx_cb to run
  cancelled,   \* suscli_multicast_manager.cancelled
  announcing,  \* identifier read by an announce_cb in progress, or -1
  announces,   \* announces sent
  failures,    \* failures so far
  net,         \* datagrams that may still arrive
  proc,        \* suscli_multicast_processor: current type and identifier
  encap,       \* suscli_multicast_processor_encap
  psd,         \* suscli_multicast_processor_psd
  calls        \* calls handed to on_call, in order

server == <<sent, id, queue, tx_pushed, cancelled, announcing, announces, failures>>
client == <<proc, encap, psd, calls>>
vars   == <<server, net, client>>

NoImpl == "none"
Empty  == <<0, 0>>            \* a bin or byte nobody wrote: calloc

Init ==
  /\ sent = <<>> /\ id = FirstId /\ queue = <<>> /\ tx_pushed = FALSE
  /\ cancelled = FALSE /\ announcing = -1 /\ announces = 0 /\ failures = 0
  /\ net = {}
  /\ proc = [impl |-> NoImpl, type |-> NoImpl, id |-> 0]
  /\ encap = [sf_id |-> 0, data |-> <<>>, taken |-> {}, remaining |-> 0]
  /\ psd = [data |-> <<>>, fc |-> 0, header |-> 0, updates |-> 0]
  /\ calls = <<>>

----------------------------------------------------------------------------
(***************************************************************************)
(* The manager.                                                            *)
(***************************************************************************)

\* The fragments of superframe k: type and identifier, its full size, the
\* offset of its first element, and the elements.  copy tells two copies of
\* a duplicated datagram apart.
Fragments(k, call, sf_id) ==
  LET usable == Usable[call.type]
      count  == (call.size + usable - 1) \div usable
      size(i) == IF call.size - i * usable < usable THEN call.size - i * usable ELSE usable
  IN [j \in 1..count |->
        LET i == j - 1
        IN [type |-> call.type, sf_id |-> sf_id, sf_size |-> call.size,
            sf_offset |-> i * usable, fc |-> call.fc, header |-> k,
            data |-> [p \in 1..size(i) |-> <<k, i * usable + p - 1>>], copy |-> 1]]

\* deliver_psd, deliver_encap: an allocation may fail after n fragments,
\* which stay in the queue without the worker being told.
suscli_multicast_manager_deliver_call(call) ==
  LET k     == Len(sent) + 1
      frags == Fragments(k, call, id)
  IN /\ Len(sent) < MaxCalls
     /\ sent' = Append(sent, [call |-> call, id |-> id])
     /\ id' = (id + 1) % IdModulus
     /\ \/ queue' = queue \o frags /\ tx_pushed' = TRUE /\ UNCHANGED failures
        \/ /\ failures < MaxFailures /\ failures' = failures + 1
           /\ \E n \in 0..(Len(frags) - 1) : queue' = queue \o SubSeq(frags, 1, n)
           /\ UNCHANGED tx_pushed
     /\ UNCHANGED <<cancelled, announcing, announces, net, client>>

\* tx_cb: one fragment to the socket; a failure cancels the manager.
suscli_multicast_manager_tx_cb ==
  /\ tx_pushed /\ announcing = -1
  /\ IF cancelled \/ queue = <<>>
       THEN tx_pushed' = FALSE /\ UNCHANGED <<queue, net, cancelled, failures>>
       ELSE /\ queue' = Tail(queue) /\ UNCHANGED tx_pushed
            /\ \/ net' = net \union {Head(queue)} /\ UNCHANGED <<cancelled, failures>>
               \/ /\ failures < MaxFailures /\ failures' = failures + 1
                  /\ cancelled' = TRUE /\ UNCHANGED net
  /\ UNCHANGED <<sent, id, announcing, announces, client>>

\* announce_cb reads the identifier ...
AnnounceRead ==
  /\ announcing = -1 /\ announces < MaxAnnounces
  /\ announcing' = id
  /\ UNCHANGED <<sent, id, queue, tx_pushed, cancelled, announces, failures, net, client>>

\* ... and increments it and sends, or fails to, which cancels the manager.
\* The increment is not atomic: with the fault "race" a call may take
\* identifiers between its read and its write.
AnnounceWrite ==
  /\ announcing # -1
  /\ id' = ((IF "race" \in Faults THEN announcing ELSE id) + 1) % IdModulus
  /\ announcing' = -1 /\ announces' = announces + 1
  /\ LET f == [type |-> "ANNOUNCE", sf_id |-> announcing, sf_size |-> 0, sf_offset |-> 0, fc |-> 0,
               header |-> 0, data |-> <<>>, copy |-> 1]
     IN \/ net' = (IF cancelled THEN net ELSE net \union {f}) /\ UNCHANGED <<cancelled, failures>>
        \/ /\ ~cancelled /\ failures < MaxFailures /\ failures' = failures + 1
           /\ cancelled' = TRUE /\ UNCHANGED net
  /\ UNCHANGED <<sent, queue, tx_pushed, client>>

\* The manager is destroyed: what is queued is freed.
suscli_multicast_manager_destroy ==
  /\ ~cancelled /\ announcing = -1
  /\ cancelled' = TRUE /\ queue' = <<>> /\ tx_pushed' = FALSE
  /\ UNCHANGED <<sent, id, announcing, announces, failures, net, client>>

----------------------------------------------------------------------------
(***************************************************************************)
(* The processor.  A step takes the whole client, c = [proc, encap, psd,   *)
(* calls], through the handling of one fragment.                           *)
(***************************************************************************)

Client == [proc |-> proc, encap |-> encap, psd |-> psd, calls |-> calls]

\* A complete PDU is deserialized, and stays complete.
encap_try_flush(c) ==
  IF c.encap.remaining = 0 /\ c.encap.data # <<>>
    THEN [c EXCEPT !.calls = Append(@, [type |-> "ENCAP", sf_id |-> c.encap.sf_id,
                                        data |-> c.encap.data])]
    ELSE c

\* Whatever was received of a spectrum since the last flush is delivered.
psd_try_flush(c) ==
  IF c.psd.updates > 0
    THEN [c EXCEPT !.psd.updates = 0,
                   !.calls = Append(@, [type |-> "PSD", header |-> c.psd.header,
                                        fc |-> c.psd.fc, data |-> c.psd.data])]
    ELSE c

trigger_on_call(c) ==
  CASE c.proc.impl = "ENCAP" -> encap_try_flush(c)
    [] c.proc.impl = "PSD"   -> psd_try_flush(c)
    [] OTHER                 -> c

\* The bit of a byte in the bitmap: the mask is narrower than a block, and
\* selects nothing for the bits beyond its width.
Tracked(p) == p % BlockBits < MaskBits

\* encap_copy: only the bytes that are free are written and counted.
encap_copy(e, f) ==
  LET ps   == f.sf_offset..(f.sf_offset + Len(f.data) - 1)
      free == ps \ e.taken
  IN [e EXCEPT !.data = [i \in DOMAIN @ |-> IF i - 1 \in free
                                              THEN f.data[i - f.sf_offset] ELSE @[i]],
               !.taken = @ \union {p \in free : Tracked(p)},
               !.remaining = @ - Cardinality(free)]

encap_clear(e, sf_id, size) ==
  [sf_id |-> sf_id, data |-> [i \in 1..size |-> Empty], taken |-> {}, remaining |-> size]

\* Mutant: superframes are told apart by their size alone.
EncapIgnoresId(c, f) ==
  LET e == IF f.sf_size # Len(c.encap.data) THEN encap_clear(c.encap, f.sf_id, f.sf_size)
                                            ELSE c.encap
      d == [c EXCEPT !.encap = encap_copy(e, f)]
  IN IF d.encap.remaining = 0 THEN trigger_on_call(d) ELSE d

\* Another superframe, or another size, starts a new PDU.
encap_on_fragment(c, f) ==
  LET fresh == f.sf_size # Len(c.encap.data) \/ f.sf_id # c.encap.sf_id
      e     == IF fresh THEN encap_clear(c.encap, f.sf_id, f.sf_size) ELSE c.encap
      d     == [c EXCEPT !.encap = encap_copy(e, f)]
  IN IF fresh /\ f.sf_size > MAX_SUPERFRAME
       THEN [c EXCEPT !.encap = encap_clear(c.encap, f.sf_id, 0)]
     ELSE IF f.sf_offset + Len(f.data) > f.sf_size THEN [c EXCEPT !.encap = e]
     ELSE IF d.encap.remaining = 0 THEN trigger_on_call(d) ELSE d

\* Mutant: spectra are told apart by their size alone.
PsdIgnoresFc(c, f) ==
  LET reallocate == f.sf_size # Len(c.psd.data)
      d == IF reallocate
             THEN [trigger_on_call(c) EXCEPT !.psd.data = [i \in 1..f.sf_size |-> Empty],
                                             !.psd.updates = 0]
             ELSE c
  IN [d EXCEPT !.psd.data = [i \in DOMAIN @ |->
                  IF i - f.sf_offset \in DOMAIN f.data THEN f.data[i - f.sf_offset] ELSE @[i]],
               !.psd.header = IF d.psd.updates = 0 THEN f.header ELSE @,
               !.psd.fc = IF d.psd.updates = 0 THEN f.fc ELSE @,
               !.psd.updates = @ + 1]

\* Another size or another frequency delivers what there is and starts with
\* an empty spectrum; otherwise the bins replace those of earlier ones.
psd_on_fragment(c, f) ==
  LET reallocate == f.sf_size # Len(c.psd.data) \/ f.fc # c.psd.fc
      flushed    == trigger_on_call(c)
      d == IF reallocate
             THEN [flushed EXCEPT !.psd.data = [i \in 1..f.sf_size |-> Empty],
                                  !.psd.updates = 0]
             ELSE c
  IN IF reallocate /\ f.sf_size > MAX_SUPERFRAME
       THEN [flushed EXCEPT !.psd.data = <<>>]
     ELSE IF f.sf_offset + Len(f.data) > f.sf_size THEN d
     ELSE [d EXCEPT !.psd.data = [i \in DOMAIN @ |->
                      IF i - f.sf_offset \in DOMAIN f.data THEN f.data[i - f.sf_offset]
                                                           ELSE @[i]],
                    !.psd.header = IF d.psd.updates = 0 THEN f.header ELSE @,
                    !.psd.fc = IF d.psd.updates = 0 THEN f.fc ELSE @,
                    !.psd.updates = @ + 1]

\* The distance between two identifiers, as a signed integer of their width.
Delta(a, b) == (((a - b) + IdModulus + IdModulus \div 2) % IdModulus) - IdModulus \div 2

\* What the processor of the current type does with the fragment.
on_fragment(c, f) ==
  CASE c.proc.impl = "ENCAP" -> encap_on_fragment(c, f)
    [] c.proc.impl = "PSD"   -> psd_on_fragment(c, f)

\* Mutant: old superframes are not dropped.
ProcessAnyId(c, f) ==
  LET refresh == c.proc.type # f.type \/ Delta(f.sf_id, c.proc.id) # 0
      d == [trigger_on_call(c) EXCEPT !.proc = [impl |-> f.type, type |-> f.type, id |-> f.sf_id]]
  IN IF f.type = "ANNOUNCE" THEN c ELSE on_fragment(IF refresh THEN d ELSE c, f)

\* suscli_multicast_processor_process: announces and old superframes are
\* dropped; another type, or a superframe further than the next one, ends
\* the current superframe.  The next one of the same type does not.
suscli_multicast_processor_process(c, f) ==
  LET first   == c.proc.impl = NoImpl
      delta   == Delta(f.sf_id, c.proc.id)
      refresh == c.proc.type # f.type \/ delta > 1 \/ first
      d == [trigger_on_call(c) EXCEPT
              !.proc = [impl |-> f.type, type |-> f.type, id |-> f.sf_id]]
  IN CASE f.type = "ANNOUNCE"    -> c
       [] delta < 0 /\ ~first    -> c
       [] OTHER -> on_fragment(IF refresh THEN d ELSE c, f)

\* A datagram arrives: any of those on the way, perhaps for a second time.
suscli_multicast_processor_process_datagram ==
  \E f \in net :
    LET c == suscli_multicast_processor_process(Client, f)
    IN /\ proc' = c.proc /\ encap' = c.encap /\ psd' = c.psd /\ calls' = c.calls
       /\ net' = IF "duplicate" \in Faults /\ f.copy = 1
                   THEN (net \ {f}) \union {[f EXCEPT !.copy = 2]} ELSE net \ {f}
       /\ UNCHANGED server

Deliver == \E call \in Calls : suscli_multicast_manager_deliver_call(call)

Next ==
  \/ Deliver
  \/ suscli_multicast_manager_tx_cb
  \/ AnnounceRead
  \/ AnnounceWrite
  \/ suscli_multicast_manager_destroy
  \/ suscli_multicast_processor_process_datagram

Spec == Init /\ [][Next]_vars

----------------------------------------------------------------------------
(***************************************************************************)
(* Properties.                                                             *)
(***************************************************************************)

\* A delivered encapsulated call is one the server sent, whole: never a mix
\* of two superframes, never one with bytes missing, whatever is lost and in
\* whichever order the rest arrives.
EncapIntact ==
  \A i \in DOMAIN calls :
    calls[i].type = "ENCAP" =>
      \E k \in DOMAIN sent :
        /\ sent[k].call.type = "ENCAP" /\ sent[k].call.size = Len(calls[i].data)
        /\ \A p \in DOMAIN calls[i].data : calls[i].data[p] = <<k, p - 1>>

\* A delivered spectrum may lack bins and may show bins of several spectra,
\* but each one at its place and all of them at one frequency.
SameTuning ==
  \A i \in DOMAIN calls :
    calls[i].type = "PSD" =>
      \A p \in DOMAIN calls[i].data :
        LET bin == calls[i].data[p]
        IN bin # Empty => /\ bin[2] = p - 1
                          /\ sent[bin[1]].call.fc = calls[i].fc
                          /\ sent[bin[1]].call.size = Len(calls[i].data)

\* The superframe a delivered call came from.
Origin(call) == IF call.type = "PSD" THEN call.header ELSE call.data[1][1]

\* Old superframes are dropped: once a superframe has arrived, nothing that
\* was sent more than one superframe before it is delivered for the first
\* time.
NoOldCalls ==
  \A i, j \in DOMAIN calls : i < j =>
    \/ Origin(calls[j]) >= Origin(calls[i]) - 1
    \/ \E h \in 1..(i - 1) : Origin(calls[h]) = Origin(calls[j])

=============================================================================
