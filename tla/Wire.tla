-------------------------------- MODULE Wire --------------------------------
(***************************************************************************)
(* One direction of a connection between a device server and a remote      *)
(* analyzer (analyzer/impl/remote.c): the sender serializes what it has to *)
(* say, compresses it above a threshold, and writes a header and a body to *)
(* the socket; the bytes arrive in pieces of any size; the receiver puts   *)
(* the pieces together, inflates the body, and reads it.  The server       *)
(* receives with suscan_remote_partial_pdu_state, one read per poll; the   *)
(* analyzer with suscan_remote_read_pdu, which blocks until the PDU is     *)
(* complete or a timeout expires.                                          *)
(*                                                                         *)
(* A PDU is [what, v]: "hello", "call" or "profile", and the structure.    *)
(***************************************************************************)
EXTENDS RemoteCall

CONSTANTS
  PDUs,              \* what a sender may have to say
  Pairs,             \* pairs of PDUs it may say one after the other
  Thresholds,        \* compression thresholds of a connection; 0 is none
  InitialDescs,      \* descriptions registered by the receiver beforehand
  READ_BUFFER,       \* bytes of a body read at once
  Pieces             \* numbers of bytes a read of the socket may return

VARIABLES
  threshold,   \* of the sender
  receiver,    \* "state" (the server) or "pdu" (the analyzer)
  sent,        \* PDUs written to the socket
  sock,        \* bytes written and not read
  closed,      \* the peer closed its end
  pdu_state,   \* suscan_remote_partial_pdu_state
  descs,       \* descriptions registered in the receiving process
  info,        \* source information the analyzer keeps
  got,         \* structures read, in order
  failed       \* the receiver gave the connection up

vars == <<threshold, receiver, sent, sock, closed, pdu_state, descs, info,
          got, failed>>

----------------------------------------------------------------------------
(***************************************************************************)
(* Compression.  The library is a coder that leaves zeros out: a header of *)
(* two bytes, four flags to a byte, the bytes that are not zero and a      *)
(* trailer of four.  What matters is that its output may be shorter or     *)
(* longer than its input.                                                  *)
(***************************************************************************)

\* zlib's deflate.
Deflated(p) ==
  LET flag(i) == IF i <= Len(p) /\ p[i] # 0 THEN 1 ELSE 0
  IN <<0, 0>> \o [i \in 1..((Len(p) + 3) \div 4) |->
                    flag(4*i - 3) + 2 * flag(4*i - 2) + 4 * flag(4*i - 1) + 8 * flag(4*i)]
       \o SelectSeq(p, LAMBDA x : x # 0) \o <<0, 0, 0, 0>>

\* zlib's inflate, for an input whose original size is known.
Inflated(z, size) ==
  LET flags   == (size + 3) \div 4
      flag(i) == (z[2 + ((i + 3) \div 4)] \div (2^((i - 1) % 4))) % 2
      rank[i \in 0..size] == IF i = 0 THEN 0 ELSE rank[i - 1] + flag(i)
  IN IF Len(z) < 6 + flags THEN <<>>
     ELSE [i \in 1..size |-> IF flag(i) = 0 THEN 0 ELSE z[2 + flags + rank[i]]]

\* The output buffer doubles each time it is full; it may not do so beyond
\* four times the input.  The size of the input goes in front.
suscan_remote_deflate_pdu(buffer) ==
  LET z     == Deflated(buffer)
      sizes == {9 * 2^k : k \in 0..12}
      stuck == \E s \in sizes : s - 4 < Len(z) /\ s > 4 * Len(buffer)
  IN IF stuck THEN [ok |-> FALSE, b |-> <<>>]
              ELSE [ok |-> TRUE,  b |-> cpu_to_be(Len(buffer), 4) \o z]

\* The output buffer starts with the size of the compressed data, and keeps
\* it when the data is smaller than that: what is behind it is undefined.
suscan_remote_inflate_pdu(buffer) ==
  LET size == be_to_cpu(SubSeq(buffer, 1, 4))
      z    == SubSeq(buffer, 5, Len(buffer))
      p    == Inflated(z, size)
      tail == [i \in 1..(IF Len(z) > Len(p) THEN Len(z) - Len(p) ELSE 0) |-> 0]
  IN IF Len(buffer) <= 4 \/ size # Len(p) THEN [ok |-> FALSE, b |-> <<>>]
                                          ELSE [ok |-> TRUE,  b |-> p \o tail]

----------------------------------------------------------------------------
(***************************************************************************)
(* Framing.                                                                *)
(***************************************************************************)

PDU_MAGIC        == 25      \* SUSCAN_REMOTE_PDU_HEADER_MAGIC
COMPRESSED_MAGIC == 26      \* SUSCAN_REMOTE_COMPRESSED_PDU_HEADER_MAGIC
HEADER_SIZE      == 8

Serialize(pdu) ==
  CASE pdu.what = "hello"   -> server_hello_serialize(pdu.v)
    [] pdu.what = "call"    -> remote_call_serialize(pdu.v)
    [] pdu.what = "profile" -> source_config_serialize(pdu.v)

Deserialize(what, b, known) ==
  LET s == Reader(b, known)
  IN CASE what = "hello"   -> server_hello_deserialize(s)
       [] what = "call"    -> remote_call_deserialize(s)
       [] what = "profile" -> source_config_deserialize_ex(s)

suscan_remote_write_pdu_internal(magic, body) ==
  cpu_to_be(magic, 4) \o cpu_to_be(Len(body), 4) \o body

\* Compressed when the threshold is set and exceeded.
suscan_remote_write_pdu(body) ==
  LET z == suscan_remote_deflate_pdu(body)
  IN CASE ~(threshold > 0 /\ Len(body) > threshold) ->
            [ok |-> TRUE, b |-> suscan_remote_write_pdu_internal(PDU_MAGIC, body)]
       [] ~z.ok -> z
       [] OTHER -> [ok |-> TRUE,
                    b |-> suscan_remote_write_pdu_internal(COMPRESSED_MAGIC, z.b)]

NoPdu == [header |-> <<>>, magic |-> 0, size |-> 0, incoming_pdu |-> <<>>,
          have_header |-> FALSE, have_body |-> FALSE]

Init ==
  /\ threshold \in Thresholds
  /\ receiver \in {"state", "pdu"}
  /\ sent = <<>> /\ sock = <<>> /\ closed = FALSE
  /\ pdu_state = NoPdu
  /\ descs = InitialDescs
  /\ info = [permissions |-> 0, source_info |-> <<>>, time |-> <<0, 0>>]
  /\ got = <<>> /\ failed = FALSE

\* The sender writes a PDU; one that cannot be serialized or compressed
\* ends the connection.
Write(pdu) ==
  LET serializable == ~(/\ pdu.what = "call" /\ pdu.v.type = REMOTE.MESSAGE
                        /\ ~CanSerialize(pdu.v.msg))
  IN /\ ~closed
     /\ \E out \in {suscan_remote_write_pdu(b) : b \in {Serialize(p) : p \in {pdu}}} :
          IF serializable /\ out.ok
            THEN /\ sent' = Append(sent, pdu) /\ sock' = sock \o out.b
                 /\ UNCHANGED closed
            ELSE closed' = TRUE /\ UNCHANGED <<sent, sock>>
     /\ UNCHANGED <<threshold, receiver, pdu_state, descs, info, got, failed>>

First  == sent = <<>> /\ \E pdu \in PDUs : Write(pdu)

Second == Len(sent) = 1 /\ \E p \in Pairs : sent[1] = p[1] /\ Write(p[2])

\* The peer goes away; what it wrote last may not have been sent.
Leave ==
  /\ ~closed /\ closed' = TRUE
  /\ \E n \in {Len(sock) \div 2, Len(sock)} : sock' = SubSeq(sock, 1, n)
  /\ UNCHANGED <<threshold, receiver, sent, pdu_state, descs, info, got, failed>>

\* n bytes of the socket, for a read of at most max.
Reads(n, max) == n \in 1..Len(sock) /\ n <= max /\ (n \in Pieces \/ n = max)

\* suscan_remote_partial_pdu_state_read, without a complete header.
ReadHeader(n) ==
  LET s     == pdu_state
      bytes == s.header \o SubSeq(sock, 1, n)
      magic == be_to_cpu(SubSeq(bytes, 1, 4))
      size  == be_to_cpu(SubSeq(bytes, 5, 8))
  IN /\ ~s.have_header
     /\ Reads(n, HEADER_SIZE - Len(s.header))
     /\ sock' = SubSeq(sock, n + 1, Len(sock))
     /\ IF Len(bytes) < HEADER_SIZE
          THEN pdu_state' = [s EXCEPT !.header = bytes] /\ UNCHANGED failed
          ELSE /\ pdu_state' = [s EXCEPT !.header = <<>>, !.magic = magic,
                                         !.size = size, !.have_header = size # 0,
                                         !.incoming_pdu = <<>>]
               /\ failed' = (magic \notin {PDU_MAGIC, COMPRESSED_MAGIC})

\* suscan_remote_partial_pdu_state_read, in the body.
ReadBody(n) ==
  LET s    == pdu_state
      body == s.incoming_pdu \o SubSeq(sock, 1, n)
      last == s.size = n
      raw  == IF s.magic = COMPRESSED_MAGIC THEN suscan_remote_inflate_pdu(body)
                                            ELSE [ok |-> TRUE, b |-> body]
  IN /\ s.have_header /\ ~s.have_body
     /\ Reads(n, IF s.size > READ_BUFFER THEN READ_BUFFER ELSE s.size)
     /\ sock' = SubSeq(sock, n + 1, Len(sock))
     /\ failed' = (last /\ ~raw.ok)
     /\ pdu_state' = [s EXCEPT !.size = @ - n,
                               !.incoming_pdu = IF last THEN raw.b ELSE body,
                               !.have_body = last /\ raw.ok]

\* The PDU that a receiver is waiting for is a function of what came before:
\* it is the sender's next one.
Expected == sent[Len(got) + 1]

\* Mutant: the permissions of the message are not replaced by the client's.
DeliverTakesPermissions(m) ==
  CASE m.type = MSGTYPE.SOURCE_INFO ->
         [permissions |-> m.permissions, source_info |-> source_info_init_copy(m),
          time |-> <<m.time_sec, m.time_usec>>]
    [] m.type = MSGTYPE.PSD ->
         [info EXCEPT !.time = <<m.timestamp_sec, m.timestamp_usec>>]
    [] OTHER -> info

\* A message updates what the analyzer knows of the source: everything but
\* the permissions when it is the source information, its time when it is
\* a spectrum.
suscan_analyzer_remote_call_deliver_message(m) ==
  CASE m.type = MSGTYPE.SOURCE_INFO ->
         [info EXCEPT !.source_info = source_info_init_copy(
                                        [m EXCEPT !.permissions = info.permissions]),
                      !.time = <<m.time_sec, m.time_usec>>]
    [] m.type = MSGTYPE.PSD ->
         [info EXCEPT !.time = <<m.timestamp_sec, m.timestamp_usec>>]
    [] OTHER -> info

\* The source information of the handshake is taken as it is.
suscan_analyzer_remote_call_take_source_info(i) ==
  [permissions |-> i.permissions, source_info |-> i,
   time |-> <<i.time_sec, i.time_usec>>]

\* What the analyzer keeps of a call.
Kept(call) ==
  CASE call.type = REMOTE.MESSAGE -> suscan_analyzer_remote_call_deliver_message(call.msg)
    [] call.type = REMOTE.SOURCE_INFO ->
         suscan_analyzer_remote_call_take_source_info(call.source_info)
    [] OTHER -> info

Take(b) ==
  \E r \in {Deserialize(Expected.what, b, descs)} :
    /\ descs' = r.descs
    /\ IF r.ok THEN /\ got' = Append(got, r.m) /\ UNCHANGED failed
                    /\ info' = IF Expected.what = "call" THEN Kept(r.m) ELSE info
               ELSE failed' = TRUE /\ UNCHANGED <<got, info>>

\* suscan_remote_partial_pdu_state_take and the processing of the PDU.
TakePdu ==
  /\ pdu_state.have_header /\ pdu_state.have_body
  /\ Take(pdu_state.incoming_pdu)
  /\ pdu_state' = [NoPdu EXCEPT !.magic = pdu_state.magic]
  /\ UNCHANGED <<threshold, receiver, sent, sock, closed>>

Receive ==
  /\ \/ \E n \in 1..Len(sock) : ReadHeader(n)
     \/ \E n \in 1..Len(sock) : ReadBody(n)
  /\ UNCHANGED <<threshold, receiver, sent, closed, descs, info, got>>

\* A header, and behind it as many bytes as it announces.
PduThere == /\ Len(sock) >= HEADER_SIZE
            /\ Len(sock) >= HEADER_SIZE + be_to_cpu(SubSeq(sock, 5, 8))

\* suscan_remote_read_pdu with the whole PDU there.
suscan_remote_read_pdu ==
  LET magic == be_to_cpu(SubSeq(sock, 1, 4))
      size  == be_to_cpu(SubSeq(sock, 5, 8))
      body  == SubSeq(sock, 9, 8 + size)
      raw   == IF magic = COMPRESSED_MAGIC THEN suscan_remote_inflate_pdu(body)
                                           ELSE [ok |-> TRUE, b |-> body]
  IN /\ PduThere
     /\ sock' = SubSeq(sock, 9 + size, Len(sock))
     /\ IF magic \in {PDU_MAGIC, COMPRESSED_MAGIC} /\ raw.ok
          THEN Take(raw.b)
          ELSE failed' = TRUE /\ UNCHANGED <<descs, info, got>>
     /\ UNCHANGED <<threshold, receiver, sent, closed, pdu_state>>

\* A read finds the end of the stream: between PDUs, in a header or in a
\* body; for the blocking reader, also what is left of a PDU.
PeerLeft ==
  /\ closed
  /\ IF receiver = "state" THEN sock = <<>> /\ ~pdu_state.have_body
                           ELSE ~PduThere
  /\ failed' = TRUE
  /\ UNCHANGED <<threshold, receiver, sent, sock, closed, pdu_state, descs,
                 info, got>>

\* suscan_remote_read: the rest of a PDU did not come in time, or the user
\* cancelled; the analyzer closes the connection.
TimeOut ==
  /\ receiver = "pdu" /\ ~failed /\ ~closed /\ ~PduThere
  /\ failed' = TRUE /\ closed' = TRUE
  /\ UNCHANGED <<threshold, receiver, sent, sock, pdu_state, descs, info, got>>

ReadState == receiver = "state" /\ ~failed /\ (Receive \/ TakePdu)

ReadPdu   == receiver = "pdu" /\ ~failed /\ suscan_remote_read_pdu

EndOfStream == ~failed /\ PeerLeft

Next == First \/ Second \/ Leave \/ ReadState \/ ReadPdu \/ TimeOut \/ EndOfStream

Spec == Init /\ [][Next]_vars

----------------------------------------------------------------------------
(***************************************************************************)
(* Properties.                                                             *)
(***************************************************************************)

TypeOK ==
  /\ threshold \in Thresholds /\ receiver \in {"state", "pdu"}
  /\ closed \in BOOLEAN /\ failed \in BOOLEAN
  /\ Len(got) <= Len(sent)
  /\ pdu_state.size \in Nat /\ Len(pdu_state.header) < HEADER_SIZE

NoNull(str) == IF str = NullStr THEN <<>> ELSE str

\* A configuration by its name, its fields and their values.
ConfigData(c) == [name  |-> c.desc.global_name,
                  names |-> [i \in DOMAIN c.desc.fields |-> c.desc.fields[i].name],
                  vals  |-> [i \in DOMAIN c.values |-> c.values[i].v]]

\* A message as the receiver should see it: a null string is empty, a class
\* the receiver does not have is null, the reply to GET_CONFIG is empty,
\* and a missing configuration is an empty one.
Arrives(m) ==
  [f \in IF "kind" \in DOMAIN m /\ m.kind = MSGKIND.GET_CONFIG
           THEN DOMAIN m \ {"config"} ELSE DOMAIN m |->
     CASE f \in {"err_msg", "antenna", "class_name", "name", "label"} -> NoNull(m[f])
       [] f \in {"estimator_list", "spectsrc_list"} ->
            [i \in DOMAIN m[f] |-> IF m[f][i] \in KnownClasses THEN m[f][i] ELSE NullStr]
       [] f = "config" -> IF m[f] = NullConfig
                            THEN [name |-> NullConfigName, names |-> <<>>, vals |-> <<>>]
                            ELSE ConfigData(m[f])
       [] f = "device" -> "remote"
       [] OTHER -> m[f]]

AsSent(pdu) ==
  IF pdu.what # "call" THEN Arrives(pdu.v)
  ELSE [f \in DOMAIN pdu.v |->
          CASE f \in {"msg", "source_info"} -> Arrives(pdu.v[f])
            [] f \in {"name", "antenna"} -> NoNull(pdu.v[f])
            [] OTHER -> pdu.v[f]]

AsReceived(v) ==
  LET c == IF "msg" \in DOMAIN v THEN v.msg ELSE v
      d == IF "config" \in DOMAIN c THEN [c EXCEPT !.config = ConfigData(@)] ELSE c
  IN IF "msg" \in DOMAIN v THEN [v EXCEPT !.msg = d] ELSE d

\* What the receiver reads is what the sender wrote, in the order it was
\* written, field by field: the sequences of packs and of unpacks, written
\* apart, agree on every kind of message, call and profile, at every width
\* of the encodings, compressed or not, however the bytes are cut.
DeliveredAsSent ==
  /\ Len(got) <= Len(sent)
  /\ \A i \in DOMAIN got : AsReceived(got[i]) = AsSent(sent[i])

\* What the receiver cannot read even when all of it arrives: a file field
\* of a description it knows, a range or an enumeration it checks, messages
\* that only exist inside a process, and profiles it may not load.
Refused(pdu) ==
  LET v == pdu.v
      hasfile(c) == \E d \in descs : /\ d.global_name = c.desc.global_name
                                     /\ \E i \in DOMAIN d.fields : d.fields[i].type = "FILE"
  IN \/ /\ pdu.what = "profile"
        /\ \/ v.interface # Interfaces.remote
           \/ v.device = NoDevice
           \/ v.type = SourceTypes.unknown
     \/ /\ pdu.what = "call"
        /\ \/ v.type = REMOTE.SET_HOP_RANGE /\ v.min >= v.max
           \/ /\ v.type = REMOTE.MESSAGE
              /\ \/ v.msg.type \in {MSGTYPE.INTERNAL, MSGTYPE.SAMPLES_LOST}
                 \/ /\ "config" \in DOMAIN v.msg /\ v.msg.kind # MSGKIND.GET_CONFIG
                    /\ v.msg.config # NullConfig
                    /\ hasfile(v.msg.config)

\* The receiver gives a connection up only when the peer left it or said
\* something the receiver must refuse: no cut of the bytes into reads, no
\* compression and no earlier message makes a good PDU fail.
FailsOnlyWhenRefused ==
  failed => closed \/ (Len(got) < Len(sent) /\ Refused(Expected))

\* No part of a PDU is taken for a PDU: a body of which the end is missing
\* is refused by its reader wherever it is cut.
NoPrefixAccepted ==
  (Len(sent) = 1 /\ got = <<>> /\ threshold = 0 /\ receiver = "pdu" /\ ~failed
     /\ ~closed) =>
    LET b == SubSeq(sock, 9, Len(sock))
    IN \A n \in 0..(Len(b) - 1) :
         ~Deserialize(sent[1].what, SubSeq(b, 1, n), InitialDescs).ok

\* Permissions are set by the server when the client is accepted and are
\* not changed by what the source reports later.
PermissionsKept ==
  [][\A i \in DOMAIN got' \ DOMAIN got :
       (sent[i].what = "call" /\ sent[i].v.type = REMOTE.MESSAGE) =>
         info'.permissions = info.permissions
           /\ (sent[i].v.msg.type = MSGTYPE.SOURCE_INFO =>
                 info'.source_info.permissions = info.permissions)]_vars

=============================================================================
