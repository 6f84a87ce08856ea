--------------------------- MODULE DevServ_proofs ---------------------------
(***************************************************************************)
(* For any clients, whatever they ask for and however they come and go: a  *)
(* message of the analyzer is never translated to a client that has left   *)
(* the list, and a client gets the answers to its own requests only, under *)
(* the identifiers it chose, and what its own inspectors produce.          *)
(*                                                                         *)
(* The first claim excepts the inspectors that a client of the previous    *)
(* analyzer opened in this one, by a call that was read after its shutdown *)
(* (OpenedLate): such a client may leave while they are there.             *)
(*                                                                         *)
(* It needs to know which ids of inspectors may still reach the tx thread: *)
(* those of the inspectors that the analyzer has, or that a message of it  *)
(* carries.  While an analyzer runs, a client of its epoch that has such   *)
(* an id in its table cannot leave the list.  That an inspector is opened  *)
(* under an id that is not in the list yet needs that a request is in one  *)
(* place at a time, and newer than those before.  So does the second       *)
(* claim: a request is answered once.                                      *)
(***************************************************************************)
EXTENDS DevServ, SeqLemmas, FiniteSetTheorems

IsSequence(s) == s \in Seq(ToSet(s))

IsRequest(r) == r = <<r[1], r[2]>> /\ r[1] \in Clients /\ r[2] \in Nat

\* What the private handle p of client c stands for
Entry(p) == [glob |-> Handle("glob", p.of), itl |-> Handle("itl", p.of)]
PrivateTo(p, c) == p = Handle("priv", p.of) /\ IsRequest(p.of) /\ p.of[1] = c
PrivateSet(c) == {Handle("priv", <<c, n>>) : n \in Nat}
HandlesOK(f, c) ==
  /\ IsFiniteSet(DOMAIN f) /\ f = [p \in DOMAIN f |-> Entry(p)]
  /\ \A p \in DOMAIN f : PrivateTo(p, c)

HandleMaps(c) == {f \in UNION {[D -> UNION {{Entry(p)} : p \in D}] : D \in SUBSET PrivateSet(c)} : HandlesOK(f, c)}

ClientRecords(c) ==
  [auth : BOOLEAN, info : BOOLEAN, failed : BOOLEAN, closed : BOOLEAN, epoch : Nat,
   handles : HandleMaps(c)]
ClientOK(k, c) == k \in ClientRecords(c) /\ (k.failed => k.closed)

ClientsInv ==
  /\ DOMAIN cl = Clients /\ \A c \in Clients : ClientOK(cl[c], c)
  /\ epoch \in Nat

ListInv ==
  /\ listed \subseteq Clients
  /\ DOMAIN peer = Clients
  /\ \A c \in listed : peer[c] \in {"up", "left"}
  /\ rx.todo \subseteq listed
  /\ rx.pc \in {"poll", "accept", "cleanup"} => rx.todo = {}
  /\ rx \in [pc : {"poll", "accept", "clients", "set_id", "cleanup", "dead", "crashed"},
            todo : SUBSET Clients, c : {rx.c}, msg : {rx.msg}]

InboxInv ==
  /\ DOMAIN inbox = Clients /\ DOMAIN calls = Clients
  /\ \A c \in Clients :
       /\ calls[c] \in Seq(SUBSET CallKinds)
       /\ inbox[c] # None => /\ inbox[c].kind \in CallKinds
                             /\ inbox[c].rid = Len(calls[c]) + 1

\* The tables
ReqInv ==
  \A g \in DOMAIN req : /\ IsRequest(g) /\ g[1] \in listed
                        /\ req[g] = [client |-> g[1], rid |-> g[2]]
ItlInv ==
  \A i \in DOMAIN itl :
    /\ i = Handle("itl", i.of) /\ IsRequest(i.of)
    /\ itl[i] = [client |-> i.of[1], priv |-> Handle("priv", i.of), local |-> itl[i].local,
                late |-> itl[i].late]

\* Messages
ToAnalyzer == {"open", "close", "set_id", "get", "noop", "set"}
OfAnalyzer == Messages \cup {"halt"}

\* Inspectors, under the handles and ids of those who asked
GlobOK(h) == h = Handle("glob", h.of) /\ IsRequest(h.of)
IdOK(id, h) == id # NoHandle => h # NoHandle /\ id = Handle("itl", h.of)
\* Clients that have been in the list
Accepted == {c \in Clients : peer[c] \in {"up", "left"}}
MsgOK(m, A) ==
  /\ m = Msg(m.kind, m.req, m.glob, m.id)
  /\ m.req = <<m.req[1], m.req[2]>>
  /\ m.req[1] # None => IsRequest(m.req) /\ m.req[1] \in A
  /\ m.glob # NoHandle => GlobOK(m.glob)
  /\ IdOK(m.id, m.glob)
  /\ m.req[1] # None /\ m.glob # NoHandle => m.glob.of[1] = m.req[1]
AqOK(m, A) ==
  /\ MsgOK(m, A) /\ m.kind \in ToAnalyzer
  /\ m.kind \in {"open", "noop"} => m.req[1] # None /\ m.glob = NoHandle
  /\ m.kind = "close" => m.glob # NoHandle
MqOK(m, A) ==
  /\ MsgOK(m, A) /\ m.kind \in OfAnalyzer
  /\ m.kind = "open" => m.req[1] # None /\ m.glob = Handle("glob", m.req)
  /\ m.kind \in {"wrong_handle", "halt", "noop"} => m.id = NoHandle
  /\ m.kind = "noop" => m.glob = NoHandle
  /\ m.kind \in {"info", "halt"} => m = Msg(m.kind, NoReq, NoHandle, NoHandle)

MessageInv ==
  /\ IsSequence(aq) /\ \A m \in ToSet(aq) : AqOK(m, Accepted)
  /\ IsSequence(mq) /\ \A m \in ToSet(mq) : MqOK(m, Accepted)
  /\ tx.msg # None => MqOK(tx.msg, Accepted) /\ tx.msg.kind # "halt"
  /\ rx.pc = "set_id" => AqOK(rx.msg, Accepted) /\ rx.msg.kind = "set_id"
  /\ \A h \in DOMAIN ana.insp : GlobOK(h) /\ IdOK(ana.insp[h], h)

\* The analyzer runs, or what it has said is still read.
Running == tx.pc \in {"read", "lock", "work", "kick", "crashed"}

TxPlaces ==
  {"none", "read", "lock", "work", "kick", "crashed", "epoch", "shutdown", "halted", "end"}
ServerInv ==
  /\ tx \in [pc : TxPlaces, msg : {tx.msg}]
  /\ tx.msg # None => tx.pc \in {"lock", "work", "kick", "crashed"}
  /\ ana \in [state : {"none", "running", "halted"}, halt : BOOLEAN, insp : {ana.insp}]
  /\ server \in [running : BOOLEAN, halted : BOOLEAN]
  /\ server.running <=> ana.state # "none"
  /\ tx.pc \notin {"none", "end"} => server.running
  /\ ana.state = "running" => Running
  /\ server.halted <=> tx.pc = "end"
  /\ ana.state = "none" => aq = <<>> /\ ana.insp = <<>>

Refusal(m) == m.kind = "wrong_handle"
HaltLast ==
  /\ ~Running => \A m \in ToSet(mq) : Refusal(m)
  /\ \A i, j \in 1 .. Len(mq) : i < j /\ mq[i] = HALT => Refusal(mq[j])
  /\ ana.state = "running" => HALT \notin ToSet(mq)

\* The id of an inspector that is opened, in the translation list
OpenId(m) == Handle("itl", m.req)

\* The ids of the inspectors that the analyzer has, whether it knows them
\* or not, and those that reach the tx thread
Live(i) ==
  \/ \E h \in DOMAIN ana.insp : i = Handle("itl", h.of)
  \/ \E m \in ToSet(mq) : i = m.id
  \/ tx.msg # None /\ i = tx.msg.id
Owned(i) ==
  LET c == itl[i].client IN
  c \in listed /\ cl[c].epoch = epoch /\ itl[i].priv \in DOMAIN cl[c].handles

\* While the analyzer runs, an id that is live and in the list leads to a
\* client that has the inspector, or to one of another epoch.
LiveInv == Running => \A i \in DOMAIN itl : Live(i) => Owned(i) \/ itl[i].late

\* What is being opened has no entry yet.
Opens(m) == \/ m \in ToSet(aq) \/ m \in ToSet(mq)
            \/ tx.msg # None /\ m = tx.msg
OpenInv == \A m : Opens(m) /\ m.kind = "open" => OpenId(m) \notin DOMAIN itl

\* A request is in one place, and is answered once.
Asked(m) == m.req[1] # None
Distinct(s) == \A i, j \in 1 .. Len(s) : i # j /\ Asked(s[i]) => s[i].req # s[j].req
InAq(r) == \E m \in ToSet(aq) : m.req = r
InMq(r) == \E m \in ToSet(mq) : m.req = r
InRx(r) == rx.pc = "set_id" /\ rx.msg.req = r
InTx(r) == tx.msg # None /\ tx.msg.req = r
Held(r) == InAq(r) \/ InMq(r) \/ InRx(r) \/ InTx(r)
OnePlace(r) ==
  /\ ~(InAq(r) /\ InMq(r)) /\ ~(InAq(r) /\ InRx(r)) /\ ~(InAq(r) /\ InTx(r))
  /\ ~(InMq(r) /\ InRx(r)) /\ ~(InMq(r) /\ InTx(r)) /\ ~(InRx(r) /\ InTx(r))
OnceInv == /\ Distinct(aq) /\ Distinct(mq)
           /\ \A r : r[1] # None => OnePlace(r)

\* The requests of a client, and what they opened, are those that it has
\* made already.
NextRid(c) == IF inbox[c] # None THEN Len(calls[c]) + 1 ELSE Len(calls[c])
FreshInv == \A r : Held(r) /\ r[1] # None => r[2] > NextRid(r[1])
ItlFresh == \A i \in DOMAIN itl : i.of[2] > NextRid(i.of[1])

\* What TranslationsLive takes
LiveIInv ==
  /\ ClientsInv /\ ListInv /\ InboxInv /\ ReqInv /\ ItlInv /\ MessageInv /\ ServerInv /\ HaltLast
  /\ OnceInv /\ FreshInv /\ ItlFresh /\ OpenInv /\ LiveInv

\* A request whose client is in the list can be translated.
KnownInv == \A r : Held(r) /\ r[1] # None /\ r[1] \in listed => r \in DOMAIN req

\* What was pushed is for a client that was accepted.
OutInv == \A d \in out : d.req[1] # None => d.req[1] \in Accepted

\* What ReplyToRequester takes
ReplyIInv == LiveIInv /\ KnownInv /\ OutInv /\ ReplyToRequester

----------------------------------------------------------------------------
LEMMA OwnElements ==
  ASSUME NEW S, NEW s \in Seq(S)
  PROVE  IsSequence(s)
<1>1. \A i \in 1 .. Len(s) : s[i] \in ToSet(s)
  BY ToSetFacts
<1> QED
  BY <1>1 DEF IsSequence

\* Of sequences of whatever they hold.
LEMMA AppendSeq ==
  ASSUME NEW s, IsSequence(s), NEW e
  PROVE  /\ IsSequence(Append(s, e))
         /\ ToSet(Append(s, e)) = ToSet(s) \cup {e}
         /\ Len(Append(s, e)) = Len(s) + 1 /\ Append(s, e)[Len(s) + 1] = e
         /\ \A i \in 1 .. Len(s) : Append(s, e)[i] = s[i]
<1> DEFINE S == ToSet(s) \cup {e}
<1>1. s \in Seq(S) /\ e \in S
  BY DEF IsSequence
<1> HIDE DEF S
<1>2. Append(s, e) \in Seq(S)
  BY <1>1
<1>3. ToSet(Append(s, e)) = ToSet(s) \cup {e}
  BY <1>1, ToSetAfter
<1>4. IsSequence(Append(s, e))
  BY <1>2, <1>3 DEF IsSequence, S
<1> QED
  BY <1>1, <1>3, <1>4, AppendFacts

LEMMA TailSeq ==
  ASSUME NEW s, IsSequence(s), s # <<>>
  PROVE  /\ IsSequence(Tail(s))
         /\ ToSet(Tail(s)) \subseteq ToSet(s) /\ Head(s) \in ToSet(s)
         /\ Head(s) = s[1] /\ Len(s) > 0
         /\ Len(Tail(s)) = Len(s) - 1
         /\ \A i \in 1 .. (Len(s) - 1) : Tail(s)[i] = s[i + 1]
<1>1. s \in Seq(ToSet(s))
  BY DEF IsSequence
<1>2. Tail(s) \in Seq(ToSet(s)) /\ ToSet(Tail(s)) \subseteq ToSet(s)
  BY <1>1, TailFacts, ToSetAfter
<1>4. IsSequence(Tail(s))
  BY <1>2, OwnElements
<1> QED
  BY <1>1, <1>2, <1>4, HeadFacts, TailFacts

LEMMA ConcatSeq ==
  ASSUME NEW s, IsSequence(s), NEW t, IsSequence(t)
  PROVE  /\ IsSequence(s \o t)
         /\ ToSet(s \o t) = ToSet(s) \cup ToSet(t)
         /\ Len(s \o t) = Len(s) + Len(t)
         /\ \A i \in 1 .. Len(s) : (s \o t)[i] = s[i]
         /\ \A i \in 1 .. Len(t) : (s \o t)[Len(s) + i] = t[i]
<1> DEFINE S == ToSet(s) \cup ToSet(t)
<1>1. s \in Seq(S) /\ t \in Seq(S)
  BY DEF IsSequence
<1> HIDE DEF S
<1>2. /\ s \o t \in Seq(S) /\ Len(s \o t) = Len(s) + Len(t)
      /\ \A i \in 1 .. Len(s) : (s \o t)[i] = s[i]
      /\ \A i \in 1 .. Len(t) : (s \o t)[Len(s) + i] = t[i]
      /\ Len(s) \in Nat /\ Len(t) \in Nat
  BY <1>1
<1>a. /\ \A e : e \in ToSet(s) <=> \E i \in 1 .. Len(s) : s[i] = e
      /\ \A e : e \in ToSet(t) <=> \E i \in 1 .. Len(t) : t[i] = e
  BY <1>1, ToSetFacts
<1>b. \A e : e \in ToSet(s \o t) <=> \E i \in 1 .. Len(s \o t) : (s \o t)[i] = e
  BY <1>2, ToSetFacts
<1>3. \A e : e \in ToSet(s) => e \in ToSet(s \o t)
  <2>1. \A i \in 1 .. Len(s) : i \in 1 .. Len(s \o t)
    BY <1>2
  <2> QED
    BY <1>a, <1>b, <1>2, <2>1
<1>4. \A e : e \in ToSet(t) => e \in ToSet(s \o t)
  <2>1. \A i \in 1 .. Len(t) : Len(s) + i \in 1 .. Len(s \o t)
    BY <1>2
  <2> QED
    BY <1>a, <1>b, <1>2, <2>1
<1>5. ToSet(s \o t) \subseteq S
  BY <1>2, ToSetFacts
<1>6. ToSet(s \o t) = S
  BY <1>3, <1>4, <1>5 DEF S
<1> QED
  BY <1>2, <1>6 DEF IsSequence, S

LEMMA EmptySequence ==
  IsSequence(<<>>) /\ ToSet(<<>>) = {} /\ \A s : IsSequence(s) => s \o <<>> = s
<1>1. ToSet(<<>>) = {}
  BY DEF ToSet
<1>2. \A s : IsSequence(s) => s \o <<>> = s
  BY DEF IsSequence
<1>3. <<>> \in Seq({})
  OBVIOUS
<1> QED
  BY <1>1, <1>2, <1>3 DEF IsSequence

LEMMA SetToSeqFacts ==
  ASSUME NEW S, IsFiniteSet(S)
  PROVE  IsSequence(SetToSeq(S)) /\ ToSet(SetToSeq(S)) \subseteq S
<1> DEFINE n == Cardinality(S)
<1>1. n \in Nat /\ ExistsBijection(1 .. n, S)
  BY FS_CardinalityType
<1>2. \E f \in [1 .. n -> S] : IsInjective(f)
  BY <1>1 DEF ExistsBijection, Bijection, Injection, IsInjective
<1>3. SetToSeq(S) \in [1 .. n -> S]
  BY <1>2 DEF SetToSeq
<1> DEFINE s == SetToSeq(S)
<1>4. s \in Seq(S) /\ Len(s) = n
  BY <1>1, <1>3
<1> HIDE DEF s
<1>5. ToSet(s) \subseteq S /\ \A i \in 1 .. Len(s) : s[i] \in ToSet(s)
  BY <1>4, ToSetFacts
<1> QED
  BY <1>4, <1>5 DEF IsSequence, s

LEMMA HandleMapsFacts ==
  ASSUME NEW c, NEW f
  PROVE  f \in HandleMaps(c) <=> HandlesOK(f, c)
<1> SUFFICES ASSUME HandlesOK(f, c)
             PROVE  f \in UNION {[D -> UNION {{Entry(p)} : p \in D}] : D \in SUBSET PrivateSet(c)}
  BY DEF HandleMaps
<1>1. DOMAIN f \in SUBSET PrivateSet(c)
  BY DEF HandlesOK, PrivateTo, PrivateSet, IsRequest
<1>2. f \in [DOMAIN f -> UNION {{Entry(p)} : p \in DOMAIN f}]
  BY DEF HandlesOK
<1> QED
  BY <1>1, <1>2

\* What kicks a client.
IsClose(m) == \E h : h # NoHandle /\ GlobOK(h) /\ m = Msg("close", NoReq, h, NoHandle)

LEMMA KickFacts ==
  ASSUME NEW c \in Clients, NEW k, ClientOK(k, c)
  PROVE  LET r == suscli_analyzer_server_kick_client_unsafe(k) IN
         /\ ClientOK(r.client, c)
         /\ r.client.epoch = k.epoch /\ r.client.closed /\ r.client.failed
         /\ r.client.handles = k.handles \/ (~Reachable(k) /\ r.client.handles = <<>>)
         /\ IsSequence(r.closes) /\ \A m \in ToSet(r.closes) : IsClose(m)
         /\ ~server.running => r.closes = <<>>
<1> DEFINE shut == suscli_analyzer_client_shutdown(k)
           es == suscli_analyzer_client_for_each_inspector(shut)
           closes == {Msg("close", NoReq, e.glob, NoHandle) : e \in es}
           r == suscli_analyzer_server_kick_client_unsafe(k)
<1>1. /\ shut \in ClientRecords(c) /\ shut.closed /\ shut.epoch = k.epoch
      /\ shut.handles = k.handles /\ shut.failed = k.failed
  BY DEF suscli_analyzer_client_shutdown, ClientOK, ClientRecords
<1>2. ClientOK(shut, c)
  BY <1>1 DEF ClientOK, ClientRecords
<1>r. r = IF k.failed THEN [client |-> shut, closes |-> <<>>]
          ELSE [suscli_analyzer_server_on_client_inspector(shut) EXCEPT !.client.failed = TRUE]
  BY DEF suscli_analyzer_server_kick_client_unsafe
<1>3. /\ IsFiniteSet(DOMAIN k.handles)
      /\ \A p \in DOMAIN k.handles : k.handles[p] = Entry(p) /\ PrivateTo(p, c)
  BY HandleMapsFacts DEF ClientOK, ClientRecords, HandlesOK
<1>4. closes = {Msg("close", NoReq, k.handles[p].glob, NoHandle) : p \in DOMAIN k.handles}
  BY <1>1 DEF suscli_analyzer_client_for_each_inspector
<1>5. IsFiniteSet(closes)
  <2> DEFINE f == [p \in DOMAIN k.handles |-> Msg("close", NoReq, k.handles[p].glob, NoHandle)]
  <2>1. f \in Surjection(DOMAIN k.handles, closes)
    BY <1>4 DEF Surjection
  <2> QED
    BY <1>3, <2>1, FS_Surjection
<1>6. \A m \in closes : IsClose(m)
  <2>1. SUFFICES ASSUME NEW p \in DOMAIN k.handles
                 PROVE  k.handles[p].glob # NoHandle /\ GlobOK(k.handles[p].glob)
    BY <1>4 DEF IsClose
  <2>2. k.handles[p].glob = Handle("glob", p.of) /\ IsRequest(p.of)
    <3>1. k.handles[p] = Entry(p) /\ PrivateTo(p, c)
      BY <1>3
    <3>2. Entry(p).glob = Handle("glob", p.of)
      BY DEF Entry
    <3> QED
      BY <3>1, <3>2 DEF PrivateTo
  <2>3. Handle("glob", p.of).of = p.of /\ Handle("glob", p.of) # NoHandle
    BY DEF Handle, NoHandle
  <2> QED
    BY <2>2, <2>3 DEF GlobOK
<1> DEFINE q == SetToSeq(closes)
<1>7. IsSequence(q) /\ \A m \in ToSet(q) : IsClose(m)
  BY <1>5, <1>6, SetToSeqFacts
<1>8. <<>> \in HandleMaps(c)
  <2>1. HandlesOK(<<>>, c)
    BY FS_EmptySet DEF HandlesOK
  <2> QED
    BY <2>1, HandleMapsFacts
<1>o. suscli_analyzer_server_on_client_inspector(shut)
        = IF Reachable(shut) THEN [client |-> shut, closes |-> q]
          ELSE [client |-> [shut EXCEPT !.handles = <<>>], closes |-> <<>>]
  BY DEF suscli_analyzer_server_on_client_inspector
<1> HIDE DEF q, shut, closes, es, r
<1>9. CASE k.failed
  <2>1. r.client = shut /\ r.closes = <<>>
    BY <1>9, <1>r
  <2> QED
    BY <1>1, <1>2, <1>9, <2>1, EmptySequence DEF r
<1>10. CASE ~k.failed /\ Reachable(shut)
  <2>1. r = [[client |-> shut, closes |-> q] EXCEPT !.client.failed = TRUE]
    BY <1>10, <1>r, <1>o
  <2>2. r.client = [shut EXCEPT !.failed = TRUE] /\ r.closes = q
    BY <2>1
  <2>3. server.running
    BY <1>10 DEF Reachable
  <2>4. /\ r.client \in ClientRecords(c) /\ r.client.failed /\ r.client.closed
        /\ r.client.epoch = k.epoch /\ r.client.handles = k.handles
    BY <1>1, <2>2 DEF ClientRecords
  <2> QED
    BY <1>7, <2>2, <2>3, <2>4 DEF ClientOK, r
<1>11. CASE ~k.failed /\ ~Reachable(shut)
  <2>1. r = [[client |-> [shut EXCEPT !.handles = <<>>], closes |-> <<>>] EXCEPT !.client.failed = TRUE]
    BY <1>11, <1>r, <1>o
  <2>2. r.client = [[shut EXCEPT !.handles = <<>>] EXCEPT !.failed = TRUE] /\ r.closes = <<>>
    BY <2>1
  <2>3. ~Reachable(k)
    BY <1>1, <1>11 DEF Reachable
  <2>4. /\ r.client \in ClientRecords(c) /\ r.client.failed /\ r.client.closed
        /\ r.client.epoch = k.epoch /\ r.client.handles = <<>>
    BY <1>1, <1>8, <2>2 DEF ClientRecords
  <2> QED
    BY <2>2, <2>3, <2>4, EmptySequence DEF ClientOK, r
<1> QED
  BY <1>9, <1>10, <1>11 DEF r

\* The steps that change nothing but what the clients and the rx thread see
ServerVars == <<tx, ana, server, aq>>

LEMMA ServerSteps ==
  ASSUME Next
  PROVE  \/ UNCHANGED ServerVars
         \/ AnalyzerAnswers \/ AnalyzerHalts \/ RxPoll
         \/ \E c \in rx.todo : \/ RxEof(c) \/ RejectClient(c)
                               \/ suscli_analyzer_server_process_auth_message(c)
                               \/ DeliverSetting(c) \/ DeliverHalt(c) \/ suscli_analyzer_server_on_open(c)
                               \/ suscli_analyzer_client_intercept_message(c)
         \/ suscli_analyzer_server_on_set_id
         \/ suscli_analyzer_client_list_attempt_cleanup
         \/ suscli_analyzer_server_tx_thread
<1> USE DEF ServerVars
<1>1. ASSUME NEW c \in Clients, Connect(c) \/ Send(c) \/ Disconnect(c) PROVE UNCHANGED ServerVars
  BY <1>1 DEF Connect, Send, Disconnect
<1>2. ASSUME AnalyzerSamples \/ suscli_analyzer_server_register_clients PROVE UNCHANGED ServerVars
  BY <1>2 DEF AnalyzerSamples, suscli_analyzer_server_register_clients
<1>3. ASSUME NEW c \in rx.todo,
             RxSkip(c) \/ RxProtocolError(c) \/ suscli_analyzer_server_on_wrong_handle(c)
      PROVE UNCHANGED ServerVars
  BY <1>3 DEF RxSkip, RxProtocolError, suscli_analyzer_server_on_wrong_handle
<1> QED
  BY <1>1, <1>2, <1>3 DEF Next, suscli_analyzer_server_rx_thread, RxServe

LEMMA ServerInvStep ==
  ASSUME ClientsInv, ListInv, MessageInv, ServerInv, HaltLast, Next
  PROVE  ServerInv'
<1> USE DEF ServerInv, TxPlaces, Running
<1>0. rx.todo \subseteq Clients /\ IsSequence(aq)
  BY DEF ListInv, MessageInv
<1>1. ASSUME UNCHANGED ServerVars PROVE ServerInv'
  BY <1>1 DEF ServerVars
<1>2. ASSUME AnalyzerHalts PROVE ServerInv'
  BY <1>2 DEF AnalyzerHalts
<1>3. ASSUME AnalyzerAnswers PROVE ServerInv'
  <2>1. ana.state = "running" /\ UNCHANGED <<tx, server>>
    BY <1>3 DEF AnalyzerAnswers
  <2>2. \E i : ana' = [ana EXCEPT !.insp = i]
    BY <1>3 DEF AnalyzerAnswers, suscan_local_analyzer_parse_inspector_msg
  <2> QED
    BY <2>1, <2>2
<1>4. ASSUME RxPoll PROVE ServerInv'
  <2>1. UNCHANGED tx
    BY <1>4 DEF RxPoll
  <2>2. CASE server.running /\ server.halted
    <3>1. /\ server' = [server EXCEPT !.running = FALSE] /\ aq' = <<>>
          /\ ana' = [state |-> "none", halt |-> FALSE, insp |-> <<>>]
      BY <1>4, <2>2 DEF RxPoll, suscli_analyzer_server_clean_dead_threads
    <3>2. /\ server' \in [running : BOOLEAN, halted : BOOLEAN] /\ ~server'.running /\ server'.halted
      BY <2>2, <3>1
    <3>3. /\ ana' \in [state : {"none", "running", "halted"}, halt : BOOLEAN, insp : {ana'.insp}]
          /\ ana'.state = "none" /\ ana'.insp = <<>>
      BY <3>1
    <3> QED
      BY <2>1, <2>2, <3>1, <3>2, <3>3
  <2>3. CASE ~(server.running /\ server.halted)
    BY <1>4, <2>1, <2>3 DEF RxPoll, suscli_analyzer_server_clean_dead_threads
  <2> QED
    BY <2>2, <2>3
<1>5. ASSUME NEW c \in rx.todo, suscli_analyzer_server_kick_client(c), UNCHANGED <<tx, ana, server>>
      PROVE  ServerInv'
  <2>1. ClientOK(cl[c], c)
    BY <1>0 DEF ClientsInv
  <2>2. ~server.running => aq' = aq
    BY <1>0, <1>5, <2>1, KickFacts, EmptySequence DEF suscli_analyzer_server_kick_client
  <2> QED
    BY <1>5, <2>2
<1>6. ASSUME NEW c \in rx.todo, RxEof(c) \/ RejectClient(c) PROVE ServerInv'
  BY <1>5, <1>6 DEF RxEof, RejectClient
<1>7. ASSUME NEW c \in rx.todo, suscli_analyzer_server_process_auth_message(c) PROVE ServerInv'
  <2>1. UNCHANGED aq
    BY <1>7 DEF suscli_analyzer_server_process_auth_message
  <2>2. CASE UNCHANGED <<ana, server, tx>>
    BY <2>1, <2>2
  <2>3. CASE suscli_analyzer_server_start_analyzer
    <3>1. /\ ana' = [ana EXCEPT !.state = "running"] /\ ana.state = "none"
          /\ server' = [running |-> TRUE, halted |-> FALSE]
          /\ tx' = [pc |-> "read", msg |-> None]
      BY <2>3 DEF suscli_analyzer_server_start_analyzer
    <3>2. /\ ana' \in [state : {"none", "running", "halted"}, halt : BOOLEAN, insp : {ana'.insp}]
          /\ ana'.state = "running"
      BY <3>1
    <3>3. /\ server' \in [running : BOOLEAN, halted : BOOLEAN] /\ server'.running /\ ~server'.halted
      BY <3>1
    <3>4. tx' \in [pc : TxPlaces, msg : {tx'.msg}] /\ tx'.pc = "read" /\ tx'.msg = None
      BY <3>1
    <3> QED
      BY <2>1, <3>2, <3>3, <3>4
  <2> QED
    BY <1>7, <2>2, <2>3 DEF suscli_analyzer_server_process_auth_message
<1>8. ASSUME NEW c \in rx.todo, DeliverHalt(c) PROVE ServerInv'
  <2>1. CASE suscli_analyzer_server_kick_client(c) /\ UNCHANGED ana
    BY <1>5, <1>8, <2>1 DEF DeliverHalt
  <2>2. CASE suscan_analyzer_req_halt /\ UNCHANGED aq
    BY <1>8, <2>2 DEF DeliverHalt, suscan_analyzer_req_halt
  <2>3. CASE UNCHANGED <<ana, tx, server>> /\ (ana.state = "none" => UNCHANGED aq)
    BY <2>3
  <2> QED
    BY <1>8, <2>1, <2>2, <2>3 DEF DeliverHalt
<1>9. ASSUME UNCHANGED <<tx, ana, server>>, ana.state = "none" => UNCHANGED aq PROVE ServerInv'
  BY <1>9
<1>10. ASSUME NEW c \in rx.todo, \/ DeliverSetting(c) \/ suscli_analyzer_server_on_open(c)
                                \/ suscli_analyzer_client_intercept_message(c)
       PROVE  UNCHANGED <<tx, ana, server>> /\ (ana.state = "none" => UNCHANGED aq)
  BY <1>10 DEF DeliverSetting, suscli_analyzer_server_on_open, Write,
               suscli_analyzer_client_intercept_message
<1>11. ASSUME suscli_analyzer_server_on_set_id
       PROVE  UNCHANGED <<tx, ana, server>> /\ (ana.state = "none" => UNCHANGED aq)
  BY <1>11 DEF suscli_analyzer_server_on_set_id, Write
<1>12. ASSUME suscli_analyzer_client_list_attempt_cleanup PROVE ServerInv'
  BY <1>12 DEF suscli_analyzer_client_list_attempt_cleanup, suscan_analyzer_req_halt
<1>13. ASSUME TxRead PROVE ServerInv'
  <2>1. tx.pc = "read" /\ UNCHANGED <<ana, server, aq>>
    BY <1>13 DEF TxRead
  <2>2. \/ tx' = [tx EXCEPT !.pc = "epoch"] /\ Head(mq) = HALT
        \/ tx' = [pc |-> "lock", msg |-> Head(mq)]
    BY <1>13 DEF TxRead, TxAt
  <2>3. Head(mq) = HALT => ana.state # "running"
    BY <1>13, TailSeq DEF TxRead, HaltLast, MessageInv
  <2> QED
    BY <2>1, <2>2, <2>3
<1>14. ASSUME TxBlocked \/ TxDangling PROVE ServerInv'
  BY <1>14 DEF TxBlocked, TxDangling, TxAt, Broadcast
<1>15. ASSUME tx.msg # None, TxDone, UNCHANGED <<ana, server>> PROVE ServerInv'
  BY <1>15 DEF TxDone
<1>16. ASSUME \/ TxOpenOrphan \/ TxOpen \/ TxClose \/ TxReply \/ TxIgnore
              \/ suscli_analyzer_client_list_broadcast_unsafe
       PROVE  tx.msg # None /\ TxDone /\ UNCHANGED <<ana, server>>
  BY <1>16 DEF TxOpenOrphan, TxOpen, TxClose, TxReply, TxIgnore, Working,
               suscli_analyzer_client_list_broadcast_unsafe
<1>17. ASSUME \/ suscli_analyzer_client_list_increment_epoch
              \/ suscli_analyzer_client_list_force_shutdown \/ TxHalted
       PROVE  ServerInv'
  BY <1>17 DEF suscli_analyzer_client_list_increment_epoch, TxAt,
               suscli_analyzer_client_list_force_shutdown, TxHalted
<1> QED
  BY <1>1, <1>2, <1>3, <1>4, <1>6, <1>7, <1>8, <1>9, <1>10, <1>11, <1>12, <1>13, <1>14, <1>15, <1>16,
     <1>17, ServerSteps DEF suscli_analyzer_server_tx_thread

\* The steps that change nothing of the list
ListVars == <<peer, listed, rx>>

LEMMA ListSteps ==
  ASSUME Next
  PROVE  \/ UNCHANGED ListVars
         \/ \E c \in Clients : Connect(c) \/ Disconnect(c)
         \/ suscli_analyzer_server_rx_thread
<1> USE DEF ListVars
<1>1. ASSUME NEW c \in Clients, Send(c) PROVE UNCHANGED ListVars
  BY <1>1 DEF Send
<1>2. ASSUME AnalyzerAnswers \/ AnalyzerSamples \/ AnalyzerHalts PROVE UNCHANGED ListVars
  BY <1>2 DEF AnalyzerAnswers, AnalyzerSamples, AnalyzerHalts
<1>3. ASSUME suscli_analyzer_server_tx_thread PROVE UNCHANGED ListVars
  BY <1>3 DEF suscli_analyzer_server_tx_thread, TxRead, TxBlocked, TxDangling, TxOpenOrphan, TxOpen, TxClose,
     TxReply, TxIgnore, suscli_analyzer_client_list_broadcast_unsafe,
     suscli_analyzer_client_list_increment_epoch, suscli_analyzer_client_list_force_shutdown, TxHalted
<1> QED
  BY <1>1, <1>2, <1>3 DEF Next

\* Whoever is served is no longer to do, and the thread goes on.
LEMMA ServedFacts ==
  ASSUME ListInv, NEW c \in rx.todo, rx' = Served(c), UNCHANGED <<peer, listed>>
  PROVE  ListInv'
<1> DEFINE left == rx.todo \ {c}
           at == IF left = {} THEN "cleanup" ELSE "clients"
<1>1. rx' = [rx EXCEPT !.pc = at, !.todo = left, !.c = None, !.msg = None]
  BY DEF Served
<1>2. at \in {"clients", "cleanup"} /\ (at = "cleanup" => left = {})
  OBVIOUS
<1>3. left \in SUBSET Clients /\ left \subseteq listed
  BY DEF ListInv
<1> HIDE DEF at, left
<1>4. rx'.pc = at /\ rx'.todo = left
  BY <1>1 DEF ListInv
<1>5. rx' \in [pc : {"poll", "accept", "clients", "set_id", "cleanup", "dead", "crashed"},
              todo : SUBSET Clients, c : {rx'.c}, msg : {rx'.msg}]
  BY <1>1, <1>2, <1>3 DEF ListInv
<1> QED
  BY <1>2, <1>3, <1>4, <1>5 DEF ListInv

\* The rx thread goes somewhere, and has as much to do as before.
LEMMA AtFacts ==
  ASSUME ListInv, NEW pc, UNCHANGED <<peer, listed>>, NEW x, NEW y,
         rx' = [[[rx EXCEPT !.pc = pc] EXCEPT !.c = x] EXCEPT !.msg = y] \/ rx' = At(pc),
         \/ pc \in {"clients", "set_id", "dead", "crashed"}
         \/ pc \in {"poll", "accept", "cleanup"} /\ rx.pc \in {"poll", "accept", "cleanup"}
  PROVE  ListInv'
<1>1. /\ rx'.pc = pc /\ rx'.todo = rx.todo
      /\ rx' \in [pc : {"poll", "accept", "clients", "set_id", "cleanup", "dead", "crashed"},
                  todo : SUBSET Clients, c : {rx'.c}, msg : {rx'.msg}]
  BY DEF ListInv, At
<1> QED
  BY <1>1 DEF ListInv

LEMMA ListInvStep ==
  ASSUME ListInv, MessageInv, Next
  PROVE  ListInv'
<1>1. ASSUME UNCHANGED ListVars PROVE ListInv'
  BY <1>1 DEF ListVars, ListInv
<1>2. ASSUME NEW c \in Clients, Connect(c) \/ Disconnect(c) PROVE ListInv'
  BY <1>2 DEF Connect, Disconnect, ListInv
<1>3. ASSUME RxPoll PROVE ListInv'
  <2>0. UNCHANGED <<peer, listed>> /\ rx.pc = "poll"
    BY <1>3 DEF RxPoll
  <2>1. CASE rx' = At("accept")
    BY <2>0, <2>1, AtFacts
  <2>2. CASE rx' = [At("clients") EXCEPT !.todo = suscli_analyzer_client_list_update_pollfds]
    <3>1. suscli_analyzer_client_list_update_pollfds \subseteq listed
      BY DEF suscli_analyzer_client_list_update_pollfds
    <3> DEFINE p == suscli_analyzer_client_list_update_pollfds
    <3>2. rx' = [[rx EXCEPT !.pc = "clients"] EXCEPT !.todo = p] /\ p \subseteq Clients
      BY <2>2, <3>1 DEF At, ListInv
    <3> HIDE DEF p
    <3>3. /\ rx'.pc = "clients" /\ rx'.todo = p
          /\ rx' \in [pc : {"poll", "accept", "clients", "set_id", "cleanup", "dead", "crashed"},
                      todo : SUBSET Clients, c : {rx'.c}, msg : {rx'.msg}]
      BY <3>2 DEF ListInv
    <3> QED
      BY <2>0, <3>1, <3>3 DEF ListInv, p
  <2> QED
    BY <1>3, <2>1, <2>2 DEF RxPoll
<1>4. ASSUME suscli_analyzer_server_register_clients PROVE ListInv'
  <2>1. PICK cs \in SUBSET Backlog, at \in {"cleanup", "dead"} :
           /\ rx.pc = "accept" /\ rx' = [rx EXCEPT !.pc = at] /\ listed' = listed \cup cs
           /\ peer' = [c \in Clients |-> IF c \in cs THEN "up" ELSE peer[c]]
    BY <1>4 DEF suscli_analyzer_server_register_clients, At,
                suscli_analyzer_client_list_append_client
  <2>2. /\ rx'.pc = at /\ rx'.todo = {} /\ rx.todo = {}
        /\ rx' \in [pc : {"poll", "accept", "clients", "set_id", "cleanup", "dead", "crashed"},
                    todo : SUBSET Clients, c : {rx'.c}, msg : {rx'.msg}]
    BY <2>1 DEF ListInv
  <2>3. Backlog \subseteq Clients
    BY DEF Backlog
  <2> QED
    BY <2>1, <2>2, <2>3 DEF ListInv
<1>5. ASSUME NEW c \in rx.todo, RxSkip(c) \/ RxEof(c) PROVE ListInv'
  BY <1>5, ServedFacts DEF RxSkip, RxEof
<1>6. ASSUME NEW c \in rx.todo, RxServe(c) PROVE ListInv'
  <2>1. UNCHANGED <<peer, listed>>
    BY <1>6 DEF RxServe, suscli_analyzer_server_process_auth_message, RejectClient, RxProtocolError,
       DeliverSetting, DeliverHalt, suscli_analyzer_server_on_open,
       suscli_analyzer_client_intercept_message, suscli_analyzer_server_on_wrong_handle
  <2>2. \/ rx' = Served(c) \/ rx' = At("dead") \/ rx' = At("crashed")
        \/ \E x, y : rx' = [[[rx EXCEPT !.pc = "set_id"] EXCEPT !.c = x] EXCEPT !.msg = y]
    BY <1>6 DEF RxServe, suscli_analyzer_server_process_auth_message, RejectClient, RxProtocolError,
       DeliverSetting, DeliverHalt, suscli_analyzer_server_on_open, Write, At,
       suscli_analyzer_client_intercept_message, suscli_analyzer_server_on_wrong_handle
  <2> QED
    BY <2>1, <2>2, ServedFacts, AtFacts
<1>7. ASSUME suscli_analyzer_server_on_set_id PROVE ListInv'
  <2>1. UNCHANGED <<peer, listed>> /\ rx.pc = "set_id"
        /\ (rx' = Served(rx.c) \/ rx' = At("crashed"))
    BY <1>7 DEF suscli_analyzer_server_on_set_id, Write
  <2>2. CASE rx' = At("crashed")
    BY <2>1, <2>2, AtFacts
  <2>3. CASE rx' = Served(rx.c)
    <3> DEFINE left == rx.todo \ {rx.c}
    <3>1. rx' = [rx EXCEPT !.pc = IF left = {} THEN "cleanup" ELSE "clients", !.todo = left,
                           !.c = None, !.msg = None]
      BY <2>3 DEF Served
    <3>2. /\ rx'.pc = (IF left = {} THEN "cleanup" ELSE "clients") /\ rx'.todo = left
          /\ rx' \in [pc : {"poll", "accept", "clients", "set_id", "cleanup", "dead", "crashed"},
                      todo : SUBSET Clients, c : {rx'.c}, msg : {rx'.msg}]
      BY <3>1 DEF ListInv
    <3> QED
      BY <2>1, <3>2 DEF ListInv
  <2> QED
    BY <2>1, <2>2, <2>3
<1>8. ASSUME suscli_analyzer_client_list_attempt_cleanup PROVE ListInv'
  <2>1. /\ rx.pc = "cleanup" /\ rx' = [rx EXCEPT !.pc = "poll"] /\ UNCHANGED peer
        /\ listed' \subseteq listed
    BY <1>8 DEF suscli_analyzer_client_list_attempt_cleanup, At,
       suscli_analyzer_client_list_cleanup_unsafe, suscli_analyzer_client_list_remove_unsafe
  <2>2. /\ rx'.pc = "poll" /\ rx'.todo = {} /\ rx.todo = {}
        /\ rx' \in [pc : {"poll", "accept", "clients", "set_id", "cleanup", "dead", "crashed"},
                    todo : SUBSET Clients, c : {rx'.c}, msg : {rx'.msg}]
    BY <2>1 DEF ListInv
  <2> QED
    BY <2>1, <2>2 DEF ListInv
<1> QED
  BY <1>1, <1>2, <1>3, <1>4, <1>5, <1>6, <1>7, <1>8, ListSteps DEF suscli_analyzer_server_rx_thread

\* The calls that are answered
Requesting(c) ==
  \/ suscli_analyzer_server_on_open(c) \/ suscli_analyzer_client_intercept_message(c)
  \/ suscli_analyzer_server_on_wrong_handle(c)

\* A request is registered under an identifier of the client that makes it.
LEMMA RequestFacts ==
  ASSUME ListInv, InboxInv, NEW c \in rx.todo, Requesting(c)
  PROVE  /\ c \in Clients /\ c \in listed /\ IsRequest(GlobalId(c)) /\ GlobalId(c)[1] = c
         /\ GlobalId(c) = <<c, Len(calls[c]) + 1>> /\ inbox[c] # None
         /\ inbox' = [inbox EXCEPT ![c] = None]
         /\ UNCHANGED <<peer, listed, calls, cl, itl, epoch, tx, ana, out, known>>
         /\ req' = Put(req, GlobalId(c), [client |-> c, rid |-> GlobalId(c)[2]])
<1>1. c \in Clients /\ c \in listed
  BY DEF ListInv
<1>2. /\ inbox[c] # None /\ inbox' = [inbox EXCEPT ![c] = None]
      /\ req' = Put(req, GlobalId(c), [client |-> c, rid |-> inbox[c].rid])
      /\ UNCHANGED <<peer, listed, calls, cl, itl, epoch, tx, ana, out, known>>
  BY DEF Requesting, suscli_analyzer_server_on_open, suscli_analyzer_client_intercept_message,
     suscli_analyzer_server_on_wrong_handle, Delivering, suscli_analyzer_client_take_call,
     suscli_analyzer_client_read, suscli_analyzer_server_fix_inspector_message, GlobalId,
     suscli_analyzer_client_list_register_request, suscli_analyzer_client_allocate_request
<1>3. inbox[c].rid = Len(calls[c]) + 1 /\ Len(calls[c]) \in Nat
  BY <1>1, <1>2 DEF InboxInv
<1>4. GlobalId(c) = <<c, Len(calls[c]) + 1>>
  BY <1>3 DEF GlobalId, suscli_analyzer_client_list_alloc_global_id
<1>5. IsRequest(GlobalId(c)) /\ GlobalId(c)[1] = c /\ GlobalId(c)[2] = inbox[c].rid
  BY <1>1, <1>3, <1>4 DEF IsRequest
<1> QED
  BY <1>1, <1>2, <1>4, <1>5

\* Only the calls change what is to be said, and only the rx thread takes what was.
InboxVars == <<inbox, calls>>
LEMMA InboxSteps ==
  ASSUME ListInv, Next
  PROVE  \/ UNCHANGED InboxVars
         \/ \E c \in Clients : Send(c)
         \/ \E c \in Clients : inbox' = [inbox EXCEPT ![c] = None] /\ UNCHANGED calls
<1> USE DEF InboxVars
<1>1. rx.todo \subseteq Clients
  BY DEF ListInv
<1>2. ASSUME NEW c \in Clients, Connect(c) \/ Disconnect(c) PROVE UNCHANGED InboxVars
  BY <1>2 DEF Connect, Disconnect
<1>3. ASSUME AnalyzerAnswers \/ AnalyzerSamples \/ AnalyzerHalts PROVE UNCHANGED InboxVars
  BY <1>3 DEF AnalyzerAnswers, AnalyzerSamples, AnalyzerHalts
<1>4. ASSUME suscli_analyzer_server_tx_thread PROVE UNCHANGED InboxVars
  BY <1>4 DEF suscli_analyzer_server_tx_thread, TxRead, TxBlocked, TxDangling, TxOpenOrphan, TxOpen, TxClose,
     TxReply, TxIgnore, suscli_analyzer_client_list_broadcast_unsafe,
     suscli_analyzer_client_list_increment_epoch, suscli_analyzer_client_list_force_shutdown, TxHalted
<1>5. ASSUME NEW c \in rx.todo, RxServe(c)
      PROVE  inbox' = [inbox EXCEPT ![c] = None] /\ UNCHANGED calls
  BY <1>5 DEF RxServe, suscli_analyzer_server_process_auth_message, RejectClient, RxProtocolError,
     DeliverSetting, DeliverHalt, suscli_analyzer_server_on_open, suscli_analyzer_client_take_call,
     suscli_analyzer_client_intercept_message, suscli_analyzer_server_on_wrong_handle, Delivering
<1>6. ASSUME NEW c \in rx.todo, RxSkip(c) \/ RxEof(c) PROVE UNCHANGED InboxVars
  BY <1>6 DEF RxSkip, RxEof
<1>7. ASSUME \/ RxPoll \/ suscli_analyzer_server_register_clients \/ suscli_analyzer_server_on_set_id
             \/ suscli_analyzer_client_list_attempt_cleanup
      PROVE  UNCHANGED InboxVars
  BY <1>7 DEF RxPoll, suscli_analyzer_server_register_clients, suscli_analyzer_server_on_set_id,
     suscli_analyzer_client_list_attempt_cleanup
<1> QED
  BY <1>1, <1>2, <1>3, <1>4, <1>5, <1>6, <1>7 DEF Next, suscli_analyzer_server_rx_thread

LEMMA SendFacts ==
  ASSUME InboxInv, NEW c \in Clients, Send(c)
  PROVE  /\ \E k : /\ inbox' = [inbox EXCEPT ![c] = k]
                   /\ k.kind \in CallKinds /\ k.rid = Len(calls[c])
         /\ calls' = [calls EXCEPT ![c] = Tail(calls[c])] /\ calls[c] # <<>> /\ inbox[c] = None
         /\ Len(Tail(calls[c])) + 1 = Len(calls[c]) /\ Len(calls[c]) \in Nat
         /\ Tail(calls[c]) \in Seq(SUBSET CallKinds)
<1>1. calls[c] \in Seq(SUBSET CallKinds) /\ calls[c] # <<>> /\ inbox[c] = None
  BY DEF InboxInv, Send
<1>2. Head(calls[c]) \in SUBSET CallKinds
  BY <1>1
<1>3. PICK k \in CallsOf(c) : inbox' = [inbox EXCEPT ![c] = k]
  BY DEF Send
<1>4. k \in [kind : Head(calls[c]), handle : known[c] \cup {NoHandle}, rid : {Len(calls[c])}]
  BY <1>3 DEF CallsOf
<1>5. k.kind \in CallKinds /\ k.rid = Len(calls[c])
  BY <1>2, <1>4
<1>6. calls' = [calls EXCEPT ![c] = Tail(calls[c])]
  BY DEF Send
<1>7. /\ Len(Tail(calls[c])) + 1 = Len(calls[c]) /\ Len(calls[c]) \in Nat
      /\ Tail(calls[c]) \in Seq(SUBSET CallKinds)
  BY <1>1
<1> QED
  BY <1>1, <1>3, <1>5, <1>6, <1>7

LEMMA InboxInvStep ==
  ASSUME ListInv, InboxInv, Next
  PROVE  InboxInv'
<1>1. ASSUME UNCHANGED InboxVars PROVE InboxInv'
  BY <1>1 DEF InboxVars, InboxInv
<1>2. ASSUME NEW c \in Clients, inbox' = [inbox EXCEPT ![c] = None], UNCHANGED calls PROVE InboxInv'
  BY <1>2 DEF InboxInv
<1>3. ASSUME NEW c \in Clients, Send(c) PROVE InboxInv'
  <2>1. PICK k : inbox' = [inbox EXCEPT ![c] = k] /\ k.kind \in CallKinds /\ k.rid = Len(calls[c])
    BY <1>3, SendFacts
  <2> DEFINE t == Tail(calls[c])
  <2>2. calls' = [calls EXCEPT ![c] = t] /\ Len(t) + 1 = Len(calls[c]) /\ t \in Seq(SUBSET CallKinds)
    BY <1>3, SendFacts
  <2> HIDE DEF t
  <2>3. inbox'[c] = k /\ calls'[c] = t
    BY <2>1, <2>2 DEF InboxInv
  <2>4. \A d \in Clients \ {c} : inbox'[d] = inbox[d] /\ calls'[d] = calls[d]
    BY <2>1, <2>2
  <2>5. DOMAIN inbox' = Clients /\ DOMAIN calls' = Clients
    BY <2>1, <2>2 DEF InboxInv
  <2> QED
    BY <2>1, <2>2, <2>3, <2>4, <2>5 DEF InboxInv
<1> QED
  BY <1>1, <1>2, <1>3, InboxSteps

\* What leaves the tables, and what comes in
LEMMA ReqSteps ==
  ASSUME Next
  PROVE  \/ UNCHANGED <<req, listed>>
         \/ suscli_analyzer_server_register_clients
         \/ \E c \in rx.todo : Requesting(c)
         \/ suscli_analyzer_client_list_attempt_cleanup
         \/ /\ TxOpen \/ TxClose \/ TxReply \/ TxIgnore
            /\ req' = Forget(req, tx.msg.req) /\ UNCHANGED listed
<1>1. ASSUME NEW c \in Clients, Connect(c) \/ Disconnect(c) \/ Send(c) PROVE UNCHANGED <<req, listed>>
  BY <1>1 DEF Connect, Disconnect, Send
<1>2. ASSUME AnalyzerAnswers \/ AnalyzerSamples \/ AnalyzerHalts PROVE UNCHANGED <<req, listed>>
  BY <1>2 DEF AnalyzerAnswers, AnalyzerSamples, AnalyzerHalts
<1>3. ASSUME \/ TxRead \/ TxBlocked \/ TxDangling \/ TxOpenOrphan \/ suscli_analyzer_client_list_broadcast_unsafe
             \/ suscli_analyzer_client_list_increment_epoch
             \/ suscli_analyzer_client_list_force_shutdown \/ TxHalted
      PROVE  UNCHANGED <<req, listed>>
  BY <1>3 DEF TxRead, TxBlocked, TxDangling, TxOpenOrphan, suscli_analyzer_client_list_broadcast_unsafe,
     suscli_analyzer_client_list_increment_epoch, suscli_analyzer_client_list_force_shutdown, TxHalted
<1>4. ASSUME TxOpen \/ TxClose \/ TxReply \/ TxIgnore
      PROVE  req' = Forget(req, tx.msg.req) /\ UNCHANGED listed
  BY <1>4 DEF TxOpen, TxClose, TxReply, TxIgnore, suscli_analyzer_client_list_unregister_request_unsafe
<1>5. ASSUME NEW c \in rx.todo,
             \/ suscli_analyzer_server_process_auth_message(c) \/ RejectClient(c) \/ RxProtocolError(c)
             \/ DeliverSetting(c) \/ DeliverHalt(c) \/ RxSkip(c) \/ RxEof(c)
      PROVE  UNCHANGED <<req, listed>>
  BY <1>5 DEF suscli_analyzer_server_process_auth_message, RejectClient, RxProtocolError,
     DeliverSetting, DeliverHalt, RxSkip, RxEof
<1>6. ASSUME RxPoll \/ suscli_analyzer_server_on_set_id PROVE UNCHANGED <<req, listed>>
  BY <1>6 DEF RxPoll, suscli_analyzer_server_on_set_id
<1> QED
  BY <1>1, <1>2, <1>3, <1>4, <1>5, <1>6 DEF Next, suscli_analyzer_server_rx_thread,
     suscli_analyzer_server_tx_thread, RxServe, Requesting

LEMMA CleanupFacts ==
  ASSUME suscli_analyzer_client_list_attempt_cleanup
  PROVE  /\ \/ UNCHANGED <<listed, req>>
            \/ /\ listed' = listed \ {c \in Clients : Removable(c)}
               /\ DOMAIN req' = {g \in DOMAIN req : req[g].client \notin {c \in Clients : Removable(c)}}
               /\ \A g \in DOMAIN req' : req'[g] = req[g]
         /\ UNCHANGED <<cl, epoch, itl, tx, aq, mq, peer, inbox, calls, known, out>>
         /\ ana' = [ana EXCEPT !.halt = ana'.halt] \/ ana' = ana
         /\ rx' = At("poll") /\ rx.pc = "cleanup"
  BY DEF suscli_analyzer_client_list_attempt_cleanup, suscli_analyzer_client_list_cleanup_unsafe,
     suscli_analyzer_client_list_remove_unsafe, suscan_analyzer_req_halt,
     suscli_analyzer_client_walk_requests_unsafe

LEMMA ReqInvStep ==
  ASSUME ListInv, InboxInv, ReqInv, Next
  PROVE  ReqInv'
<1>1. ASSUME UNCHANGED <<req, listed>> PROVE ReqInv'
  BY <1>1 DEF ReqInv
<1>2. ASSUME suscli_analyzer_server_register_clients PROVE ReqInv'
  BY <1>2 DEF suscli_analyzer_server_register_clients, suscli_analyzer_client_list_append_client,
     ReqInv
<1>3. ASSUME NEW c \in rx.todo, Requesting(c) PROVE ReqInv'
  <2> DEFINE g == GlobalId(c)
             e == [client |-> c, rid |-> g[2]]
  <2>1. /\ IsRequest(g) /\ g[1] = c /\ c \in listed /\ req' = Put(req, g, e) /\ UNCHANGED listed
    BY <1>3, RequestFacts
  <2>2. e = [client |-> g[1], rid |-> g[2]]
    BY <2>1
  <2> HIDE DEF g, e
  <2>3. /\ DOMAIN req' = DOMAIN req \cup {g} /\ req'[g] = e
        /\ \A x \in DOMAIN req : x # g => req'[x] = req[x]
    BY <2>1 DEF Put
  <2> QED
    BY <2>1, <2>2, <2>3 DEF ReqInv
<1>4. ASSUME suscli_analyzer_client_list_attempt_cleanup PROVE ReqInv'
  <2>1. CASE UNCHANGED <<req, listed>>
    BY <1>1, <2>1
  <2>2. ASSUME listed' = listed \ {c \in Clients : Removable(c)},
               DOMAIN req' = {g \in DOMAIN req : req[g].client \notin {c \in Clients : Removable(c)}},
               \A g \in DOMAIN req' : req'[g] = req[g]
        PROVE  ReqInv'
    <3>1. \A g \in DOMAIN req' : req[g].client = g[1]
      BY <2>2 DEF ReqInv
    <3> QED
      BY <2>2, <3>1 DEF ReqInv
  <2> QED
    BY <1>4, <2>1, <2>2, CleanupFacts
<1>5. ASSUME req' = Forget(req, tx.msg.req), UNCHANGED listed PROVE ReqInv'
  BY <1>5 DEF ReqInv, Forget
<1> QED
  BY <1>1, <1>2, <1>3, <1>4, <1>5, ReqSteps

\* The client that a message is for has asked, or has the inspector.
LEMMA RecipientFacts ==
  ASSUME ReqInv, ItlInv, NEW m, Recipient(m) # None
  PROVE  /\ Recipient(m) \in Clients
         /\ m.kind \in ByRequest => /\ m.req \in DOMAIN req /\ Recipient(m) = m.req[1]
                                    /\ IsRequest(m.req) /\ m.req[1] \in listed
         /\ m.kind \notin ByRequest => /\ m.id \in DOMAIN itl /\ Recipient(m) = itl[m.id].client
                                       /\ Recipient(m) = m.id.of[1]
  BY DevServAssumption DEF Recipient, suscli_analyzer_server_translate_insp_message,
     suscli_analyzer_client_list_get_itl_entry_unsafe, ReqInv, ItlInv, IsRequest

\* A message of the analyzer that goes to its client
OpenPriv(m) == Handle("priv", m.req)
OpenEntry(m) ==
  [client |-> m.req[1], priv |-> OpenPriv(m), local |-> 0, late |-> cl[m.req[1]].epoch # epoch]
Registered(k, m) ==
  [k EXCEPT !.handles = Put(@, OpenPriv(m), [glob |-> m.glob, itl |-> OpenId(m)])]
Disposed(k, p) == [k EXCEPT !.handles = Forget(@, p)]

LEMMA TxOpenFacts ==
  ASSUME ListInv, ReqInv, ItlInv, MessageInv, TxOpen
  PROVE  LET m == tx.msg
             c == m.req[1]
         IN /\ m # None /\ MqOK(m, Accepted) /\ m.kind = "open" /\ IsRequest(m.req)
            /\ m.glob = Handle("glob", m.req)
            /\ c \in Clients /\ c \in listed /\ m.req \in DOMAIN req /\ c = Recipient(m)
            /\ itl' = Put(itl, OpenId(m), OpenEntry(m))
            /\ TxPush(c, Registered(cl[c], m), m, <<Msg("set_id", IdReq, m.glob, OpenId(m))>>)
            /\ req' = Forget(req, m.req) /\ TxDone
            /\ UNCHANGED <<peer, inbox, calls, listed, epoch, im, rx, server, ana, mq>>
<1> DEFINE m == tx.msg
           c == Recipient(m)
<1>1. /\ m # None /\ m.kind = "open" /\ c \in listed /\ TxDone
      /\ itl' = Put(itl, OpenId(m), [client |-> c, priv |-> OpenPriv(m), local |-> 0,
                                    late |-> cl[c].epoch # epoch])
      /\ TxPush(c, Registered(cl[c], m), m, <<Msg("set_id", IdReq, m.glob, OpenId(m))>>)
      /\ req' = Forget(req, m.req)
      /\ UNCHANGED <<peer, inbox, calls, listed, epoch, im, rx, server, ana, mq>>
  BY DEF TxOpen, Working, suscli_analyzer_client_list_alloc_itl_entry_unsafe, OpenId, OpenPriv,
     Registered, suscli_analyzer_client_register_inspector_handle,
     suscli_analyzer_client_list_unregister_request_unsafe
<1>2. MqOK(m, Accepted) /\ m.glob = Handle("glob", m.req)
  BY <1>1 DEF MessageInv, MqOK
<1>3. m.req \in DOMAIN req /\ c = m.req[1] /\ IsRequest(m.req) /\ c \in listed /\ c \in Clients
  BY <1>1, RecipientFacts, DevServAssumption DEF ByRequest, ListInv
<1> QED
  BY <1>1, <1>2, <1>3 DEF OpenEntry

LEMMA TxCloseFacts ==
  ASSUME ListInv, ReqInv, ItlInv, MessageInv, TxClose
  PROVE  LET m == tx.msg
             c == itl[m.id].client
         IN /\ m # None /\ MqOK(m, Accepted) /\ m.kind = "close" /\ c = Recipient(m)
            /\ m.id \in DOMAIN itl /\ c \in Clients
            /\ itl' = Forget(itl, m.id)
            /\ TxPush(c, Disposed(cl[c], itl[m.id].priv), m, <<>>)
            /\ req' = Forget(req, m.req) /\ TxDone
            /\ UNCHANGED <<peer, inbox, calls, listed, epoch, im, rx, server, ana, mq>>
<1> DEFINE m == tx.msg
           c == Recipient(m)
<1>1. /\ m # None /\ m.kind = "close" /\ c \in listed /\ TxDone
      /\ itl' = Forget(itl, m.id) /\ req' = Forget(req, m.req)
      /\ TxPush(c, Disposed(cl[c], itl[m.id].priv), m, <<>>)
      /\ UNCHANGED <<peer, inbox, calls, listed, epoch, im, rx, server, ana, mq>>
  BY DEF TxClose, Working, suscli_analyzer_client_list_dispose_itl_entry_unsafe, Disposed,
     suscli_analyzer_client_dispose_inspector_handle,
     suscli_analyzer_client_list_unregister_request_unsafe
<1>2. MqOK(m, Accepted)
  BY <1>1 DEF MessageInv
<1>3. m.id \in DOMAIN itl /\ c = itl[m.id].client /\ c \in Clients
  BY <1>1, RecipientFacts, DevServAssumption DEF ByRequest, ListInv
<1> QED
  BY <1>1, <1>2, <1>3

LEMMA TxReplyFacts ==
  ASSUME ListInv, ReqInv, ItlInv, MessageInv, TxReply
  PROVE  LET m == tx.msg
             c == Recipient(m)
         IN /\ m # None /\ MqOK(m, Accepted) /\ m.kind \notin {"open", "close", "info"}
            /\ c \in Clients /\ TxPush(c, cl[c], m, <<>>)
            /\ req' = Forget(req, m.req) /\ TxDone
            /\ UNCHANGED <<peer, inbox, calls, itl, listed, epoch, im, rx, server, ana, mq>>
<1> DEFINE m == tx.msg
           c == Recipient(m)
<1>1. /\ m # None /\ m.kind \notin {"open", "close", "info"} /\ c \in listed /\ TxDone
      /\ TxPush(c, cl[c], m, <<>>) /\ req' = Forget(req, m.req)
      /\ UNCHANGED <<peer, inbox, calls, itl, listed, epoch, im, rx, server, ana, mq>>
  BY DEF TxReply, Working, suscli_analyzer_client_list_unregister_request_unsafe
<1>2. MqOK(m, Accepted)
  BY <1>1 DEF MessageInv
<1>3. c \in Clients
  BY <1>1, RecipientFacts, DevServAssumption DEF ListInv
<1> QED
  BY <1>1, <1>2, <1>3

LEMMA ItlSteps ==
  ASSUME Next
  PROVE  UNCHANGED itl \/ suscli_analyzer_server_on_set_id \/ TxOpen \/ TxClose
<1>1. ASSUME NEW c \in Clients, Connect(c) \/ Disconnect(c) \/ Send(c) PROVE UNCHANGED itl
  BY <1>1 DEF Connect, Disconnect, Send
<1>2. ASSUME AnalyzerAnswers \/ AnalyzerSamples \/ AnalyzerHalts PROVE UNCHANGED itl
  BY <1>2 DEF AnalyzerAnswers, AnalyzerSamples, AnalyzerHalts
<1>3. ASSUME \/ TxRead \/ TxBlocked \/ TxDangling \/ TxOpenOrphan \/ suscli_analyzer_client_list_broadcast_unsafe
             \/ suscli_analyzer_client_list_increment_epoch \/ TxReply \/ TxIgnore
             \/ suscli_analyzer_client_list_force_shutdown \/ TxHalted
      PROVE  UNCHANGED itl
  BY <1>3 DEF TxRead, TxBlocked, TxDangling, TxOpenOrphan, suscli_analyzer_client_list_broadcast_unsafe, TxReply,
     TxIgnore, suscli_analyzer_client_list_increment_epoch,
     suscli_analyzer_client_list_force_shutdown, TxHalted
<1>5. ASSUME NEW c \in rx.todo, RxServe(c) PROVE UNCHANGED itl
  BY <1>5 DEF RxServe, suscli_analyzer_server_process_auth_message, RejectClient, RxProtocolError,
     DeliverSetting, DeliverHalt, suscli_analyzer_server_on_open,
     suscli_analyzer_client_intercept_message, suscli_analyzer_server_on_wrong_handle
<1>6. ASSUME NEW c \in rx.todo, RxSkip(c) \/ RxEof(c) PROVE UNCHANGED itl
  BY <1>6 DEF RxSkip, RxEof
<1>7. ASSUME \/ RxPoll \/ suscli_analyzer_server_register_clients
             \/ suscli_analyzer_client_list_attempt_cleanup
      PROVE  UNCHANGED itl
  BY <1>7 DEF RxPoll, suscli_analyzer_server_register_clients,
     suscli_analyzer_client_list_attempt_cleanup
<1> QED
  BY <1>1, <1>2, <1>3, <1>5, <1>6, <1>7 DEF Next, suscli_analyzer_server_rx_thread,
     suscli_analyzer_server_tx_thread

\* An entry keeps its client and its private handle.
LEMMA SetIdFacts ==
  ASSUME ItlInv, suscli_analyzer_server_on_set_id
  PROVE  /\ DOMAIN itl' = DOMAIN itl
         /\ \A i \in DOMAIN itl : /\ itl'[i].client = itl[i].client /\ itl'[i].priv = itl[i].priv
                                   /\ itl'[i].late = itl[i].late
         /\ \A i \in DOMAIN itl :
              itl'[i] = [client |-> itl[i].client, priv |-> itl[i].priv, local |-> itl'[i].local,
                         late |-> itl[i].late]
<1>1. CASE UNCHANGED itl
  BY <1>1 DEF ItlInv
<1>2. ASSUME itl' = [itl EXCEPT ![rx.msg.id].local = rx.msg.req[2]]
      PROVE  /\ DOMAIN itl' = DOMAIN itl
             /\ \A i \in DOMAIN itl :
                  itl'[i] = [client |-> itl[i].client, priv |-> itl[i].priv, local |-> itl'[i].local,
                             late |-> itl[i].late]
  <2>1. \A i \in DOMAIN itl :
          itl[i] = [client |-> itl[i].client, priv |-> itl[i].priv, local |-> itl[i].local,
                    late |-> itl[i].late]
    BY DEF ItlInv
  <2> QED
    BY <1>2, <2>1
<1>3. UNCHANGED itl \/ itl' = [itl EXCEPT ![rx.msg.id].local = rx.msg.req[2]]
  BY DEF suscli_analyzer_server_on_set_id, suscli_analyzer_client_list_set_inspector_id_unsafe
<1>4. /\ DOMAIN itl' = DOMAIN itl
      /\ \A i \in DOMAIN itl :
           itl'[i] = [client |-> itl[i].client, priv |-> itl[i].priv, local |-> itl'[i].local,
                      late |-> itl[i].late]
  BY <1>1, <1>2, <1>3
<1>5. ASSUME NEW i \in DOMAIN itl
      PROVE  /\ itl'[i].client = itl[i].client /\ itl'[i].priv = itl[i].priv
             /\ itl'[i].late = itl[i].late
  <2> DEFINE c == itl[i].client
             p == itl[i].priv
             n == itl'[i].local
             l == itl[i].late
             e == itl'[i]
  <2>1. e = [client |-> c, priv |-> p, local |-> n, late |-> l]
    BY <1>4
  <2> HIDE DEF c, p, n, l, e
  <2>2. e.client = c /\ e.priv = p /\ e.late = l
    BY <2>1
  <2> QED
    BY <2>2 DEF c, p, l, e
<1> QED
  BY <1>4, <1>5

LEMMA ItlInvStep ==
  ASSUME ListInv, ReqInv, ItlInv, MessageInv, Next
  PROVE  ItlInv'
<1>1. ASSUME UNCHANGED itl PROVE ItlInv'
  BY <1>1 DEF ItlInv
<1>2. ASSUME suscli_analyzer_server_on_set_id PROVE ItlInv'
  <2>1. \A i \in DOMAIN itl : itl[i].client = i.of[1] /\ itl[i].priv = Handle("priv", i.of)
    BY DEF ItlInv
  <2>2. /\ DOMAIN itl' = DOMAIN itl
        /\ \A i \in DOMAIN itl :
             itl'[i] = [client |-> itl[i].client, priv |-> itl[i].priv, local |-> itl'[i].local,
                        late |-> itl[i].late]
    BY <1>2, SetIdFacts
  <2>3. \A i \in DOMAIN itl : i = Handle("itl", i.of) /\ IsRequest(i.of)
    BY DEF ItlInv
  <2> SUFFICES ASSUME NEW i \in DOMAIN itl, NEW e, e = itl'[i], NEW l, l = itl[i].late
               PROVE  e = [client |-> i.of[1], priv |-> Handle("priv", i.of), local |-> e.local,
                           late |-> e.late]
    BY <2>2, <2>3, Zenon DEF ItlInv
  <2>4. e = [client |-> i.of[1], priv |-> Handle("priv", i.of), local |-> e.local, late |-> l]
    BY <2>1, <2>2
  <2> QED
    BY <2>4
<1>3. ASSUME TxOpen PROVE ItlInv'
  <2> DEFINE r == tx.msg.req
  <2>1. itl' = Put(itl, Handle("itl", r), OpenEntry(tx.msg)) /\ IsRequest(r)
    BY <1>3, TxOpenFacts DEF OpenId
  <2> DEFINE e == OpenEntry(tx.msg)
  <2>2. e = [client |-> r[1], priv |-> Handle("priv", r), local |-> e.local, late |-> e.late]
    BY DEF OpenEntry, OpenPriv
  <2>3. Handle("itl", r).of = r
    BY DEF Handle
  <2> HIDE DEF r, e
  <2>4. /\ DOMAIN itl' = DOMAIN itl \cup {Handle("itl", r)}
        /\ itl'[Handle("itl", r)] = e
        /\ \A i \in DOMAIN itl : i # Handle("itl", r) => itl'[i] = itl[i]
    BY <2>1 DEF Put, e
  <2> QED
    BY <2>1, <2>2, <2>3, <2>4 DEF ItlInv
<1>4. ASSUME TxClose PROVE ItlInv'
  <2>1. itl' = Forget(itl, tx.msg.id)
    BY <1>4, TxCloseFacts
  <2> QED
    BY <2>1 DEF Forget, ItlInv
<1> QED
  BY <1>1, <1>2, <1>3, <1>4, ItlSteps

\* What a step leaves of client d
Keeps(d) ==
  /\ ClientOK(cl'[d], d) /\ cl'[d].epoch = cl[d].epoch /\ (cl[d].closed => cl'[d].closed)
SameHandles(d) == cl'[d].handles = cl[d].handles \/ (~Reachable(cl[d]) /\ cl'[d].handles = <<>>)
Others(c) == DOMAIN cl' = Clients /\ \A d \in Clients \ {c} : cl'[d] = cl[d]
Closes(s) == IsSequence(s) /\ \A m \in ToSet(s) : IsClose(m)

LEMMA KickStep ==
  ASSUME ClientsInv, NEW c \in Clients, suscli_analyzer_server_kick_client(c)
  PROVE  /\ Others(c) /\ Keeps(c) /\ SameHandles(c)
         /\ \E t : Closes(t) /\ aq' = aq \o t
<1> DEFINE r == suscli_analyzer_server_kick_client_unsafe(cl[c])
<1>1. ClientOK(cl[c], c) /\ DOMAIN cl = Clients
  BY DEF ClientsInv
<1>2. /\ ClientOK(r.client, c) /\ r.client.epoch = cl[c].epoch /\ r.client.closed
      /\ r.client.handles = cl[c].handles \/ (~Reachable(cl[c]) /\ r.client.handles = <<>>)
      /\ Closes(r.closes)
  BY <1>1, KickFacts DEF Closes
<1>3. cl' = [cl EXCEPT ![c] = r.client] /\ aq' = aq \o r.closes
  BY DEF suscli_analyzer_server_kick_client
<1> HIDE DEF r
<1>4. cl'[c] = r.client /\ Others(c)
  BY <1>1, <1>3 DEF Others
<1> QED
  BY <1>2, <1>3, <1>4 DEF Keeps, SameHandles

LEMMA PushFacts ==
  ASSUME ClientsInv, NEW c \in Clients, NEW k, ClientOK(k, c), NEW m, NEW asked, IsSequence(asked),
         IsSequence(aq), TxPush(c, k, m, asked)
  PROVE  /\ Others(c) /\ ClientOK(cl'[c], c) /\ cl'[c].epoch = k.epoch /\ (k.closed => cl'[c].closed)
         /\ cl'[c].handles = k.handles \/ (~Reachable(k) /\ cl'[c].handles = <<>>)
         /\ \E t : Closes(t) /\ aq' = (aq \o asked) \o t
         /\ out' = out \/ out' = {Pushed(c, m)}
         /\ UNCHANGED known \/ (m.kind = "open" /\ known' = [known EXCEPT ![c] = @ \cup {OpenPriv(m)}])
<1> DEFINE r == suscli_analyzer_server_kick_client_unsafe(k)
<1>1. DOMAIN cl = Clients
  BY DEF ClientsInv
<1>2. /\ ClientOK(r.client, c) /\ r.client.epoch = k.epoch /\ r.client.closed
      /\ r.client.handles = k.handles \/ (~Reachable(k) /\ r.client.handles = <<>>)
      /\ Closes(r.closes)
  BY <1>1, KickFacts DEF Closes
<1>3. IsSequence(aq \o asked)
  BY ConcatSeq
<1>4. Closes(<<>>) /\ aq \o asked = (aq \o asked) \o <<>>
  BY <1>3, EmptySequence DEF Closes
<1>5. \/ cl' = [cl EXCEPT ![c] = k] /\ aq' = aq \o asked
      \/ cl' = [cl EXCEPT ![c] = r.client] /\ aq' = aq \o asked \o r.closes
  BY DEF TxPush
<1>6. /\ out' = out \/ out' = {Pushed(c, m)}
      /\ UNCHANGED known \/ (m.kind = "open" /\ known' = [known EXCEPT ![c] = @ \cup {OpenPriv(m)}])
  BY DEF TxPush, OpenPriv
<1> HIDE DEF r
<1>7. \E t : Closes(t) /\ aq' = (aq \o asked) \o t
  BY <1>2, <1>4, <1>5
<1>8. cl'[c] \in {k, r.client} /\ Others(c)
  BY <1>1, <1>5 DEF Others
<1> QED
  BY <1>2, <1>6, <1>7, <1>8

LEMMA RegisteredOK ==
  ASSUME ClientsInv, NEW m, IsRequest(m.req), m.glob = Handle("glob", m.req)
  PROVE  LET c == m.req[1]
             k == Registered(cl[c], m)
         IN /\ ClientOK(k, c) /\ k.epoch = cl[c].epoch /\ k.closed = cl[c].closed
            /\ DOMAIN k.handles = DOMAIN cl[c].handles \cup {OpenPriv(m)}
<1> DEFINE c == m.req[1]
           f == cl[c].handles
           p == OpenPriv(m)
           g == Put(f, p, Entry(p))
<1>1. c \in Clients /\ ClientOK(cl[c], c)
  BY DEF IsRequest, ClientsInv
<1>2. HandlesOK(f, c)
  BY <1>1, HandleMapsFacts DEF ClientOK, ClientRecords
<1>3. p.of = m.req /\ PrivateTo(p, c)
  BY DEF OpenPriv, Handle, PrivateTo
<1>4. [glob |-> m.glob, itl |-> OpenId(m)] = Entry(p)
  BY <1>3 DEF Entry, OpenId
<1> HIDE DEF p
<1>5. DOMAIN g = DOMAIN f \cup {p} /\ g = [x \in DOMAIN f \cup {p} |-> Entry(x)]
  BY <1>2 DEF HandlesOK, Put
<1>6. IsFiniteSet(DOMAIN f \cup {p})
  BY <1>2, FS_AddElement DEF HandlesOK
<1>7. HandlesOK(g, c)
  BY <1>2, <1>3, <1>5, <1>6 DEF HandlesOK
<1>8. g \in HandleMaps(c)
  BY <1>7, HandleMapsFacts
<1>9. Registered(cl[c], m) = [cl[c] EXCEPT !.handles = g]
  BY <1>4 DEF Registered, p
<1> HIDE DEF g
<1> QED
  BY <1>1, <1>5, <1>8, <1>9 DEF ClientOK, ClientRecords, p

LEMMA DisposedOK ==
  ASSUME ClientsInv, NEW c \in Clients, NEW p
  PROVE  LET k == Disposed(cl[c], p) IN
         /\ ClientOK(k, c) /\ k.epoch = cl[c].epoch /\ k.closed = cl[c].closed
         /\ DOMAIN k.handles = DOMAIN cl[c].handles \ {p}
<1> DEFINE f == cl[c].handles
           g == Forget(f, p)
<1>1. ClientOK(cl[c], c)
  BY DEF ClientsInv
<1>2. HandlesOK(f, c)
  BY <1>1, HandleMapsFacts DEF ClientOK, ClientRecords
<1>3. DOMAIN g = DOMAIN f \ {p} /\ g = [x \in DOMAIN f \ {p} |-> Entry(x)]
  BY <1>2 DEF HandlesOK, Forget
<1>4. IsFiniteSet(DOMAIN f \ {p})
  BY <1>2, FS_RemoveElement DEF HandlesOK
<1>5. HandlesOK(g, c)
  BY <1>2, <1>3, <1>4 DEF HandlesOK
<1>6. g \in HandleMaps(c)
  BY <1>5, HandleMapsFacts
<1>7. Disposed(cl[c], p) = [cl[c] EXCEPT !.handles = g]
  BY DEF Disposed
<1> HIDE DEF g
<1> QED
  BY <1>1, <1>3, <1>6, <1>7 DEF ClientOK, ClientRecords

\* The steps of the tx thread on a message for a client
LEMMA PushSteps ==
  ASSUME ClientsInv, ListInv, ReqInv, ItlInv, MessageInv, TxOpen \/ TxClose \/ TxReply
  PROVE  LET c == Recipient(tx.msg) IN
         /\ c \in Clients /\ Others(c) /\ Keeps(c)
         /\ TxOpen => /\ \/ DOMAIN cl'[c].handles = DOMAIN cl[c].handles \cup {OpenPriv(tx.msg)}
                         \/ ~Reachable(cl[c])
                      /\ \E t : /\ Closes(t)
                                /\ aq' = (aq \o <<Msg("set_id", IdReq, tx.msg.glob, OpenId(tx.msg))>>)
                                           \o t
         /\ TxClose => \/ DOMAIN cl'[c].handles = DOMAIN cl[c].handles \ {itl[tx.msg.id].priv}
                       \/ ~Reachable(cl[c])
         /\ TxReply => SameHandles(c)
         /\ TxClose \/ TxReply => \E t : Closes(t) /\ aq' = aq \o t
         /\ out' = out \/ out' = {Pushed(c, tx.msg)}
<1> DEFINE m == tx.msg
           c == Recipient(m)
<1>0. IsSequence(aq) /\ aq \o <<>> = aq /\ IsSequence(<<>>)
  BY EmptySequence DEF MessageInv
<1>1. CASE TxOpen
  <2> DEFINE k == Registered(cl[c], m)
             a == <<Msg("set_id", IdReq, m.glob, OpenId(m))>>
  <2>1. /\ c = m.req[1] /\ c \in Clients /\ IsRequest(m.req) /\ m.glob = Handle("glob", m.req)
        /\ TxPush(c, k, m, a) /\ m.kind = "open"
    BY <1>1, TxOpenFacts
  <2>2. /\ ClientOK(k, c) /\ k.epoch = cl[c].epoch /\ k.closed = cl[c].closed
        /\ DOMAIN k.handles = DOMAIN cl[c].handles \cup {OpenPriv(m)}
    BY <2>1, RegisteredOK
  <2>3. IsSequence(aq) /\ IsSequence(a)
    <3>1. a \in Seq({a[1]})
      OBVIOUS
    <3> QED
      BY <1>0, <3>1, OwnElements
  <2> HIDE DEF k, a, c, m
  <2>4. /\ Others(c) /\ ClientOK(cl'[c], c) /\ cl'[c].epoch = k.epoch /\ (k.closed => cl'[c].closed)
        /\ cl'[c].handles = k.handles \/ (~Reachable(k) /\ cl'[c].handles = <<>>)
        /\ \E t : Closes(t) /\ aq' = (aq \o a) \o t
        /\ out' = out \/ out' = {Pushed(c, m)}
    BY SMTT(30), <2>1, <2>2, <2>3, PushFacts
  <2>5. Reachable(k) <=> Reachable(cl[c])
    BY <2>2 DEF Reachable
  <2>6. ~TxClose /\ ~TxReply
    BY <2>1 DEF m, TxClose, TxReply, Working
  <2> QED
    BY <2>1, <2>2, <2>4, <2>5, <2>6 DEF Keeps, a, c, m
<1>2. CASE TxClose
  <2> DEFINE p == itl[m.id].priv
             k == Disposed(cl[c], p)
             a == <<>>
  <2>1. c \in Clients /\ TxPush(c, k, m, a) /\ m.kind = "close"
    BY <1>2, TxCloseFacts
  <2>2. /\ ClientOK(k, c) /\ k.epoch = cl[c].epoch /\ k.closed = cl[c].closed
        /\ DOMAIN k.handles = DOMAIN cl[c].handles \ {p}
    BY <2>1, DisposedOK
  <2>3. IsSequence(aq) /\ IsSequence(a)
    BY <1>0
  <2>7. aq \o a = aq
    BY <1>0
  <2> HIDE DEF k, c, m, a, p
  <2>4. /\ Others(c) /\ ClientOK(cl'[c], c) /\ cl'[c].epoch = k.epoch /\ (k.closed => cl'[c].closed)
        /\ cl'[c].handles = k.handles \/ (~Reachable(k) /\ cl'[c].handles = <<>>)
        /\ \E t : Closes(t) /\ aq' = (aq \o a) \o t
        /\ out' = out \/ out' = {Pushed(c, m)}
    BY SMTT(30), <2>1, <2>2, <2>3, PushFacts
  <2>5. Reachable(k) <=> Reachable(cl[c])
    BY <2>2 DEF Reachable
  <2>6. ~TxOpen /\ ~TxReply
    BY <2>1 DEF m, TxOpen, TxReply, Working
  <2> QED
    BY <2>1, <2>2, <2>7, <2>4, <2>5, <2>6 DEF Keeps, c, m, p
<1>3. CASE TxReply
  <2> DEFINE k == cl[c]
             a == <<>>
  <2>1. c \in Clients /\ TxPush(c, k, m, a) /\ m.kind \notin {"open", "close"}
    BY <1>3, TxReplyFacts
  <2>2. ClientOK(k, c)
    BY <2>1 DEF ClientsInv
  <2>3. IsSequence(aq) /\ IsSequence(a)
    BY <1>0
  <2>7. aq \o a = aq
    BY <1>0
  <2> HIDE DEF k, c, m, a
  <2>4. /\ Others(c) /\ ClientOK(cl'[c], c) /\ cl'[c].epoch = k.epoch /\ (k.closed => cl'[c].closed)
        /\ cl'[c].handles = k.handles \/ (~Reachable(k) /\ cl'[c].handles = <<>>)
        /\ \E t : Closes(t) /\ aq' = (aq \o a) \o t
        /\ out' = out \/ out' = {Pushed(c, m)}
    BY SMTT(30), <2>1, <2>2, <2>3, PushFacts
  <2>6. ~TxOpen /\ ~TxClose
    BY <2>1 DEF m, TxOpen, TxClose, Working
  <2> QED
    BY <2>1, <2>2, <2>7, <2>4, <2>6 DEF Keeps, SameHandles, k, c, m
<1> QED
  BY <1>1, <1>2, <1>3

\* Every client keeps what it has: a step that neither accepts clients nor
\* ends an analyzer.
Moved == DOMAIN cl' = Clients /\ \A d \in Clients : Keeps(d)
Steady == UNCHANGED epoch /\ listed' \subseteq listed /\ (tx.pc = "shutdown" => tx'.pc = "shutdown")

LEMMA OneMoves ==
  ASSUME ClientsInv, NEW c \in Clients, Others(c), Keeps(c)
  PROVE  Moved /\ (SameHandles(c) => \A d \in Clients : SameHandles(d))
  BY DEF Moved, Others, Keeps, SameHandles, ClientsInv

LEMMA NobodyMoves ==
  ASSUME ClientsInv, UNCHANGED cl
  PROVE  Moved /\ \A d \in Clients : SameHandles(d)
  BY DEF Moved, Keeps, SameHandles, ClientsInv

LEMMA AuthFacts ==
  ASSUME ClientsInv, ListInv, NEW c \in rx.todo, suscli_analyzer_server_process_auth_message(c)
  PROVE  Moved /\ \A d \in Clients : SameHandles(d)
<1>1. c \in Clients /\ ClientOK(cl[c], c) /\ DOMAIN cl = Clients
  BY DEF ListInv, ClientsInv
<1>2. PICK k \in {[[cl[c] EXCEPT !.auth = TRUE] EXCEPT !.info = TRUE], [cl[c] EXCEPT !.auth = TRUE]} :
        cl' = [cl EXCEPT ![c] = k]
  BY DEF suscli_analyzer_server_process_auth_message, suscli_analyzer_client_send_source_info
<1>3. /\ ClientOK(k, c) /\ k.epoch = cl[c].epoch /\ k.closed = cl[c].closed
      /\ k.handles = cl[c].handles
  BY <1>1 DEF ClientOK, ClientRecords
<1>4. cl'[c] = k /\ Others(c)
  BY <1>1, <1>2 DEF Others
<1>5. Keeps(c) /\ SameHandles(c)
  BY <1>3, <1>4 DEF Keeps, SameHandles
<1> QED
  BY <1>1, <1>4, <1>5, OneMoves

\* The steps of the server, by what becomes of the clients
LEMMA ClientSteps ==
  ASSUME ClientsInv, ListInv, ReqInv, ItlInv, MessageInv, ServerInv, Next
  PROVE  \/ /\ Moved /\ Steady
            /\ TxOpen \/ TxClose \/ \A d \in Clients : SameHandles(d)
         \/ suscli_analyzer_server_register_clients
         \/ suscli_analyzer_client_list_increment_epoch
         \/ suscli_analyzer_client_list_force_shutdown
<1> DEFINE Goal == Moved /\ Steady /\ \A d \in Clients : SameHandles(d)
<1>0. rx.todo \subseteq Clients
  BY DEF ListInv
<1>1. ASSUME UNCHANGED cl, Steady PROVE Goal
  BY <1>1, NobodyMoves
<1>2. ASSUME NEW c \in Clients, Connect(c) \/ Disconnect(c) \/ Send(c) PROVE Goal
  BY <1>1, <1>2 DEF Connect, Disconnect, Send, Steady
<1>3. ASSUME AnalyzerAnswers \/ AnalyzerSamples \/ AnalyzerHalts PROVE Goal
  BY <1>1, <1>3 DEF AnalyzerAnswers, AnalyzerSamples, AnalyzerHalts, Steady
<1>4. ASSUME RxPoll \/ suscli_analyzer_server_on_set_id PROVE Goal
  BY <1>1, <1>4 DEF RxPoll, suscli_analyzer_server_on_set_id, Steady
<1>5. ASSUME suscli_analyzer_client_list_attempt_cleanup PROVE Goal
  BY <1>1, <1>5, CleanupFacts DEF Steady
<1>6. ASSUME NEW c \in rx.todo, \/ RxSkip(c) \/ RxProtocolError(c) \/ DeliverSetting(c) \/ Requesting(c)
      PROVE Goal
  <2>1. UNCHANGED <<cl, epoch, listed, tx>>
    BY <1>6 DEF RxSkip, RxProtocolError, DeliverSetting, Requesting, suscli_analyzer_server_on_open,
       suscli_analyzer_client_intercept_message, suscli_analyzer_server_on_wrong_handle
  <2> QED
    BY <1>1, <2>1 DEF Steady
<1>7. ASSUME NEW c \in rx.todo, \/ RxEof(c) \/ RejectClient(c) \/ DeliverHalt(c) PROVE Goal
  <2>1. /\ UNCHANGED <<epoch, listed, tx>>
        /\ UNCHANGED cl \/ suscli_analyzer_server_kick_client(c)
    BY <1>7 DEF RxEof, RejectClient, DeliverHalt
  <2> QED
    BY <1>0, <1>1, <2>1, KickStep, OneMoves DEF Steady
<1>8. ASSUME NEW c \in rx.todo, suscli_analyzer_server_process_auth_message(c) PROVE Goal
  <2>1. UNCHANGED <<epoch, listed>> /\ (tx.pc = "shutdown" => UNCHANGED tx)
    BY <1>8 DEF suscli_analyzer_server_process_auth_message, suscli_analyzer_server_start_analyzer,
       ServerInv
  <2> QED
    BY <1>8, <2>1, AuthFacts DEF Steady
<1>9. ASSUME TxRead \/ TxBlocked \/ TxDangling \/ TxOpenOrphan \/ TxIgnore \/ TxHalted PROVE Goal
  <2>1. UNCHANGED <<cl, epoch, listed>> /\ tx.pc # "shutdown"
    BY <1>9 DEF TxRead, TxBlocked, TxDangling, TxOpenOrphan, TxIgnore, TxHalted, Working, ServerInv
  <2> QED
    BY <1>1, <2>1 DEF Steady
<1>10. ASSUME TxOpen \/ TxClose \/ TxReply
       PROVE  Moved /\ Steady /\ (TxOpen \/ TxClose \/ \A d \in Clients : SameHandles(d))
  <2>1. UNCHANGED <<epoch, listed>> /\ tx.msg # None
    BY <1>10 DEF TxOpen, TxClose, TxReply, Working
  <2>2. tx.pc # "shutdown"
    BY <2>1 DEF ServerInv
  <2>3. PICK c \in Clients : Others(c) /\ Keeps(c) /\ (TxReply => SameHandles(c))
    BY <1>10, PushSteps
  <2> QED
    BY <1>10, <2>1, <2>2, <2>3, OneMoves DEF Steady
<1>11. ASSUME suscli_analyzer_client_list_broadcast_unsafe PROVE Goal
  <2>1. /\ UNCHANGED <<epoch, listed>> /\ tx.msg # None
        /\ UNCHANGED cl \/ \E c \in listed : suscli_analyzer_server_kick_client(c)
    BY <1>11 DEF suscli_analyzer_client_list_broadcast_unsafe, Working, Audience
  <2>2. tx.pc # "shutdown"
    BY <2>1 DEF ServerInv
  <2> QED
    BY <1>1, <2>1, <2>2, KickStep, OneMoves DEF Steady, ListInv
<1> HIDE DEF Goal
<1>12. ASSUME suscli_analyzer_server_rx_thread
       PROVE Goal \/ suscli_analyzer_server_register_clients
  BY <1>12, <1>4, <1>5, <1>6, <1>7, <1>8
     DEF suscli_analyzer_server_rx_thread, RxServe, Requesting
<1>13. ASSUME suscli_analyzer_server_tx_thread
       PROVE \/ Goal \/ TxOpen \/ TxClose \/ TxReply
             \/ suscli_analyzer_client_list_increment_epoch
             \/ suscli_analyzer_client_list_force_shutdown
  BY <1>13, <1>9, <1>11 DEF suscli_analyzer_server_tx_thread
<1>14. \/ Goal \/ TxOpen \/ TxClose \/ TxReply
       \/ suscli_analyzer_server_register_clients
       \/ suscli_analyzer_client_list_increment_epoch
       \/ suscli_analyzer_client_list_force_shutdown
  BY <1>2, <1>3, <1>12, <1>13 DEF Next
<1> QED
  BY <1>10, <1>14 DEF Goal

LEMMA NewFacts ==
  ASSUME ClientsInv, NEW c \in Clients
  PROVE  /\ ClientOK(suscli_analyzer_client_new(epoch), c)
         /\ suscli_analyzer_client_new(epoch).epoch = epoch
<1>1. <<>> \in HandleMaps(c)
  <2>1. HandlesOK(<<>>, c)
    BY FS_EmptySet DEF HandlesOK
  <2> QED
    BY <2>1, HandleMapsFacts
<1> QED
  BY <1>1 DEF suscli_analyzer_client_new, ClientOK, ClientRecords, ClientsInv

LEMMA RegisterFacts ==
  ASSUME ClientsInv, ListInv, suscli_analyzer_server_register_clients
  PROVE  /\ DOMAIN cl' = Clients /\ \A d \in Clients : ClientOK(cl'[d], d)
         /\ \A d \in Backlog : d \notin listed
         /\ \A d \in listed' \ listed : d \in Backlog /\ cl'[d].epoch = epoch
         /\ \A d \in Clients \ Backlog : cl'[d] = cl[d]
         /\ \A d \in listed : cl'[d] = cl[d]
         /\ listed \subseteq listed' /\ listed' \subseteq Clients
         /\ UNCHANGED <<epoch, tx>>
<1>1. PICK cs \in SUBSET Backlog :
        /\ cl' = [c \in Clients |-> IF c \in cs THEN suscli_analyzer_client_new(epoch) ELSE cl[c]]
        /\ listed' = listed \cup cs /\ UNCHANGED <<epoch, tx>>
  BY DEF suscli_analyzer_server_register_clients, suscli_analyzer_client_list_append_client
<1>2. Backlog \subseteq Clients /\ \A d \in Backlog : d \notin listed
  BY DEF Backlog, ListInv
<1>3. \A d \in cs : cl'[d] = suscli_analyzer_client_new(epoch)
  BY <1>1, <1>2
<1>4. \A d \in Clients \ cs : cl'[d] = cl[d]
  BY <1>1
<1> QED
  BY <1>1, <1>2, <1>3, <1>4, NewFacts DEF ClientsInv, ListInv

LEMMA ShutdownFacts ==
  ASSUME ClientsInv, ListInv, ServerInv, suscli_analyzer_client_list_force_shutdown
  PROVE  /\ Moved /\ UNCHANGED <<epoch, listed>> /\ tx'.pc # "shutdown"
         /\ \A d \in listed : cl'[d].closed
<1>1. /\ cl' = [c \in Clients |-> IF c \in listed /\ ~cl[c].failed
                                  THEN suscli_analyzer_client_shutdown(cl[c]) ELSE cl[c]]
      /\ UNCHANGED <<epoch, listed>>
  BY DEF suscli_analyzer_client_list_force_shutdown
<1>2. tx' = [tx EXCEPT !.pc = "halted"] /\ tx.pc = "shutdown"
  BY DEF suscli_analyzer_client_list_force_shutdown, TxAt
<1>3. ASSUME NEW d \in Clients
      PROVE  LET k == suscli_analyzer_client_shutdown(cl[d]) IN
             ClientOK(k, d) /\ k.epoch = cl[d].epoch /\ k.closed
  BY DEF suscli_analyzer_client_shutdown, ClientOK, ClientRecords, ClientsInv
<1>4. \A d \in Clients : ClientOK(cl[d], d) /\ (cl[d].failed => cl[d].closed)
  BY DEF ClientsInv, ClientOK
<1>5. listed \subseteq Clients
  BY DEF ListInv
<1>6. tx'.pc # "shutdown"
  BY <1>2 DEF ServerInv
<1> QED
  BY <1>1, <1>3, <1>4, <1>5, <1>6 DEF Moved, Keeps

LEMMA ClientsInvStep ==
  ASSUME ClientsInv, ListInv, ReqInv, ItlInv, MessageInv, ServerInv, Next
  PROVE  ClientsInv'
<1>1. CASE Moved /\ Steady
  BY <1>1 DEF ClientsInv, Moved, Steady, Keeps, ListInv
<1>2. CASE suscli_analyzer_server_register_clients
  BY <1>2, RegisterFacts DEF ClientsInv, ListInv, Backlog
<1>3. CASE suscli_analyzer_client_list_increment_epoch
  <2>1. epoch' = epoch + 1 /\ UNCHANGED <<cl, listed>> /\ tx' = [tx EXCEPT !.pc = "shutdown"]
    BY <1>3 DEF suscli_analyzer_client_list_increment_epoch, TxAt
  <2>2. tx'.pc = "shutdown"
    BY <2>1 DEF ServerInv
  <2> QED
    BY <2>1, <2>2 DEF ClientsInv
<1>4. CASE suscli_analyzer_client_list_force_shutdown
  BY <1>4, ShutdownFacts DEF ClientsInv, Moved, Keeps
<1> QED
  BY <1>1, <1>2, <1>3, <1>4, ClientSteps

LEMMA AcceptedGrows ==
  ASSUME ListInv, Next
  PROVE  Accepted \subseteq Accepted'
<1>1. ASSUME UNCHANGED peer PROVE Accepted \subseteq Accepted'
  BY <1>1 DEF Accepted
<1>2. ASSUME NEW c \in Clients, Connect(c) \/ Disconnect(c) PROVE Accepted \subseteq Accepted'
  BY <1>2 DEF Connect, Disconnect, Accepted, ListInv
<1>3. ASSUME suscli_analyzer_server_register_clients PROVE Accepted \subseteq Accepted'
  BY <1>3 DEF suscli_analyzer_server_register_clients, Accepted
<1>4. ASSUME \/ RxPoll \/ suscli_analyzer_client_list_attempt_cleanup \/ suscli_analyzer_server_on_set_id
             \/ \E c \in rx.todo : RxSkip(c) \/ RxEof(c) \/ RxServe(c)
      PROVE  UNCHANGED peer
  BY <1>4 DEF RxPoll, suscli_analyzer_client_list_attempt_cleanup, suscli_analyzer_server_on_set_id,
     RxSkip, RxEof, RxServe, suscli_analyzer_server_process_auth_message, RejectClient,
     RxProtocolError, DeliverSetting, DeliverHalt, suscli_analyzer_server_on_open,
     suscli_analyzer_client_intercept_message, suscli_analyzer_server_on_wrong_handle
<1> QED
  BY <1>1, <1>2, <1>3, <1>4, ListSteps DEF suscli_analyzer_server_rx_thread, ListVars

LEMMA MsgStays ==
  ASSUME NEW A, NEW B, A \subseteq B, NEW m
  PROVE  (AqOK(m, A) => AqOK(m, B)) /\ (MqOK(m, A) => MqOK(m, B))
  BY DEF AqOK, MqOK, MsgOK

LEMMA CloseOK ==
  ASSUME NEW A, NEW m, IsClose(m)
  PROVE  /\ AqOK(m, A) /\ m.kind = "close" /\ m.id = NoHandle /\ m.req[1] = None
<1>1. PICK h : h # NoHandle /\ GlobOK(h) /\ m = Msg("close", NoReq, h, NoHandle)
  BY DEF IsClose
<1>2. /\ m.kind = "close" /\ m.req = NoReq /\ m.glob = h /\ m.id = NoHandle
      /\ m = Msg(m.kind, m.req, m.glob, m.id) /\ NoReq[1] = None /\ NoReq = <<NoReq[1], NoReq[2]>>
  BY <1>1 DEF Msg, NoReq
<1> QED
  BY <1>1, <1>2 DEF AqOK, MsgOK, IdOK, ToAnalyzer

\* What the analyzer answers to m
LEMMA AnswerFacts ==
  ASSUME MessageInv, ServerInv, AnalyzerAnswers
  PROVE  /\ aq # <<>> /\ aq' = Tail(aq)
         /\ \E a : /\ mq' = Append(mq, a) /\ MqOK(a, Accepted) /\ a.kind # "halt"
                   /\ a.id = NoHandle \/ \E h \in DOMAIN ana.insp : a.id = Handle("itl", h.of)
                   /\ a.req = Head(aq).req \/ a.req = NoReq
                   /\ a.kind = "open" => Head(aq).kind = "open" /\ a.req = Head(aq).req
         /\ \A h \in DOMAIN ana'.insp :
              /\ GlobOK(h) /\ IdOK(ana'.insp[h], h)
              /\ h \in DOMAIN ana.insp \/ (Head(aq).kind = "open" /\ h = Handle("glob", Head(aq).req))
<1> DEFINE m == Head(aq)
           A == Accepted
<1>1. aq # <<>> /\ aq' = Tail(aq) /\ suscan_local_analyzer_parse_inspector_msg(m)
  BY DEF AnalyzerAnswers
<1>2. AqOK(m, A)
  BY <1>1, TailSeq DEF MessageInv
<1>3. \A h \in DOMAIN ana.insp : GlobOK(h) /\ IdOK(ana.insp[h], h)
  BY DEF MessageInv
<1> DEFINE new == Handle("glob", m.req)
           isIn == m.glob \in DOMAIN ana.insp
           wrong == Msg("wrong_handle", m.req, m.glob, NoHandle)
           Says(a) ==
             /\ mq' = Append(mq, a) /\ MqOK(a, A) /\ a.kind # "halt"
             /\ a.id = NoHandle \/ \E h \in DOMAIN ana.insp : a.id = Handle("itl", h.of)
             /\ a.req = m.req \/ a.req = NoReq
             /\ a.kind = "open" => m.kind = "open" /\ a.req = m.req
           Keeps2(f) ==
             \A h \in DOMAIN f :
               /\ GlobOK(h) /\ IdOK(f[h], h)
               /\ h \in DOMAIN ana.insp \/ (m.kind = "open" /\ h = new)
<1> HIDE DEF m, A
<1>4. Keeps2(ana.insp)
  BY <1>3
<1>5. ASSUME NEW k, NEW r, NEW g, NEW i, mq' = Append(mq, Msg(k, r, g, i)),
             k \in Messages, k \notin {"info", "open"}, k \in {"wrong_handle", "noop"} => i = NoHandle,
             k = "noop" => g = NoHandle, r = m.req, g = NoHandle \/ (g = m.glob),
             IdOK(i, g), i = NoHandle \/ g \in DOMAIN ana.insp
      PROVE  Says(Msg(k, r, g, i))
  <2> DEFINE a == Msg(k, r, g, i)
  <2>1. a.kind = k /\ a.req = r /\ a.glob = g /\ a.id = i /\ a = Msg(a.kind, a.req, a.glob, a.id)
    BY DEF Msg
  <2> HIDE DEF a
  <2>2. k # "halt"
    BY <1>5 DEF Messages
  <2>3. MqOK(a, A)
    BY <1>2, <1>5, <2>1, <2>2 DEF MqOK, AqOK, MsgOK, OfAnalyzer
  <2>5. i = NoHandle \/ \E h \in DOMAIN ana.insp : i = Handle("itl", h.of)
    BY <1>5 DEF IdOK
  <2>4. Says(a)
    BY <1>5, <2>1, <2>2, <2>3, <2>5 DEF a
  <2> QED
    BY <2>4 DEF a
<1> SUFFICES (\E a : Says(a)) /\ Keeps2(ana'.insp)
  BY <1>1 DEF m, A
<1>6. CASE /\ m.kind = "open"
           /\ \/ /\ ana' = [ana EXCEPT !.insp = Put(@, new, NoHandle)]
                 /\ mq' = Append(mq, Msg("open", m.req, new, NoHandle))
              \/ /\ mq' = Append(mq, Msg("invalid_channel", m.req, NoHandle, NoHandle))
                 /\ UNCHANGED ana
  <2>a. IsRequest(m.req) /\ m.req[1] # None
    BY <1>2, <1>6 DEF AqOK, MsgOK
  <2>1. CASE /\ ana' = [ana EXCEPT !.insp = Put(@, new, NoHandle)]
             /\ mq' = Append(mq, Msg("open", m.req, new, NoHandle))
    <3>1. ana'.insp = Put(ana.insp, new, NoHandle)
      BY <2>1 DEF ServerInv
    <3>2. GlobOK(new) /\ IdOK(NoHandle, new) /\ new # NoHandle /\ new.of = m.req
      BY <2>a DEF GlobOK, IdOK, Handle, NoHandle
    <3> DEFINE a == Msg("open", m.req, new, NoHandle)
    <3>3. /\ a.kind = "open" /\ a.req = m.req /\ a.glob = new /\ a.id = NoHandle
          /\ a = Msg(a.kind, a.req, a.glob, a.id)
      BY DEF Msg
    <3> HIDE DEF a
    <3>4. "open" \in OfAnalyzer /\ m.req = <<m.req[1], m.req[2]>> /\ m.req[1] \in A
      BY <1>2, <2>a DEF OfAnalyzer, Messages, AqOK, MsgOK
    <3>5. MqOK(a, A)
      BY <2>a, <3>2, <3>3, <3>4 DEF MqOK, MsgOK
    <3>6. Says(a)
      BY <1>6, <2>1, <3>3, <3>5 DEF a
    <3> HIDE DEF new
    <3>7. Keeps2(ana'.insp)
      BY <1>4, <1>6, <3>1, <3>2 DEF Put
    <3> QED
      BY <3>6, <3>7
  <2>2. CASE mq' = Append(mq, Msg("invalid_channel", m.req, NoHandle, NoHandle)) /\ UNCHANGED ana
    BY <1>4, <1>5, <2>2 DEF Messages, IdOK
  <2> QED
    BY <1>6, <2>1, <2>2
<1>w. mq' = Append(mq, wrong) => \E a : Says(a)
  BY <1>5 DEF Messages, IdOK
<1>i. isIn => /\ IdOf(m.glob) = ana.insp[m.glob]
              /\ IdOK(IdOf(m.glob), m.glob)
  BY <1>3 DEF IdOf
<1>7. CASE /\ m.kind = "close"
           /\ ana' = [ana EXCEPT !.insp = Forget(@, m.glob)]
           /\ mq' = Append(mq, IF isIn THEN Msg("close", m.req, m.glob, IdOf(m.glob)) ELSE wrong)
  <2>1. ana'.insp = Forget(ana.insp, m.glob)
    BY <1>7 DEF ServerInv
  <2>2. Keeps2(ana'.insp)
    BY <1>4, <2>1 DEF Forget
  <2>3. \E a : Says(a)
    BY <1>5, <1>7, <1>w, <1>i DEF Messages
  <2> QED
    BY <2>2, <2>3
<1>8. CASE /\ m.kind = "set_id"
           /\ ana' = IF isIn THEN [ana EXCEPT !.insp[m.glob] = m.id] ELSE ana
           /\ mq' = Append(mq, IF isIn THEN m ELSE wrong)
  <2>0. /\ m = Msg("set_id", m.req, m.glob, m.id) /\ IdOK(m.id, m.glob)
        /\ "set_id" \in Messages /\ "set_id" \notin {"info", "open", "wrong_handle", "noop"}
    BY <1>2, <1>8 DEF AqOK, MsgOK, Messages
  <2>1. CASE isIn
    <3>1. DOMAIN ana'.insp = DOMAIN ana.insp /\ ana'.insp[m.glob] = m.id
          /\ \A h \in DOMAIN ana.insp : h # m.glob => ana'.insp[h] = ana.insp[h]
      BY <1>8, <2>1 DEF ServerInv
    <3>2. Keeps2(ana'.insp)
      BY <1>4, <2>0, <3>1
    <3>3. mq' = Append(mq, Msg("set_id", m.req, m.glob, m.id))
      BY <1>8, <2>0, <2>1
    <3>4. \E a : Says(a)
      BY <1>5, <2>0, <2>1, <3>3
    <3> QED
      BY <3>2, <3>4
  <2>2. CASE ~isIn
    BY <1>4, <1>8, <1>w, <2>2
  <2> QED
    BY <2>1, <2>2
<1>9. CASE /\ m.kind = "get"
           /\ mq' = Append(mq, IF isIn THEN Msg("get", m.req, m.glob, IdOf(m.glob)) ELSE wrong)
           /\ UNCHANGED ana
  <2>1. \E a : Says(a)
    BY <1>5, <1>9, <1>w, <1>i DEF Messages
  <2> QED
    BY <1>4, <1>9, <2>1
<1>10. CASE m.kind = "noop" /\ mq' = Append(mq, m) /\ UNCHANGED ana
  <2>1. m = Msg("noop", m.req, NoHandle, NoHandle)
    BY <1>2, <1>10 DEF AqOK, MsgOK, IdOK
  <2>2. mq' = Append(mq, Msg("noop", m.req, NoHandle, NoHandle))
    BY <1>10, <2>1
  <2>3. \E a : Says(a)
    BY <1>5, <2>2 DEF Messages, IdOK
  <2> QED
    BY <1>4, <1>10, <2>3
<1>11. CASE m.kind = "set" /\ mq' = Append(mq, Msg("info", NoReq, NoHandle, NoHandle)) /\ UNCHANGED ana
  <2> DEFINE a == Msg("info", NoReq, NoHandle, NoHandle)
  <2>1. /\ a.kind = "info" /\ a.req = NoReq /\ a.glob = NoHandle /\ a.id = NoHandle
        /\ NoReq[1] = None /\ NoReq = <<NoReq[1], NoReq[2]>>
    BY DEF Msg, NoReq
  <2>2. MqOK(a, A)
    BY <2>1 DEF MqOK, MsgOK, IdOK, OfAnalyzer, Messages
  <2>3. Says(a)
    BY <1>11, <2>1, <2>2
  <2> QED
    BY <1>4, <1>11, <2>3
<1> QED
  BY <1>1, <1>6, <1>7, <1>8, <1>9, <1>10, <1>11
     DEF suscan_local_analyzer_parse_inspector_msg

\* What the call of client c becomes, its private handle replaced
CallMsg(c) ==
  LET e == cl[c].handles[inbox[c].handle]
  IN Msg(inbox[c].kind, GlobalId(c), e.glob, e.itl)

LEMMA CallMsgFacts ==
  ASSUME ClientsInv, ListInv, InboxInv, NEW c \in rx.todo, suscli_analyzer_client_intercept_message(c)
  PROVE  LET m == CallMsg(c)
             p == inbox[c].handle
         IN /\ p \in DOMAIN cl[c].handles /\ p = Handle("priv", p.of)
            /\ AqOK(m, Accepted) /\ m.kind \in {"set_id", "close", "get"}
            /\ m.req = GlobalId(c) /\ m.id = Handle("itl", p.of)
            /\ \/ m.kind = "set_id" /\ rx'.pc = "set_id" /\ rx'.msg = m /\ UNCHANGED aq
               \/ m.kind # "set_id" /\ rx'.pc # "set_id" /\ (UNCHANGED aq \/ aq' = Append(aq, m))
            /\ UNCHANGED mq
<1> DEFINE m == CallMsg(c)
           p == inbox[c].handle
           g == GlobalId(c)
           e == cl[c].handles[p]
<1>1. /\ c \in Clients /\ c \in listed /\ IsRequest(g) /\ g[1] = c
  BY RequestFacts DEF Requesting
<1>2. p \in DOMAIN cl[c].handles /\ inbox[c].kind \in {"set_id", "close", "get"}
  BY DEF suscli_analyzer_client_intercept_message, suscli_analyzer_client_get_inspector_entry_unsafe,
     Delivering
<1>3. HandlesOK(cl[c].handles, c)
  BY <1>1, HandleMapsFacts DEF ClientsInv, ClientOK, ClientRecords
<1>4. PrivateTo(p, c) /\ e = Entry(p)
  BY <1>2, <1>3 DEF HandlesOK
<1>5. /\ p = Handle("priv", p.of) /\ IsRequest(p.of) /\ p.of[1] = c
      /\ e.glob = Handle("glob", p.of) /\ e.itl = Handle("itl", p.of)
  <2>1. /\ Entry(p).glob = Handle("glob", p.of) /\ Entry(p).itl = Handle("itl", p.of)
    BY DEF Entry
  <2> QED
    BY <1>4, <2>1 DEF PrivateTo
<1>6. /\ m = Msg(inbox[c].kind, g, e.glob, e.itl)
      /\ m.kind = inbox[c].kind /\ m.req = g /\ m.glob = e.glob /\ m.id = e.itl
  BY DEF CallMsg, Msg
<1>7. c \in Accepted
  BY <1>1 DEF ListInv, Accepted
<1>8. g = <<g[1], g[2]>>
  BY <1>1 DEF IsRequest
<1>9. \A r : Handle("glob", r) # NoHandle /\ Handle("glob", r).of = r
  BY DEF Handle, NoHandle
<1>a. GlobOK(e.glob) /\ e.glob # NoHandle /\ e.glob.of = p.of /\ IdOK(e.itl, e.glob)
  BY <1>5, <1>9 DEF GlobOK, IdOK
<1>b. \/ /\ m.kind = "set_id" /\ rx' = [At("set_id") EXCEPT !.c = c, !.msg = m]
         /\ UNCHANGED aq
      \/ m.kind # "set_id" /\ Write(c, m)
  BY DEF suscli_analyzer_client_intercept_message, CallMsg
<1>c. UNCHANGED mq
  BY DEF suscli_analyzer_client_intercept_message
<1> HIDE DEF p, g, e, m
<1>10. AqOK(m, Accepted)
  BY <1>1, <1>2, <1>5, <1>6, <1>7, <1>8, <1>a DEF AqOK, MsgOK, ToAnalyzer
<1>11. CASE m.kind = "set_id"
  <2>1. rx'.pc = "set_id" /\ rx'.msg = m
    BY <1>11, <1>b DEF At, ListInv
  <2> QED
    BY <1>2, <1>5, <1>6, <1>10, <1>11, <1>b, <1>c, <2>1 DEF p, g, m
<1>12. CASE m.kind # "set_id"
  <2>1. rx' = Served(c) \/ rx' = At("crashed")
    BY <1>12, <1>b DEF Write
  <2>2. rx'.pc # "set_id"
    <3>1. \/ rx' = [rx EXCEPT !.pc = "crashed"]
          \/ \E x : \/ rx' = [rx EXCEPT !.pc = "cleanup", !.todo = x, !.c = None, !.msg = None]
                    \/ rx' = [rx EXCEPT !.pc = "clients", !.todo = x, !.c = None, !.msg = None]
      BY <2>1 DEF Served, At
    <3> QED
      BY <3>1 DEF ListInv
  <2>3. UNCHANGED aq \/ aq' = Append(aq, m)
    BY <1>12, <1>b DEF Write
  <2> QED
    BY <1>2, <1>5, <1>6, <1>10, <1>12, <1>c, <2>2, <2>3 DEF p, g, m
<1> QED
  BY <1>11, <1>12

\* What joins the messages for the analyzer, one by one
OrphanClose == Msg("close", tx.msg.req, tx.msg.glob, NoHandle)
AqGain(g) ==
  \/ g = SetMsg
  \/ \E c \in rx.todo : /\ suscli_analyzer_server_on_open(c)
                        /\ \/ g = Msg("open", GlobalId(c), NoHandle, NoHandle)
                           \/ g = Msg("noop", GlobalId(c), NoHandle, NoHandle)
  \/ \E c \in rx.todo : /\ suscli_analyzer_client_intercept_message(c)
                        /\ g = CallMsg(c) /\ g.kind # "set_id"
  \/ suscli_analyzer_server_on_set_id /\ g = rx.msg
  \/ TxOpenOrphan /\ g = OrphanClose
NewSetId == Msg("set_id", IdReq, tx.msg.glob, OpenId(tx.msg))

LEMMA AqSteps ==
  ASSUME ClientsInv, ListInv, ReqInv, ItlInv, InboxInv, MessageInv, Next
  PROVE  \/ UNCHANGED aq \/ aq' = <<>>
         \/ AnalyzerAnswers
         \/ \E t : Closes(t) /\ aq' = aq \o t
         \/ \E g : AqGain(g) /\ aq' = Append(aq, g)
         \/ TxOpen /\ \E t : Closes(t) /\ aq' = (aq \o <<NewSetId>>) \o t
<1>0. rx.todo \subseteq Clients /\ listed \subseteq Clients
  BY DEF ListInv
<1>1. ASSUME NEW c \in Clients, Connect(c) \/ Disconnect(c) \/ Send(c) PROVE UNCHANGED aq
  BY <1>1 DEF Connect, Disconnect, Send
<1>2. ASSUME AnalyzerSamples \/ AnalyzerHalts PROVE UNCHANGED aq
  BY <1>2 DEF AnalyzerSamples, AnalyzerHalts
<1>3. ASSUME \/ suscli_analyzer_server_register_clients \/ suscli_analyzer_client_list_attempt_cleanup
      PROVE  UNCHANGED aq
  BY <1>3 DEF suscli_analyzer_server_register_clients, suscli_analyzer_client_list_attempt_cleanup
<1>4. ASSUME RxPoll PROVE UNCHANGED aq \/ aq' = <<>>
  BY <1>4 DEF RxPoll, suscli_analyzer_server_clean_dead_threads
<1>5. ASSUME NEW c \in rx.todo, \/ RxSkip(c) \/ RxProtocolError(c)
                                \/ suscli_analyzer_server_process_auth_message(c)
                                \/ suscli_analyzer_server_on_wrong_handle(c)
      PROVE  UNCHANGED aq
  BY <1>5 DEF RxSkip, RxProtocolError, suscli_analyzer_server_process_auth_message,
     suscli_analyzer_server_on_wrong_handle
<1>6. ASSUME NEW c \in rx.todo, RxEof(c) \/ RejectClient(c) \/ DeliverHalt(c)
      PROVE  \/ UNCHANGED aq \/ \E t : Closes(t) /\ aq' = aq \o t
             \/ \E g : AqGain(g) /\ aq' = Append(aq, g)
  <2>1. UNCHANGED aq \/ aq' = Append(aq, SetMsg) \/ suscli_analyzer_server_kick_client(c)
    BY <1>6 DEF RxEof, RejectClient, DeliverHalt
  <2> QED
    BY <1>0, <2>1, KickStep DEF AqGain
<1>7. ASSUME NEW c \in rx.todo, DeliverSetting(c)
      PROVE  UNCHANGED aq \/ \E g : AqGain(g) /\ aq' = Append(aq, g)
  BY <1>7 DEF DeliverSetting, AqGain, SetMsg
<1>8. ASSUME NEW c \in rx.todo, suscli_analyzer_server_on_open(c)
      PROVE  UNCHANGED aq \/ \E g : AqGain(g) /\ aq' = Append(aq, g)
  <2>1. \/ UNCHANGED aq
        \/ \E g : /\ aq' = Append(aq, g)
                  /\ \/ g = Msg("open", GlobalId(c), NoHandle, NoHandle)
                     \/ g = Msg("noop", GlobalId(c), NoHandle, NoHandle)
    BY <1>8 DEF suscli_analyzer_server_on_open, Write
  <2> QED
    BY <1>8, <2>1 DEF AqGain
<1>9. ASSUME NEW c \in rx.todo, suscli_analyzer_client_intercept_message(c)
      PROVE  UNCHANGED aq \/ \E g : AqGain(g) /\ aq' = Append(aq, g)
  BY <1>9, CallMsgFacts DEF AqGain
<1>10. ASSUME suscli_analyzer_server_on_set_id
       PROVE  UNCHANGED aq \/ \E g : AqGain(g) /\ aq' = Append(aq, g)
  BY <1>10 DEF suscli_analyzer_server_on_set_id, Write, AqGain
<1>11. ASSUME TxOpenOrphan PROVE \E g : AqGain(g) /\ aq' = Append(aq, g)
  BY <1>11 DEF TxOpenOrphan, AqGain, OrphanClose
<1>12. ASSUME \/ TxRead \/ TxBlocked \/ TxDangling \/ TxIgnore \/ suscli_analyzer_client_list_increment_epoch
              \/ suscli_analyzer_client_list_force_shutdown \/ TxHalted
       PROVE  UNCHANGED aq
  BY <1>12 DEF TxRead, TxBlocked, TxDangling, TxIgnore, suscli_analyzer_client_list_increment_epoch,
     suscli_analyzer_client_list_force_shutdown, TxHalted
<1>13. ASSUME TxOpen PROVE \E t : Closes(t) /\ aq' = (aq \o <<NewSetId>>) \o t
  BY <1>13, PushSteps DEF NewSetId
<1>14. ASSUME TxClose \/ TxReply PROVE \E t : Closes(t) /\ aq' = aq \o t
  BY <1>14, PushSteps
<1>15. ASSUME suscli_analyzer_client_list_broadcast_unsafe
       PROVE  UNCHANGED aq \/ \E t : Closes(t) /\ aq' = aq \o t
  <2>1. UNCHANGED aq \/ \E c \in listed : suscli_analyzer_server_kick_client(c)
    BY <1>15 DEF suscli_analyzer_client_list_broadcast_unsafe, Audience
  <2> QED
    BY <1>0, <2>1, KickStep
<1> DEFINE G1 == \E t : Closes(t) /\ aq' = aq \o t
           G2 == \E g : AqGain(g) /\ aq' = Append(aq, g)
           G3 == \E t : Closes(t) /\ aq' = (aq \o <<NewSetId>>) \o t
<1> HIDE DEF G1, G2, G3
<1>16. ASSUME suscli_analyzer_server_rx_thread PROVE UNCHANGED aq \/ aq' = <<>> \/ G1 \/ G2
  BY <1>16, <1>3, <1>4, <1>5, <1>6, <1>7, <1>8, <1>9, <1>10
     DEF suscli_analyzer_server_rx_thread, RxServe, G1, G2
<1>17. ASSUME suscli_analyzer_server_tx_thread PROVE UNCHANGED aq \/ G1 \/ G2 \/ (TxOpen /\ G3)
  BY <1>17, <1>11, <1>12, <1>13, <1>14, <1>15 DEF suscli_analyzer_server_tx_thread, G1, G2, G3
<1>18. UNCHANGED aq \/ aq' = <<>> \/ AnalyzerAnswers \/ G1 \/ G2 \/ (TxOpen /\ G3)
  BY <1>1, <1>2, <1>16, <1>17 DEF Next
<1> QED
  BY <1>18 DEF G1, G2, G3

LEMMA AqGainOK ==
  ASSUME ClientsInv, ListInv, InboxInv, MessageInv, NEW g, AqGain(g)
  PROVE  AqOK(g, Accepted)
<1>1. CASE g = SetMsg
  <2>1. /\ g.kind = "set" /\ g.req = NoReq /\ g.glob = NoHandle /\ g.id = NoHandle
        /\ g = Msg(g.kind, g.req, g.glob, g.id) /\ NoReq[1] = None /\ NoReq = <<NoReq[1], NoReq[2]>>
    BY <1>1 DEF SetMsg, Msg, NoReq
  <2> QED
    BY <2>1 DEF AqOK, MsgOK, IdOK, ToAnalyzer
<1>2. ASSUME NEW c \in rx.todo, suscli_analyzer_server_on_open(c), NEW k \in {"open", "noop"},
             g = Msg(k, GlobalId(c), NoHandle, NoHandle)
      PROVE  AqOK(g, Accepted)
  <2> DEFINE r == GlobalId(c)
  <2>1. IsRequest(r) /\ r[1] = c /\ c \in listed /\ c \in Clients
    BY <1>2, RequestFacts DEF Requesting
  <2>2. c \in Accepted /\ r = <<r[1], r[2]>> /\ c # None
    BY <2>1, DevServAssumption DEF ListInv, Accepted, IsRequest
  <2>3. /\ g.kind = k /\ g.req = r /\ g.glob = NoHandle /\ g.id = NoHandle
        /\ g = Msg(g.kind, g.req, g.glob, g.id)
    BY <1>2 DEF Msg
  <2> HIDE DEF r
  <2> QED
    BY <2>1, <2>2, <2>3 DEF AqOK, MsgOK, IdOK, ToAnalyzer
<1>3. ASSUME NEW c \in rx.todo, suscli_analyzer_client_intercept_message(c), g = CallMsg(c)
      PROVE  AqOK(g, Accepted)
  BY <1>3, CallMsgFacts
<1>4. CASE suscli_analyzer_server_on_set_id /\ g = rx.msg
  BY <1>4 DEF suscli_analyzer_server_on_set_id, MessageInv
<1>5. CASE TxOpenOrphan /\ g = OrphanClose
  <2> DEFINE m == tx.msg
  <2>1. MqOK(m, Accepted) /\ m.kind = "open"
    BY <1>5 DEF TxOpenOrphan, Working, MessageInv
  <2>2. /\ g.kind = "close" /\ g.req = m.req /\ g.glob = m.glob /\ g.id = NoHandle
        /\ g = Msg(g.kind, g.req, g.glob, g.id)
    BY <1>5 DEF OrphanClose, Msg
  <2>3. m.glob # NoHandle
    BY <2>1 DEF MqOK, Handle, NoHandle
  <2> HIDE DEF m
  <2> QED
    BY <2>1, <2>2, <2>3 DEF MqOK, AqOK, MsgOK, IdOK, ToAnalyzer
<1> QED
  BY <1>1, <1>2, <1>3, <1>4, <1>5 DEF AqGain

MqGain(g) ==
  \/ AnalyzerSamples /\ \E h \in DOMAIN ana.insp : g = Msg("samples", NoReq, h, ana.insp[h])
  \/ AnalyzerHalts /\ g = HALT
  \/ \E c \in rx.todo : /\ suscli_analyzer_server_on_wrong_handle(c)
                        /\ g = Msg("wrong_handle", GlobalId(c), NoHandle, NoHandle)

LEMMA MqSteps ==
  ASSUME Next
  PROVE  \/ UNCHANGED mq \/ (RxPoll /\ mq' = <<>>)
         \/ TxRead \/ AnalyzerAnswers
         \/ \E g : MqGain(g) /\ mq' = Append(mq, g)
<1>1. ASSUME NEW c \in Clients, Connect(c) \/ Disconnect(c) \/ Send(c) PROVE UNCHANGED mq
  BY <1>1 DEF Connect, Disconnect, Send
<1>2. ASSUME AnalyzerSamples PROVE \E g : MqGain(g) /\ mq' = Append(mq, g)
  BY <1>2 DEF AnalyzerSamples, MqGain
<1>3. ASSUME AnalyzerHalts PROVE \E g : MqGain(g) /\ mq' = Append(mq, g)
  BY <1>3 DEF AnalyzerHalts, MqGain
<1>4. ASSUME RxPoll PROVE UNCHANGED mq \/ mq' = <<>>
  BY <1>4 DEF RxPoll, suscli_analyzer_server_clean_dead_threads
<1>5. ASSUME \/ suscli_analyzer_server_register_clients \/ suscli_analyzer_client_list_attempt_cleanup
             \/ suscli_analyzer_server_on_set_id
      PROVE  UNCHANGED mq
  BY <1>5 DEF suscli_analyzer_server_register_clients, suscli_analyzer_client_list_attempt_cleanup,
     suscli_analyzer_server_on_set_id
<1>6. ASSUME NEW c \in rx.todo,
             \/ RxSkip(c) \/ RxEof(c) \/ suscli_analyzer_server_process_auth_message(c)
             \/ RejectClient(c) \/ RxProtocolError(c) \/ DeliverSetting(c) \/ DeliverHalt(c)
             \/ suscli_analyzer_server_on_open(c) \/ suscli_analyzer_client_intercept_message(c)
      PROVE  UNCHANGED mq
  BY <1>6 DEF RxSkip, RxEof, suscli_analyzer_server_process_auth_message, RejectClient,
     RxProtocolError, DeliverSetting, DeliverHalt, suscli_analyzer_server_on_open,
     suscli_analyzer_client_intercept_message
<1>7. ASSUME NEW c \in rx.todo, suscli_analyzer_server_on_wrong_handle(c)
      PROVE  \E g : MqGain(g) /\ mq' = Append(mq, g)
  BY <1>7 DEF suscli_analyzer_server_on_wrong_handle, MqGain
<1>8. ASSUME suscli_analyzer_server_tx_thread PROVE TxRead \/ UNCHANGED mq
  BY <1>8 DEF suscli_analyzer_server_tx_thread, TxBlocked, TxDangling, TxOpenOrphan, TxOpen, TxClose,
     TxReply, TxIgnore, suscli_analyzer_client_list_broadcast_unsafe,
     suscli_analyzer_client_list_increment_epoch, suscli_analyzer_client_list_force_shutdown, TxHalted
<1> DEFINE G == \E g : MqGain(g) /\ mq' = Append(mq, g)
<1> HIDE DEF G
<1>9. ASSUME suscli_analyzer_server_rx_thread PROVE UNCHANGED mq \/ (RxPoll /\ mq' = <<>>) \/ G
  BY <1>9, <1>4, <1>5, <1>6, <1>7 DEF suscli_analyzer_server_rx_thread, RxServe, G
<1>10. UNCHANGED mq \/ (RxPoll /\ mq' = <<>>) \/ TxRead \/ AnalyzerAnswers \/ G
  BY <1>1, <1>2, <1>3, <1>8, <1>9 DEF Next, G
<1> QED
  BY <1>10 DEF G

LEMMA MqGainOK ==
  ASSUME ListInv, InboxInv, MessageInv, NEW g, MqGain(g)
  PROVE  /\ MqOK(g, Accepted) /\ (g.kind = "halt" => g = HALT)
         /\ g.kind # "open"
<1>1. ASSUME NEW h \in DOMAIN ana.insp, g = Msg("samples", NoReq, h, ana.insp[h])
      PROVE  MqOK(g, Accepted) /\ g.kind = "samples"
  <2>1. GlobOK(h) /\ IdOK(ana.insp[h], h)
    BY DEF MessageInv
  <2>2. /\ g.kind = "samples" /\ g.req = NoReq /\ g.glob = h /\ g.id = ana.insp[h]
        /\ g = Msg(g.kind, g.req, g.glob, g.id) /\ NoReq[1] = None /\ NoReq = <<NoReq[1], NoReq[2]>>
    BY <1>1 DEF Msg, NoReq
  <2> QED
    BY <2>1, <2>2 DEF MqOK, MsgOK, OfAnalyzer, Messages
<1>2. CASE g = HALT
  <2>1. /\ g.kind = "halt" /\ g.req = NoReq /\ g.glob = NoHandle /\ g.id = NoHandle
        /\ g = Msg(g.kind, NoReq, NoHandle, NoHandle)
        /\ NoReq[1] = None /\ NoReq = <<NoReq[1], NoReq[2]>>
    BY <1>2 DEF HALT, Msg, NoReq
  <2> QED
    BY <1>2, <2>1 DEF MqOK, MsgOK, IdOK, OfAnalyzer
<1>3. ASSUME NEW c \in rx.todo, suscli_analyzer_server_on_wrong_handle(c),
             g = Msg("wrong_handle", GlobalId(c), NoHandle, NoHandle)
      PROVE  MqOK(g, Accepted) /\ g.kind = "wrong_handle"
  <2> DEFINE r == GlobalId(c)
  <2>1. IsRequest(r) /\ r[1] = c /\ c \in listed /\ c \in Clients
    BY <1>3, RequestFacts DEF Requesting
  <2>2. c \in Accepted /\ r = <<r[1], r[2]>>
    BY <2>1 DEF ListInv, Accepted, IsRequest
  <2>3. /\ g.kind = "wrong_handle" /\ g.req = r /\ g.glob = NoHandle /\ g.id = NoHandle
        /\ g = Msg(g.kind, g.req, g.glob, g.id)
    BY <1>3 DEF Msg
  <2> HIDE DEF r
  <2> QED
    BY <2>1, <2>2, <2>3 DEF MqOK, MsgOK, IdOK, OfAnalyzer, Messages
<1> QED
  BY <1>1, <1>2, <1>3 DEF MqGain, HALT, Msg

\* The message in the hands of the tx thread
LEMMA TxMsgSteps ==
  ASSUME ServerInv, MessageInv, Next
  PROVE  \/ tx'.msg = tx.msg \/ tx'.msg = None
         \/ TxRead /\ tx'.msg = Head(mq) /\ Head(mq) # HALT /\ tx'.pc = "lock"
<1>1. ASSUME UNCHANGED tx PROVE tx'.msg = tx.msg
  BY <1>1
<1>2. ASSUME NEW c \in rx.todo, suscli_analyzer_server_process_auth_message(c)
      PROVE  tx'.msg = tx.msg \/ tx'.msg = None
  BY <1>2 DEF suscli_analyzer_server_process_auth_message, suscli_analyzer_server_start_analyzer
<1>3. ASSUME TxRead
      PROVE  \/ tx'.msg = tx.msg
             \/ tx'.msg = Head(mq) /\ Head(mq) # HALT /\ tx'.pc = "lock"
  BY <1>3 DEF TxRead, TxAt, ServerInv
<1>4. ASSUME \/ TxBlocked \/ TxDangling \/ TxHalted \/ suscli_analyzer_client_list_increment_epoch
             \/ suscli_analyzer_client_list_force_shutdown
      PROVE  tx'.msg = tx.msg
  <2>1. \E p : tx' = [tx EXCEPT !.pc = p]
    BY <1>4 DEF TxBlocked, TxDangling, TxHalted, suscli_analyzer_client_list_increment_epoch,
       suscli_analyzer_client_list_force_shutdown, TxAt
  <2> QED
    BY <2>1 DEF ServerInv
<1>5. ASSUME \/ TxOpenOrphan \/ TxOpen \/ TxClose \/ TxReply \/ TxIgnore
             \/ suscli_analyzer_client_list_broadcast_unsafe
      PROVE  tx'.msg = None
  <2>1. tx' = [pc |-> "read", msg |-> None]
    BY <1>5 DEF TxOpenOrphan, TxOpen, TxClose, TxReply, TxIgnore,
       suscli_analyzer_client_list_broadcast_unsafe, TxDone
  <2> QED
    BY <2>1
<1>6. ASSUME NEW c \in Clients, Connect(c) \/ Disconnect(c) \/ Send(c) PROVE UNCHANGED tx
  BY <1>6 DEF Connect, Disconnect, Send
<1>7. ASSUME AnalyzerSamples \/ AnalyzerHalts \/ AnalyzerAnswers PROVE UNCHANGED tx
  BY <1>7 DEF AnalyzerSamples, AnalyzerHalts, AnalyzerAnswers
<1>8. ASSUME \/ RxPoll \/ suscli_analyzer_server_register_clients
             \/ suscli_analyzer_client_list_attempt_cleanup \/ suscli_analyzer_server_on_set_id
      PROVE  UNCHANGED tx
  BY <1>8 DEF RxPoll, suscli_analyzer_server_register_clients,
     suscli_analyzer_client_list_attempt_cleanup, suscli_analyzer_server_on_set_id
<1>9. ASSUME NEW c \in rx.todo,
             \/ RxSkip(c) \/ RxEof(c)
             \/ RejectClient(c) \/ RxProtocolError(c) \/ DeliverSetting(c) \/ DeliverHalt(c)
             \/ suscli_analyzer_server_on_open(c) \/ suscli_analyzer_client_intercept_message(c)
             \/ suscli_analyzer_server_on_wrong_handle(c)
      PROVE  UNCHANGED tx
  BY <1>9 DEF RxSkip, RxEof, RejectClient, suscli_analyzer_server_on_wrong_handle,
     RxProtocolError, DeliverSetting, DeliverHalt, suscli_analyzer_server_on_open,
     suscli_analyzer_client_intercept_message
<1>10. ASSUME suscli_analyzer_server_rx_thread PROVE tx'.msg = tx.msg \/ tx'.msg = None
  BY <1>10, <1>1, <1>2, <1>8, <1>9 DEF suscli_analyzer_server_rx_thread, RxServe
<1> QED
  BY <1>1, <1>3, <1>4, <1>5, <1>6, <1>7, <1>10 DEF Next, suscli_analyzer_server_tx_thread

\* The message in the hands of the rx thread
LEMMA RxMsgSteps ==
  ASSUME ListInv, Next, rx'.pc = "set_id"
  PROVE  \/ rx.pc = "set_id" /\ UNCHANGED rx
         \/ \E c \in rx.todo : suscli_analyzer_client_intercept_message(c)
<1> DEFINE Away == rx'.pc # "set_id"
<1>0. ASSUME NEW c, rx' = Served(c) PROVE Away
  <2>1. \E x : \/ rx' = [rx EXCEPT !.pc = "cleanup", !.todo = x, !.c = None, !.msg = None]
               \/ rx' = [rx EXCEPT !.pc = "clients", !.todo = x, !.c = None, !.msg = None]
    BY <1>0 DEF Served
  <2> QED
    BY <2>1 DEF ListInv
<1>1. ASSUME NEW p, p # "set_id", rx' = At(p) PROVE Away
  BY <1>1 DEF At, ListInv
<1>2. ASSUME UNCHANGED rx PROVE rx.pc = "set_id"
  BY <1>2
<1>3. ASSUME RxPoll PROVE Away
  <2>1. \/ rx' = At("accept")
        \/ \E x : rx' = [[rx EXCEPT !.pc = "clients"] EXCEPT !.todo = x]
    BY <1>3 DEF RxPoll, At
  <2>2. ASSUME NEW x, rx' = [[rx EXCEPT !.pc = "clients"] EXCEPT !.todo = x] PROVE Away
    BY <2>2 DEF ListInv
  <2> QED
    BY <1>1, <2>1, <2>2
<1>4. ASSUME \/ suscli_analyzer_server_register_clients \/ suscli_analyzer_client_list_attempt_cleanup
      PROVE  Away
  <2>1. rx' = At("cleanup") \/ rx' = At("dead") \/ rx' = At("poll")
    BY <1>4 DEF suscli_analyzer_server_register_clients, suscli_analyzer_client_list_attempt_cleanup
  <2> QED
    BY <1>1, <2>1
<1>5. ASSUME suscli_analyzer_server_on_set_id PROVE Away
  <2>1. rx' = Served(rx.c) \/ rx' = At("crashed")
    BY <1>5 DEF suscli_analyzer_server_on_set_id, Write
  <2> QED
    BY <1>0, <1>1, <2>1
<1>6. ASSUME NEW c \in rx.todo,
             \/ RxSkip(c) \/ RxEof(c) \/ suscli_analyzer_server_process_auth_message(c)
             \/ RejectClient(c) \/ RxProtocolError(c) \/ DeliverSetting(c) \/ DeliverHalt(c)
             \/ suscli_analyzer_server_on_open(c) \/ suscli_analyzer_server_on_wrong_handle(c)
      PROVE  Away
  <2>1. rx' = Served(c) \/ rx' = At("crashed") \/ rx' = At("dead")
    BY <1>6 DEF RxSkip, RxEof, suscli_analyzer_server_process_auth_message, RejectClient,
       RxProtocolError, DeliverSetting, DeliverHalt, suscli_analyzer_server_on_open, Write,
       suscli_analyzer_server_on_wrong_handle
  <2> QED
    BY <1>0, <1>1, <2>1
<1> HIDE DEF Away
<1>7. ASSUME NEW c \in Clients, Connect(c) \/ Disconnect(c) PROVE UNCHANGED rx
  BY <1>7 DEF Connect, Disconnect
<1>8. \/ UNCHANGED rx \/ Away
      \/ \E c \in rx.todo : suscli_analyzer_client_intercept_message(c)
  BY <1>3, <1>4, <1>5, <1>6, <1>7, ListSteps DEF suscli_analyzer_server_rx_thread, RxServe, ListVars
<1> QED
  BY <1>2, <1>8 DEF Away

\* What waits for the analyzer, message by message
LEMMA AqElements ==
  ASSUME ClientsInv, ListInv, ReqInv, ItlInv, InboxInv, MessageInv, ServerInv, Next
  PROVE  /\ IsSequence(aq')
         /\ \A m \in ToSet(aq') : \/ m \in ToSet(aq) \/ IsClose(m) \/ AqGain(m)
                                  \/ TxOpen /\ m = NewSetId
<1>0. IsSequence(aq)
  BY DEF MessageInv
<1>1. CASE UNCHANGED aq \/ aq' = <<>>
  BY <1>0, <1>1, EmptySequence
<1>2. CASE AnalyzerAnswers
  BY <1>0, <1>2, AnswerFacts, TailSeq
<1>3. ASSUME NEW t, Closes(t), aq' = aq \o t
      PROVE  IsSequence(aq') /\ \A m \in ToSet(aq') : m \in ToSet(aq) \/ IsClose(m)
  BY <1>0, <1>3, ConcatSeq DEF Closes
<1>4. ASSUME NEW g, AqGain(g), aq' = Append(aq, g)
      PROVE  IsSequence(aq') /\ \A m \in ToSet(aq') : m \in ToSet(aq) \/ AqGain(m)
  <2>1. IsSequence(aq') /\ ToSet(aq') = ToSet(aq) \cup {g}
    BY <1>0, <1>4, AppendSeq
  <2> QED
    BY <1>4, <2>1
<1>5. ASSUME NEW t, Closes(t), aq' = (aq \o <<NewSetId>>) \o t
      PROVE  IsSequence(aq') /\ \A m \in ToSet(aq') : m \in ToSet(aq) \/ IsClose(m) \/ m = NewSetId
  <2> DEFINE s == aq \o <<NewSetId>>
  <2>1. s = Append(aq, NewSetId)
    BY <1>0 DEF IsSequence
  <2> HIDE DEF s
  <2>2. IsSequence(s) /\ ToSet(s) = ToSet(aq) \cup {NewSetId}
    BY <1>0, <2>1, AppendSeq
  <2>3. IsSequence(s \o t) /\ ToSet(s \o t) = ToSet(s) \cup ToSet(t)
    BY <1>5, <2>2, ConcatSeq DEF Closes
  <2>4. aq' = s \o t
    BY <1>5 DEF s
  <2> QED
    BY <1>5, <2>2, <2>3, <2>4 DEF Closes
<1> QED
  BY <1>1, <1>2, <1>3, <1>4, <1>5, AqSteps

\* What waits for the tx thread, message by message
LEMMA MqElements ==
  ASSUME MessageInv, ServerInv, Next
  PROVE  /\ IsSequence(mq')
         /\ \A m \in ToSet(mq') : \/ m \in ToSet(mq) \/ MqGain(m)
                                  \/ AnalyzerAnswers /\ mq' = Append(mq, m)
<1>0. IsSequence(mq)
  BY DEF MessageInv
<1>1. CASE UNCHANGED mq \/ mq' = <<>>
  BY <1>0, <1>1, EmptySequence
<1>2. CASE TxRead
  <2>1. mq # <<>> /\ mq' = Tail(mq)
    BY <1>2 DEF TxRead
  <2> QED
    BY <1>0, <2>1, TailSeq
<1>3. CASE AnalyzerAnswers
  <2>1. PICK a : mq' = Append(mq, a)
    BY <1>3, AnswerFacts
  <2>2. IsSequence(mq') /\ ToSet(mq') = ToSet(mq) \cup {a}
    BY <1>0, <2>1, AppendSeq
  <2> QED
    BY <1>3, <2>1, <2>2
<1>4. ASSUME NEW g, MqGain(g), mq' = Append(mq, g)
      PROVE  IsSequence(mq') /\ \A m \in ToSet(mq') : m \in ToSet(mq) \/ MqGain(m)
  <2>1. IsSequence(mq') /\ ToSet(mq') = ToSet(mq) \cup {g}
    BY <1>0, <1>4, AppendSeq
  <2> QED
    BY <1>4, <2>1
<1> QED
  BY <1>1, <1>2, <1>3, <1>4, MqSteps

LEMMA InspSteps ==
  ASSUME ServerInv, Next
  PROVE  UNCHANGED ana.insp \/ ana'.insp = <<>> \/ AnalyzerAnswers
<1>1. CASE UNCHANGED ServerVars
  BY <1>1 DEF ServerVars
<1>2. CASE AnalyzerHalts
  BY <1>2 DEF AnalyzerHalts, ServerInv
<1>3. CASE RxPoll
  BY <1>3 DEF RxPoll, suscli_analyzer_server_clean_dead_threads
<1>4. ASSUME NEW c \in rx.todo, suscli_analyzer_server_process_auth_message(c)
      PROVE  UNCHANGED ana.insp
  BY <1>4 DEF suscli_analyzer_server_process_auth_message, suscli_analyzer_server_start_analyzer,
     ServerInv
<1>5. ASSUME NEW c \in rx.todo, DeliverHalt(c) PROVE UNCHANGED ana.insp
  BY <1>5 DEF DeliverHalt, suscan_analyzer_req_halt, ServerInv
<1>6. ASSUME NEW c \in rx.todo,
             \/ RxEof(c) \/ RejectClient(c) \/ DeliverSetting(c) \/ suscli_analyzer_server_on_open(c)
             \/ suscli_analyzer_client_intercept_message(c)
      PROVE  UNCHANGED ana.insp
  BY <1>6 DEF RxEof, RejectClient, DeliverSetting, suscli_analyzer_server_on_open,
     suscli_analyzer_client_intercept_message
<1>7. CASE suscli_analyzer_server_on_set_id
  BY <1>7 DEF suscli_analyzer_server_on_set_id
<1>8. CASE suscli_analyzer_client_list_attempt_cleanup
  BY <1>8 DEF suscli_analyzer_client_list_attempt_cleanup, suscan_analyzer_req_halt, ServerInv
<1>9. CASE suscli_analyzer_server_tx_thread
  BY <1>9 DEF suscli_analyzer_server_tx_thread, TxRead, TxBlocked, TxDangling, TxOpenOrphan, TxOpen, TxClose,
     TxReply, TxIgnore, suscli_analyzer_client_list_broadcast_unsafe,
     suscli_analyzer_client_list_increment_epoch, suscli_analyzer_client_list_force_shutdown, TxHalted
<1> QED
  BY <1>1, <1>2, <1>3, <1>4, <1>5, <1>6, <1>7, <1>8, <1>9, ServerSteps

LEMMA NewSetIdFacts ==
  ASSUME ListInv, ReqInv, ItlInv, MessageInv, TxOpen
  PROVE  /\ AqOK(NewSetId, Accepted) /\ NewSetId.id = OpenId(tx.msg) /\ NewSetId.kind = "set_id"
         /\ NewSetId.req[1] = None
<1> DEFINE m == tx.msg
           n == NewSetId
<1>1. MqOK(m, Accepted) /\ m.glob = Handle("glob", m.req) /\ IsRequest(m.req)
  BY TxOpenFacts
<1>2. /\ n.kind = "set_id" /\ n.req = IdReq /\ n.glob = m.glob /\ n.id = OpenId(m)
      /\ n = Msg(n.kind, n.req, n.glob, n.id) /\ IdReq[1] = None /\ IdReq = <<IdReq[1], IdReq[2]>>
  BY DEF NewSetId, Msg, IdReq
<1>3. GlobOK(m.glob) /\ IdOK(OpenId(m), m.glob)
  BY <1>1 DEF GlobOK, IdOK, OpenId, Handle, NoHandle
<1> HIDE DEF m, n
<1>4. AqOK(n, Accepted)
  BY <1>2, <1>3 DEF AqOK, MsgOK, ToAnalyzer
<1> QED
  BY <1>2, <1>4 DEF m, n

LEMMA MessageInvStep ==
  ASSUME ClientsInv, ListInv, ReqInv, ItlInv, InboxInv, MessageInv, ServerInv, Next
  PROVE  MessageInv'
<1>1. Accepted \subseteq Accepted'
  BY AcceptedGrows
<1>2. IsSequence(aq') /\ \A m \in ToSet(aq') : AqOK(m, Accepted')
  <2>1. ASSUME NEW m \in ToSet(aq') PROVE AqOK(m, Accepted)
    <3>1. CASE m \in ToSet(aq)
      BY <3>1 DEF MessageInv
    <3>2. CASE IsClose(m)
      BY <3>2, CloseOK
    <3>3. CASE AqGain(m)
      BY <3>3, AqGainOK
    <3>4. CASE TxOpen /\ m = NewSetId
      BY <3>4, NewSetIdFacts
    <3> QED
      BY <3>1, <3>2, <3>3, <3>4, AqElements
  <2> QED
    BY <1>1, <2>1, MsgStays, AqElements
<1>3. IsSequence(mq') /\ \A m \in ToSet(mq') : MqOK(m, Accepted')
  <2>1. ASSUME NEW m \in ToSet(mq') PROVE MqOK(m, Accepted)
    <3>1. CASE m \in ToSet(mq)
      BY <3>1 DEF MessageInv
    <3>2. CASE MqGain(m)
      BY <3>2, MqGainOK
    <3>3. CASE AnalyzerAnswers /\ mq' = Append(mq, m)
      <4>1. PICK a : mq' = Append(mq, a) /\ MqOK(a, Accepted)
        BY <3>3, AnswerFacts
      <4>2. Append(mq, a)[Len(mq) + 1] = a /\ Append(mq, m)[Len(mq) + 1] = m
        BY AppendSeq DEF MessageInv
      <4> QED
        BY <3>3, <4>1, <4>2
    <3> QED
      BY <3>1, <3>2, <3>3, MqElements
  <2> QED
    BY <1>1, <2>1, MsgStays, MqElements
<1>4. tx'.msg # None => MqOK(tx'.msg, Accepted') /\ tx'.msg.kind # "halt"
  <2>1. CASE tx'.msg = tx.msg
    BY <1>1, <2>1, MsgStays DEF MessageInv
  <2>2. CASE TxRead /\ tx'.msg = Head(mq) /\ Head(mq) # HALT
    <3>1. MqOK(Head(mq), Accepted)
      BY <2>2, TailSeq DEF TxRead, MessageInv
    <3>2. Head(mq).kind # "halt"
      BY <2>2, <3>1 DEF MqOK, HALT
    <3> QED
      BY <1>1, <2>2, <3>1, <3>2, MsgStays
  <2> QED
    BY <2>1, <2>2, TxMsgSteps
<1>5. rx'.pc = "set_id" => AqOK(rx'.msg, Accepted') /\ rx'.msg.kind = "set_id"
  <2>1. CASE rx.pc = "set_id" /\ UNCHANGED rx
    BY <1>1, <2>1, MsgStays DEF MessageInv
  <2>2. ASSUME NEW c \in rx.todo, suscli_analyzer_client_intercept_message(c), rx'.pc = "set_id"
        PROVE  AqOK(rx'.msg, Accepted') /\ rx'.msg.kind = "set_id"
    <3>1. rx'.msg = CallMsg(c) /\ CallMsg(c).kind = "set_id" /\ AqOK(CallMsg(c), Accepted)
      BY <2>2, CallMsgFacts
    <3> QED
      BY <1>1, <3>1, MsgStays
  <2> QED
    BY <2>1, <2>2, RxMsgSteps
<1>6. \A h \in DOMAIN ana'.insp : GlobOK(h) /\ IdOK(ana'.insp[h], h)
  <2>1. CASE UNCHANGED ana.insp \/ ana'.insp = <<>>
    BY <2>1 DEF MessageInv
  <2>2. CASE AnalyzerAnswers
    BY <2>2, AnswerFacts
  <2> QED
    BY <2>1, <2>2, InspSteps
<1> QED
  BY <1>2, <1>3, <1>4, <1>5, <1>6 DEF MessageInv

\* The analyzer starts.
Starting ==
  \E c \in rx.todo : /\ suscli_analyzer_server_process_auth_message(c)
                     /\ suscli_analyzer_server_start_analyzer

LEMMA StartFacts ==
  ASSUME ServerInv, Starting
  PROVE  /\ ana.state = "none" /\ ~Running /\ aq' = <<>> /\ ana'.insp = <<>>
         /\ tx'.msg = None /\ Running' /\ UNCHANGED <<mq, itl, listed, epoch, req, out, calls>>
<1>1. /\ ana.state = "none" /\ ana' = [ana EXCEPT !.state = "running"]
      /\ tx' = [pc |-> "read", msg |-> None] /\ UNCHANGED <<aq, mq, itl, listed, epoch, req, out, calls>>
  BY DEF Starting, suscli_analyzer_server_process_auth_message, suscli_analyzer_server_start_analyzer
<1>2. ~Running /\ aq = <<>> /\ ana.insp = <<>>
  BY <1>1 DEF ServerInv, Running
<1>3. ana'.insp = ana.insp
  BY <1>1 DEF ServerInv
<1>4. tx'.msg = None /\ tx'.pc = "read"
  BY <1>1
<1> QED
  BY <1>1, <1>2, <1>3, <1>4 DEF Running

LEMMA RunningSteps ==
  ASSUME ServerInv, Next
  PROVE  \/ Running' = Running
         \/ TxRead /\ Head(mq) = HALT /\ ~Running'
         \/ Starting
<1>1. CASE UNCHANGED tx
  BY <1>1 DEF Running
<1>2. CASE TxRead
  BY <1>2 DEF TxRead, TxAt, Running, ServerInv
<1>3. CASE \/ TxBlocked \/ TxDangling \/ TxHalted \/ suscli_analyzer_client_list_increment_epoch
           \/ suscli_analyzer_client_list_force_shutdown
  BY <1>3 DEF TxBlocked, TxDangling, TxHalted, suscli_analyzer_client_list_increment_epoch,
     suscli_analyzer_client_list_force_shutdown, TxAt, Running, ServerInv
<1>4. CASE \/ TxOpenOrphan \/ TxOpen \/ TxClose \/ TxReply \/ TxIgnore
           \/ suscli_analyzer_client_list_broadcast_unsafe
  <2>1. tx' = [pc |-> "read", msg |-> None] /\ tx.msg # None
    BY <1>4 DEF TxOpenOrphan, TxOpen, TxClose, TxReply, TxIgnore, Working,
       suscli_analyzer_client_list_broadcast_unsafe, TxDone
  <2>2. tx'.pc = "read" /\ tx.pc \in {"lock", "work", "kick", "crashed"}
    BY <2>1 DEF ServerInv
  <2> QED
    BY <2>2 DEF Running
<1>5. UNCHANGED tx \/ Starting \/ suscli_analyzer_server_tx_thread
  <2>1. CASE AnalyzerAnswers \/ AnalyzerHalts \/ RxPoll \/ suscli_analyzer_server_on_set_id
             \/ suscli_analyzer_client_list_attempt_cleanup
    BY <2>1 DEF AnalyzerAnswers, AnalyzerHalts, RxPoll, suscli_analyzer_server_on_set_id,
       suscli_analyzer_client_list_attempt_cleanup
  <2>2. ASSUME NEW c \in rx.todo,
               \/ RxEof(c) \/ RejectClient(c) \/ DeliverSetting(c) \/ DeliverHalt(c)
               \/ suscli_analyzer_server_on_open(c) \/ suscli_analyzer_client_intercept_message(c)
        PROVE  UNCHANGED tx
    BY <2>2 DEF RxEof, RejectClient, DeliverSetting, DeliverHalt, suscli_analyzer_server_on_open,
       suscli_analyzer_client_intercept_message
  <2>3. ASSUME NEW c \in rx.todo, suscli_analyzer_server_process_auth_message(c)
        PROVE  UNCHANGED tx \/ Starting
    BY <2>3 DEF suscli_analyzer_server_process_auth_message, Starting
  <2> QED
    BY <2>1, <2>2, <2>3, ServerSteps DEF ServerVars
<1> QED
  BY <1>1, <1>2, <1>3, <1>4, <1>5 DEF suscli_analyzer_server_tx_thread

LEMMA StateSteps ==
  ASSUME ServerInv, Next, ana'.state = "running"
  PROVE  (ana.state = "running" /\ ~AnalyzerHalts) \/ Starting
<1>1. CASE UNCHANGED ana /\ ~AnalyzerHalts
  BY <1>1
<1>2. CASE AnalyzerHalts
  BY <1>2 DEF AnalyzerHalts, ServerInv
<1>3. CASE ana' = [ana EXCEPT !.insp = ana'.insp] /\ ~AnalyzerHalts
  BY <1>3 DEF ServerInv
<1>4. CASE ana' = [ana EXCEPT !.halt = ana'.halt] /\ ~AnalyzerHalts
  BY <1>4 DEF ServerInv
<1>5. CASE AnalyzerAnswers
  <2>1. \E f : ana' = [ana EXCEPT !.insp = f]
    BY <1>5 DEF AnalyzerAnswers, suscan_local_analyzer_parse_inspector_msg, ServerInv
  <2>2. ana'.state = ana.state
    BY <2>1 DEF ServerInv
  <2> QED
    BY <1>2, <2>2
<1>6. CASE RxPoll
  BY <1>2, <1>6 DEF RxPoll, suscli_analyzer_server_clean_dead_threads
<1>7. ASSUME NEW c \in rx.todo, suscli_analyzer_server_process_auth_message(c)
      PROVE  Starting \/ UNCHANGED ana
  BY <1>7 DEF suscli_analyzer_server_process_auth_message, Starting
<1>8. ASSUME NEW c \in rx.todo, DeliverHalt(c) PROVE ana'.state = ana.state
  BY <1>8 DEF DeliverHalt, suscan_analyzer_req_halt, ServerInv
<1>9. ASSUME NEW c \in rx.todo,
             \/ RxEof(c) \/ RejectClient(c) \/ DeliverSetting(c) \/ suscli_analyzer_server_on_open(c)
             \/ suscli_analyzer_client_intercept_message(c)
      PROVE  UNCHANGED ana
  BY <1>9 DEF RxEof, RejectClient, DeliverSetting, suscli_analyzer_server_on_open,
     suscli_analyzer_client_intercept_message
<1>10. CASE suscli_analyzer_server_on_set_id \/ suscli_analyzer_server_tx_thread
  <2>1. UNCHANGED ana
    BY <1>10 DEF suscli_analyzer_server_on_set_id, suscli_analyzer_server_tx_thread, TxRead,
       TxBlocked, TxDangling, TxOpenOrphan, TxOpen, TxClose,
       TxReply, TxIgnore, suscli_analyzer_client_list_broadcast_unsafe,
       suscli_analyzer_client_list_increment_epoch, suscli_analyzer_client_list_force_shutdown,
       TxHalted
  <2> QED
    BY <1>2, <2>1
<1>11. CASE suscli_analyzer_client_list_attempt_cleanup
  <2>1. ana'.state = ana.state
    BY <1>11 DEF suscli_analyzer_client_list_attempt_cleanup, suscan_analyzer_req_halt, ServerInv
  <2> QED
    BY <1>2, <2>1
<1>12. UNCHANGED ServerVars => UNCHANGED ana
  BY DEF ServerVars
<1> QED
  BY <1>2, <1>5, <1>6, <1>7, <1>8, <1>9, <1>10, <1>11, <1>12, ServerSteps

\* What the analyzer says it says while it runs; the rest are refusals.
LEMMA MqGainFacts ==
  ASSUME ListInv, InboxInv, MessageInv, ServerInv, NEW g, MqGain(g)
  PROVE  Refusal(g) \/ (ana.state = "running" /\ Running /\ (g = HALT => AnalyzerHalts))
<1>1. CASE AnalyzerSamples \/ AnalyzerHalts
  <2>1. ana.state = "running" /\ Running
    BY <1>1 DEF AnalyzerSamples, AnalyzerHalts, ServerInv
  <2>2. AnalyzerHalts \/ \E h : g = Msg("samples", NoReq, h, ana.insp[h]) \/ Refusal(g)
    BY DEF MqGain, Refusal, Msg
  <2>3. \A h : Msg("samples", NoReq, h, ana.insp[h]) # HALT
    BY DEF Msg, HALT
  <2> QED
    BY <2>1, <2>2, <2>3
<1>2. ASSUME NEW c, g = Msg("wrong_handle", GlobalId(c), NoHandle, NoHandle) PROVE Refusal(g)
  BY <1>2 DEF Refusal, Msg
<1> QED
  BY <1>1, <1>2 DEF MqGain

LEMMA HaltLastStep ==
  ASSUME ListInv, InboxInv, MessageInv, ServerInv, HaltLast, Next
  PROVE  HaltLast'
<1>0. IsSequence(mq) /\ mq \in Seq(ToSet(mq))
  BY DEF MessageInv, IsSequence
<1>p. ~Refusal(HALT) /\ HALT.kind = "halt"
  BY DEF Refusal, HALT, Msg
<1>e. \A x : x \in ToSet(mq) <=> \E i \in 1 .. Len(mq) : mq[i] = x
  BY <1>0, ToSetFacts
<1>s. Starting => ana.state = "none" /\ ~Running /\ UNCHANGED mq
  BY StartFacts
<1>1. CASE UNCHANGED mq
  <2>1. ~(TxRead /\ Head(mq) = HALT)
    BY <1>0, <1>1, TailSeq DEF TxRead
  <2>2. ~Running' => ~Running
    BY <2>1, RunningSteps, StartFacts
  <2>3. ana'.state = "running" => HALT \notin ToSet(mq)
    BY <1>p, <1>s, StateSteps DEF HaltLast
  <2> QED
    BY <1>1, <2>2, <2>3 DEF HaltLast
<1>2. CASE mq' = <<>>
  BY <1>2, EmptySequence DEF HaltLast
<1>3. CASE TxRead
  <2>1. mq # <<>> /\ mq' = Tail(mq) /\ tx.pc = "read" /\ UNCHANGED ana
    BY <1>3 DEF TxRead
  <2>2. /\ IsSequence(mq') /\ ToSet(mq') \subseteq ToSet(mq) /\ Head(mq) = mq[1] /\ Len(mq) > 0
        /\ Len(mq') = Len(mq) - 1 /\ \A i \in 1 .. (Len(mq) - 1) : mq'[i] = mq[i + 1]
        /\ Len(mq) \in Nat
    BY <1>0, <2>1, TailSeq
  <2>3. ~Running' => mq[1] = HALT
    BY <2>1, <2>2, RunningSteps, StartFacts DEF Running
  <2>4. ~Running' => \A i \in 1 .. Len(mq') : Refusal(mq'[i])
    BY <2>2, <2>3 DEF HaltLast
  <2>5. ~Running' => \A m \in ToSet(mq') : Refusal(m)
    BY SMTT(30), <2>2, <2>4, ToSetFacts DEF IsSequence
  <2>6. \A i, j \in 1 .. Len(mq') : i < j /\ mq'[i] = HALT => Refusal(mq'[j])
    BY <2>2 DEF HaltLast
  <2> QED
    BY <2>1, <2>2, <2>5, <2>6 DEF HaltLast
<1>4. ASSUME NEW g, mq' = Append(mq, g), g = HALT => AnalyzerHalts,
             Refusal(g) \/ (ana.state = "running" /\ Running)
      PROVE  HaltLast'
  <2>1. /\ ToSet(mq') = ToSet(mq) \cup {g} /\ Len(mq') = Len(mq) + 1 /\ mq'[Len(mq) + 1] = g
        /\ \A i \in 1 .. Len(mq) : mq'[i] = mq[i]
        /\ Len(mq) \in Nat
    BY <1>0, <1>4, AppendSeq
  <2>2. ~(TxRead /\ Head(mq) = HALT)
    <3>1. TxRead => Len(mq') = Len(mq) - 1
      BY <1>0, TailSeq DEF TxRead
    <3> QED
      BY <2>1, <3>1
  <2>3. Running' = Running \/ Starting
    BY <2>2, RunningSteps
  <2>4. ~Running' => \A m \in ToSet(mq') : Refusal(m)
    BY <1>4, <1>s, <2>1, <2>3 DEF HaltLast
  <2>5. ASSUME NEW i \in 1 .. Len(mq'), NEW j \in 1 .. Len(mq'), i < j, mq'[i] = HALT
        PROVE  Refusal(mq'[j])
    <3>1. i \in 1 .. Len(mq) /\ mq[i] = HALT
      BY <2>1, <2>5
    <3>2. CASE j \in 1 .. Len(mq)
      BY <2>1, <2>5, <3>1, <3>2 DEF HaltLast
    <3>3. CASE j = Len(mq) + 1
      <4>1. ana.state # "running"
        BY <1>e, <3>1 DEF HaltLast
      <4> QED
        BY <1>4, <2>1, <3>3, <4>1
    <3> QED
      BY <2>1, <2>5, <3>2, <3>3
  <2>6. ana'.state = "running" => HALT \notin ToSet(mq')
    <3>1. SUFFICES ASSUME ana'.state = "running" PROVE HALT \notin ToSet(mq')
      OBVIOUS
    <3>2. CASE ana.state = "running" /\ ~AnalyzerHalts
      BY <1>4, <2>1, <3>2 DEF HaltLast
    <3>3. CASE Starting
      BY <1>p, <1>4, <1>s, <2>1, <3>3 DEF HaltLast
    <3> QED
      BY <3>1, <3>2, <3>3, StateSteps
  <2> QED
    BY <2>4, <2>5, <2>6 DEF HaltLast
<1>5. CASE AnalyzerAnswers
  <2>1. PICK a : mq' = Append(mq, a) /\ a.kind # "halt"
    BY <1>5, AnswerFacts
  <2>2. ana.state = "running" /\ Running
    BY <1>5 DEF AnalyzerAnswers, ServerInv
  <2> QED
    BY <1>4, <1>p, <2>1, <2>2
<1>6. ASSUME NEW g, MqGain(g), mq' = Append(mq, g) PROVE HaltLast'
  BY <1>4, <1>6, <1>p, MqGainFacts
<1> QED
  BY <1>1, <1>2, <1>3, <1>5, <1>6, MqSteps

LEMMA DistinctAppend ==
  ASSUME NEW s, IsSequence(s), Distinct(s), NEW g,
         Asked(g) => \A m \in ToSet(s) : m.req # g.req
  PROVE  Distinct(Append(s, g))
<1> DEFINE t == Append(s, g)
<1>1. /\ Len(t) = Len(s) + 1 /\ t[Len(s) + 1] = g /\ \A i \in 1 .. Len(s) : t[i] = s[i]
      /\ Len(s) \in Nat
  BY AppendSeq DEF IsSequence
<1>2. \A i \in 1 .. Len(s) : s[i] \in ToSet(s)
  BY ToSetFacts DEF IsSequence
<1> HIDE DEF t
<1>3. \A i \in 1 .. Len(t) : i \in 1 .. Len(s) \/ i = Len(s) + 1
  BY <1>1
<1>4. \A i \in 1 .. Len(s) : Asked(s[i]) \/ Asked(g) => s[i].req # g.req
  BY <1>2 DEF Asked
<1> SUFFICES ASSUME NEW i \in 1 .. Len(t), NEW j \in 1 .. Len(t), i # j, Asked(t[i])
             PROVE  t[i].req # t[j].req
  BY DEF Distinct, t
<1>5. CASE i \in 1 .. Len(s) /\ j \in 1 .. Len(s)
  BY <1>1, <1>5 DEF Distinct
<1>6. CASE i \in 1 .. Len(s) /\ j = Len(s) + 1
  BY <1>1, <1>4, <1>6
<1>7. CASE i = Len(s) + 1 /\ j \in 1 .. Len(s)
  BY <1>1, <1>4, <1>7
<1> QED
  BY <1>3, <1>5, <1>6, <1>7

LEMMA DistinctTail ==
  ASSUME NEW s, IsSequence(s), Distinct(s), s # <<>>
  PROVE  /\ Distinct(Tail(s))
         /\ Asked(Head(s)) => \A m \in ToSet(Tail(s)) : m.req # Head(s).req
<1> DEFINE t == Tail(s)
<1>1. /\ IsSequence(t) /\ Len(t) = Len(s) - 1 /\ Head(s) = s[1] /\ Len(s) > 0
      /\ \A i \in 1 .. (Len(s) - 1) : t[i] = s[i + 1]
      /\ Len(s) \in Nat
  BY TailSeq DEF IsSequence
<1> HIDE DEF t
<1>2. \A m \in ToSet(t) : \E i \in 1 .. Len(t) : t[i] = m
  BY <1>1, ToSetFacts DEF IsSequence
<1>3. Distinct(t)
  BY <1>1 DEF Distinct
<1>4. ASSUME Asked(Head(s)), NEW i \in 1 .. Len(t) PROVE t[i].req # Head(s).req
  <2>1. i + 1 \in 1 .. Len(s) /\ 1 \in 1 .. Len(s) /\ i + 1 # 1 /\ t[i] = s[i + 1]
    BY <1>1
  <2> QED
    BY <1>1, <1>4, <2>1 DEF Distinct
<1> QED
  BY <1>2, <1>3, <1>4 DEF t

LEMMA DistinctConcat ==
  ASSUME NEW s, IsSequence(s), Distinct(s), NEW t, IsSequence(t),
         \A m \in ToSet(t) : ~Asked(m)
  PROVE  Distinct(s \o t)
<1> DEFINE u == s \o t
<1>1. /\ Len(u) = Len(s) + Len(t) /\ \A i \in 1 .. Len(s) : u[i] = s[i]
      /\ \A i \in 1 .. Len(t) : u[Len(s) + i] = t[i]
      /\ Len(s) \in Nat /\ Len(t) \in Nat
  BY ConcatSeq DEF IsSequence
<1>2. \A i \in 1 .. Len(t) : t[i] \in ToSet(t)
  BY ToSetFacts DEF IsSequence
<1> HIDE DEF u
<1>3. ASSUME NEW i \in 1 .. Len(u), i \notin 1 .. Len(s) PROVE ~Asked(u[i])
  <2>1. i - Len(s) \in 1 .. Len(t) /\ Len(s) + (i - Len(s)) = i
    BY <1>1, <1>3
  <2> QED
    BY <1>1, <1>2, <2>1
<1> SUFFICES ASSUME NEW i \in 1 .. Len(u), NEW j \in 1 .. Len(u), i # j, Asked(u[i])
             PROVE  u[i].req # u[j].req
  BY DEF Distinct, u
<1>4. CASE i \in 1 .. Len(s) /\ j \in 1 .. Len(s)
  BY <1>1, <1>4 DEF Distinct
<1>5. CASE j \notin 1 .. Len(s)
  BY <1>3, <1>5 DEF Asked
<1> QED
  BY <1>3, <1>4, <1>5

LEMMA HeldFacts ==
  ASSUME MessageInv, NEW r, Held(r), r[1] # None
  PROVE  IsRequest(r) /\ r[1] \in Accepted /\ r[1] \in Clients
  BY DEF Held, InAq, InMq, InRx, InTx, MessageInv, AqOK, MqOK, MsgOK, Accepted

\* The steps that move no request
Special ==
  \/ AnalyzerAnswers \/ TxRead \/ TxOpenOrphan \/ suscli_analyzer_server_on_set_id
  \/ \E c \in rx.todo : Requesting(c)

LEMMA QuietSteps ==
  ASSUME ClientsInv, ListInv, ReqInv, ItlInv, InboxInv, MessageInv, ServerInv, Next, ~Special
  PROVE  /\ Distinct(aq) => Distinct(aq')
         /\ Distinct(mq) => Distinct(mq')
         /\ \A r : r[1] # None => /\ InAq(r)' => InAq(r)
                                  /\ InMq(r)' => InMq(r)
                                  /\ InRx(r)' => InRx(r)
                                  /\ InTx(r)' => InTx(r) /\ tx'.msg = tx.msg
<1>0. IsSequence(aq) /\ IsSequence(mq)
  BY DEF MessageInv
<1>e. Distinct(<<>>)
  BY DEF Distinct
<1>g. ASSUME NEW g, AqGain(g) PROVE ~Asked(g)
  <2>1. g = SetMsg
    BY <1>g DEF AqGain, Special, Requesting
  <2> QED
    BY <2>1 DEF SetMsg, Msg, NoReq, Asked
<1>h. ASSUME NEW g, MqGain(g) PROVE ~Asked(g)
  <2>1. g = HALT \/ \E h : g = Msg("samples", NoReq, h, ana.insp[h])
    BY <1>h DEF MqGain, Special, Requesting
  <2> QED
    BY <2>1 DEF HALT, Msg, NoReq, Asked
<1>1. Distinct(aq) => Distinct(aq')
  <2> SUFFICES ASSUME Distinct(aq) PROVE Distinct(aq')
    OBVIOUS
  <2>1. CASE UNCHANGED aq \/ aq' = <<>>
    BY <1>e, <2>1
  <2>2. ASSUME NEW t, Closes(t), aq' = aq \o t PROVE Distinct(aq')
    <3>1. \A m \in ToSet(t) : ~Asked(m)
      BY <2>2, CloseOK DEF Closes, Asked
    <3> QED
      BY <1>0, <2>2, <3>1, DistinctConcat DEF Closes
  <2>3. ASSUME NEW g, AqGain(g), aq' = Append(aq, g) PROVE Distinct(aq')
    BY <1>0, <1>g, <2>3, DistinctAppend
  <2>4. ASSUME TxOpen, NEW t, Closes(t), aq' = (aq \o <<NewSetId>>) \o t PROVE Distinct(aq')
    <3> DEFINE s == aq \o <<NewSetId>>
    <3>1. s = Append(aq, NewSetId)
      BY <1>0 DEF IsSequence
    <3>2. ~Asked(NewSetId)
      BY <2>4, NewSetIdFacts DEF Asked
    <3> HIDE DEF s
    <3>3. IsSequence(s) /\ Distinct(s)
      BY <1>0, <3>1, <3>2, AppendSeq, DistinctAppend
    <3>4. \A m \in ToSet(t) : ~Asked(m)
      BY <2>4, CloseOK DEF Closes, Asked
    <3>5. Distinct(s \o t)
      BY <2>4, <3>3, <3>4, DistinctConcat DEF Closes
    <3> QED
      BY <2>4, <3>5 DEF s
  <2> QED
    BY <2>1, <2>2, <2>3, <2>4, AqSteps DEF Special
<1>2. Distinct(mq) => Distinct(mq')
  <2>1. CASE UNCHANGED mq \/ mq' = <<>>
    BY <1>e, <2>1
  <2>2. ASSUME NEW g, MqGain(g), mq' = Append(mq, g), Distinct(mq) PROVE Distinct(mq')
    BY <1>0, <1>h, <2>2, DistinctAppend
  <2> QED
    BY <2>1, <2>2, MqSteps DEF Special
<1> SUFFICES ASSUME NEW r, r[1] # None
             PROVE  /\ InAq(r)' => InAq(r)
                    /\ InMq(r)' => InMq(r)
                    /\ InRx(r)' => InRx(r)
                    /\ InTx(r)' => InTx(r) /\ tx'.msg = tx.msg
  BY <1>1, <1>2
<1>3. InAq(r)' => InAq(r)
  <2>1. ASSUME NEW m \in ToSet(aq'), m.req = r PROVE m \in ToSet(aq)
    <3>1. Asked(m)
      BY <2>1 DEF Asked
    <3>2. ~IsClose(m) /\ ~(TxOpen /\ m = NewSetId)
      BY <3>1, CloseOK, NewSetIdFacts DEF Asked
    <3> QED
      BY <1>g, <3>1, <3>2, AqElements
  <2> QED
    BY <2>1 DEF InAq
<1>4. InMq(r)' => InMq(r)
  <2>1. ASSUME NEW m \in ToSet(mq'), m.req = r PROVE m \in ToSet(mq)
    BY <1>h, <2>1, MqElements DEF Asked, Special
  <2> QED
    BY <2>1 DEF InMq
<1>5. InRx(r)' => InRx(r)
  BY RxMsgSteps DEF InRx, Special, Requesting
<1>6. InTx(r)' => InTx(r) /\ tx'.msg = tx.msg
  BY TxMsgSteps DEF InTx, Special
<1> QED
  BY <1>3, <1>4, <1>5, <1>6

LEMMA AnswerMoves ==
  ASSUME MessageInv, ServerInv, OnceInv, AnalyzerAnswers
  PROVE  OnceInv' /\ \A r : r[1] # None /\ Held(r)' => Held(r)
<1> DEFINE h == Head(aq)
<1>1. PICK a : mq' = Append(mq, a) /\ (a.req = h.req \/ a.req = NoReq)
  BY AnswerFacts
<1>2. /\ IsSequence(aq) /\ IsSequence(mq) /\ aq # <<>> /\ aq' = Tail(aq) /\ UNCHANGED <<rx, tx>>
  BY DEF MessageInv, AnalyzerAnswers
<1>3. /\ Distinct(aq) /\ Distinct(mq) /\ \A r : r[1] # None => OnePlace(r)
  BY DEF OnceInv
<1>4. /\ Distinct(aq') /\ (Asked(h) => \A m \in ToSet(aq') : m.req # h.req)
      /\ ToSet(aq') \subseteq ToSet(aq) /\ h \in ToSet(aq)
  BY <1>2, <1>3, DistinctTail, TailSeq
<1>5. ToSet(mq') = ToSet(mq) \cup {a}
  BY <1>1, <1>2, AppendSeq
<1> HIDE DEF h
<1>6. Asked(a) => a.req = h.req /\ InAq(a.req) /\ ~InMq(a.req) /\ ~InRx(a.req) /\ ~InTx(a.req)
  <2>1. NoReq[1] = None
    BY DEF NoReq
  <2> QED
    BY <1>1, <1>3, <1>4, <2>1 DEF Asked, InAq, OnePlace
<1>7. Distinct(mq')
  BY <1>1, <1>2, <1>3, <1>6, DistinctAppend DEF InMq
<1>8. ASSUME NEW r, r[1] # None
      PROVE  /\ InAq(r)' => InAq(r) /\ r # h.req
             /\ InMq(r)' => InMq(r) \/ (r = a.req /\ InAq(r) /\ r = h.req /\ ~InMq(r) /\ ~InRx(r) /\ ~InTx(r))
             /\ InRx(r)' <=> InRx(r)
             /\ InTx(r)' <=> InTx(r)
  <2>1. InAq(r)' => InAq(r) /\ r # h.req
    BY <1>4, <1>8 DEF InAq, Asked
  <2>2. InMq(r)' => InMq(r) \/ (r = a.req /\ Asked(a))
    BY <1>5, <1>8 DEF InMq, Asked
  <2>3. (InRx(r)' <=> InRx(r)) /\ (InTx(r)' <=> InTx(r))
    BY <1>2 DEF InRx, InTx
  <2> QED
    BY <1>6, <2>1, <2>2, <2>3
<1>9. \A r : r[1] # None => OnePlace(r)'
  BY <1>3, <1>8 DEF OnePlace
<1>10. OnceInv'
  BY <1>4, <1>7, <1>9 DEF OnceInv
<1> QED
  BY <1>8, <1>10 DEF Held

LEMMA ReadMoves ==
  ASSUME MessageInv, ServerInv, OnceInv, TxRead
  PROVE  OnceInv' /\ \A r : r[1] # None /\ Held(r)' => Held(r)
<1> DEFINE h == Head(mq)
<1>2. /\ IsSequence(mq) /\ mq # <<>> /\ mq' = Tail(mq) /\ UNCHANGED <<aq, rx>>
  BY DEF MessageInv, TxRead
<1>3. /\ Distinct(aq) /\ Distinct(mq) /\ \A r : r[1] # None => OnePlace(r)
  BY DEF OnceInv
<1>4. /\ Distinct(mq') /\ (Asked(h) => \A m \in ToSet(mq') : m.req # h.req)
      /\ ToSet(mq') \subseteq ToSet(mq) /\ h \in ToSet(mq)
  BY <1>2, <1>3, DistinctTail, TailSeq
<1>5. tx'.msg = None \/ tx'.msg = h
  <2>1. tx.pc = "read" /\ (tx' = [tx EXCEPT !.pc = "epoch"] \/ tx' = [pc |-> "lock", msg |-> h])
    BY DEF TxRead, TxAt
  <2>2. tx.msg = None
    BY <2>1 DEF ServerInv
  <2> HIDE DEF h
  <2> QED
    BY <2>1, <2>2 DEF ServerInv
<1> HIDE DEF h
<1>8. ASSUME NEW r, r[1] # None
      PROVE  /\ InAq(r)' <=> InAq(r)
             /\ InMq(r)' => InMq(r) /\ r # h.req
             /\ InRx(r)' <=> InRx(r)
             /\ InTx(r)' => r = h.req /\ InMq(r)
  <2>1. InMq(r)' => InMq(r) /\ r # h.req
    BY <1>4, <1>8 DEF InMq, Asked
  <2>2. InTx(r)' => r = h.req /\ InMq(r)
    BY <1>4, <1>5 DEF InMq, InTx
  <2>3. (InRx(r)' <=> InRx(r)) /\ (InAq(r)' <=> InAq(r))
    BY <1>2 DEF InRx, InAq
  <2> QED
    BY <2>1, <2>2, <2>3
<1>9. \A r : r[1] # None => OnePlace(r)'
  BY <1>3, <1>8 DEF OnePlace
<1>10. OnceInv'
  BY <1>2, <1>3, <1>4, <1>9 DEF OnceInv
<1> QED
  BY <1>8, <1>10 DEF Held

LEMMA OrphanMoves ==
  ASSUME MessageInv, ServerInv, OnceInv, TxOpenOrphan
  PROVE  OnceInv' /\ \A r : r[1] # None /\ Held(r)' => Held(r)
<1> DEFINE g == OrphanClose
<1>1. g.req = tx.msg.req
  BY DEF OrphanClose, Msg
<1>2. /\ IsSequence(aq) /\ aq' = Append(aq, g) /\ UNCHANGED <<mq, rx>>
      /\ tx.msg # None /\ tx' = [pc |-> "read", msg |-> None]
  BY DEF MessageInv, TxOpenOrphan, OrphanClose, TxDone, Working
<1>3. /\ Distinct(aq) /\ Distinct(mq) /\ \A r : r[1] # None => OnePlace(r)
  BY DEF OnceInv
<1> HIDE DEF g
<1>4. tx'.msg = None
  BY <1>2
<1>5. InTx(g.req)
  BY <1>1, <1>2 DEF InTx
<1>6. Asked(g) => ~InAq(g.req)
  BY <1>3, <1>5 DEF Asked, OnePlace
<1>7. Distinct(aq') /\ ToSet(aq') = ToSet(aq) \cup {g}
  BY <1>2, <1>3, <1>6, DistinctAppend, AppendSeq DEF InAq
<1>8. ASSUME NEW r, r[1] # None
      PROVE  /\ InAq(r)' => InAq(r) \/ (r = g.req /\ InTx(r))
             /\ InMq(r)' <=> InMq(r)
             /\ InRx(r)' <=> InRx(r)
             /\ ~InTx(r)'
  BY <1>2, <1>4, <1>5, <1>7 DEF InAq, InMq, InRx, InTx
<1>9. \A r : r[1] # None => OnePlace(r)'
  BY <1>3, <1>8 DEF OnePlace
<1>10. OnceInv'
  BY <1>2, <1>3, <1>7, <1>9 DEF OnceInv
<1> QED
  BY <1>8, <1>10 DEF Held

LEMMA SetIdMoves ==
  ASSUME ListInv, MessageInv, ServerInv, OnceInv, suscli_analyzer_server_on_set_id
  PROVE  OnceInv' /\ \A r : r[1] # None /\ Held(r)' => Held(r)
<1> DEFINE g == rx.msg
<1>2. /\ IsSequence(aq) /\ (aq' = Append(aq, g) \/ UNCHANGED aq) /\ UNCHANGED <<mq, tx>>
      /\ rx.pc = "set_id" /\ (rx' = Served(rx.c) \/ rx' = At("crashed"))
  BY DEF MessageInv, suscli_analyzer_server_on_set_id, Write
<1>3. /\ Distinct(aq) /\ Distinct(mq) /\ \A r : r[1] # None => OnePlace(r)
  BY DEF OnceInv
<1> HIDE DEF g
<1>4. rx'.pc # "set_id"
  <2>1. \/ rx' = [rx EXCEPT !.pc = "crashed"]
        \/ \E x : \/ rx' = [rx EXCEPT !.pc = "cleanup", !.todo = x, !.c = None, !.msg = None]
                  \/ rx' = [rx EXCEPT !.pc = "clients", !.todo = x, !.c = None, !.msg = None]
    BY <1>2 DEF Served, At
  <2> QED
    BY <2>1 DEF ListInv
<1>5. InRx(g.req)
  BY <1>2 DEF InRx, g
<1>6. Asked(g) => ~InAq(g.req)
  BY <1>3, <1>5 DEF Asked, OnePlace
<1>7. Distinct(aq') /\ ToSet(aq') \subseteq ToSet(aq) \cup {g}
  <2>1. CASE UNCHANGED aq
    BY <1>3, <2>1
  <2>2. CASE aq' = Append(aq, g)
    BY <1>2, <1>3, <1>6, <2>2, DistinctAppend, AppendSeq DEF InAq
  <2> QED
    BY <1>2, <2>1, <2>2
<1>8. ASSUME NEW r, r[1] # None
      PROVE  /\ InAq(r)' => InAq(r) \/ (r = g.req /\ InRx(r))
             /\ InMq(r)' <=> InMq(r)
             /\ InTx(r)' <=> InTx(r)
             /\ ~InRx(r)'
  BY <1>2, <1>4, <1>5, <1>7 DEF InAq, InMq, InRx, InTx
<1>9. \A r : r[1] # None => OnePlace(r)'
  BY <1>3, <1>8 DEF OnePlace
<1>10. OnceInv'
  BY <1>2, <1>3, <1>7, <1>9 DEF OnceInv
<1> QED
  BY <1>8, <1>10 DEF Held

\* A request that is made is in one place.
LEMMA RequestSays ==
  ASSUME ClientsInv, ListInv, InboxInv, MessageInv, NEW c \in rx.todo, Requesting(c)
  PROVE  \E n : /\ n.req = GlobalId(c)
                /\ \/ UNCHANGED mq /\ rx'.pc # "set_id" /\ (UNCHANGED aq \/ aq' = Append(aq, n))
                   \/ UNCHANGED aq /\ rx'.pc # "set_id" /\ mq' = Append(mq, n)
                   \/ UNCHANGED <<aq, mq>> /\ rx'.pc = "set_id" /\ rx'.msg = n
<1> DEFINE g == GlobalId(c)
<1>0. ASSUME rx' = Served(c) \/ rx' = At("crashed") PROVE rx'.pc # "set_id"
  <2>1. \/ rx' = [rx EXCEPT !.pc = "crashed"]
        \/ \E x : \/ rx' = [rx EXCEPT !.pc = "cleanup", !.todo = x, !.c = None, !.msg = None]
                  \/ rx' = [rx EXCEPT !.pc = "clients", !.todo = x, !.c = None, !.msg = None]
    BY <1>0 DEF Served, At
  <2> QED
    BY <2>1 DEF ListInv
<1>1. CASE suscli_analyzer_server_on_open(c)
  <2>1. PICK k : Write(c, Msg(k, g, NoHandle, NoHandle)) /\ UNCHANGED mq
    BY <1>1 DEF suscli_analyzer_server_on_open
  <2> DEFINE n == Msg(k, g, NoHandle, NoHandle)
  <2>2. /\ rx' = Served(c) \/ rx' = At("crashed")
        /\ UNCHANGED aq \/ aq' = Append(aq, n)
    BY <2>1 DEF Write
  <2>3. n.req = g
    BY DEF Msg
  <2> HIDE DEF n, g
  <2> QED
    BY <1>0, <2>1, <2>2, <2>3 DEF g
<1>2. CASE suscli_analyzer_server_on_wrong_handle(c)
  <2> DEFINE n == Msg("wrong_handle", g, NoHandle, NoHandle)
  <2>1. mq' = Append(mq, n) /\ UNCHANGED aq /\ rx' = Served(c)
    BY <1>2 DEF suscli_analyzer_server_on_wrong_handle
  <2>2. n.req = g
    BY DEF Msg
  <2> HIDE DEF n, g
  <2> QED
    BY <1>0, <2>1, <2>2 DEF g
<1>3. CASE suscli_analyzer_client_intercept_message(c)
  <2> DEFINE n == CallMsg(c)
  <2>1. /\ n.req = g /\ UNCHANGED mq
        /\ \/ rx'.pc = "set_id" /\ rx'.msg = n /\ UNCHANGED aq
           \/ rx'.pc # "set_id" /\ (UNCHANGED aq \/ aq' = Append(aq, n))
    BY <1>3, CallMsgFacts
  <2> HIDE DEF n, g
  <2> QED
    BY <2>1 DEF g
<1> QED
  BY <1>1, <1>2, <1>3 DEF Requesting

LEMMA RequestMoves ==
  ASSUME ClientsInv, ListInv, InboxInv, MessageInv, ServerInv, OnceInv, FreshInv,
         NEW c \in rx.todo, Requesting(c)
  PROVE  OnceInv' /\ \A r : r[1] # None /\ Held(r)' => Held(r) \/ r = GlobalId(c)
<1> DEFINE g == GlobalId(c)
<1>1. /\ g[1] = c /\ g = <<c, Len(calls[c]) + 1>> /\ c \in Clients /\ inbox[c] # None
      /\ UNCHANGED tx
  BY RequestFacts
<1>2. PICK n : /\ n.req = g
               /\ \/ UNCHANGED mq /\ rx'.pc # "set_id" /\ (UNCHANGED aq \/ aq' = Append(aq, n))
                  \/ UNCHANGED aq /\ rx'.pc # "set_id" /\ mq' = Append(mq, n)
                  \/ UNCHANGED <<aq, mq>> /\ rx'.pc = "set_id" /\ rx'.msg = n
  BY RequestSays
<1>3. /\ Distinct(aq) /\ Distinct(mq) /\ \A r : r[1] # None => OnePlace(r)
      /\ IsSequence(aq) /\ IsSequence(mq)
  BY DEF OnceInv, MessageInv
<1>4. g[1] # None /\ ~Held(g)
  <2>1. g[1] # None
    BY <1>1, DevServAssumption
  <2>2. NextRid(c) = Len(calls[c]) + 1 /\ Len(calls[c]) \in Nat
    BY <1>1 DEF NextRid, InboxInv
  <2>3. g[2] = Len(calls[c]) + 1
    BY <1>1
  <2> HIDE DEF g
  <2> QED
    BY <1>1, <2>1, <2>2, <2>3 DEF FreshInv
<1> HIDE DEF g
<1>5. ~InAq(g) /\ ~InMq(g) /\ ~InRx(g) /\ ~InTx(g)
  BY <1>4 DEF Held
<1>6. rx'.pc = "set_id" => \A r : InRx(r)' <=> r = g
  BY <1>2 DEF InRx
<1>7. rx'.pc # "set_id" => \A r : ~InRx(r)'
  BY DEF InRx
<1>8. \A r : InTx(r)' <=> InTx(r)
  BY <1>1 DEF InTx
<1>9. CASE UNCHANGED mq /\ rx'.pc # "set_id" /\ UNCHANGED aq
  <2>1. \A r : (InAq(r)' <=> InAq(r)) /\ (InMq(r)' <=> InMq(r)) /\ ~InRx(r)'
    BY <1>7, <1>9 DEF InAq, InMq
  <2>2. \A r : r[1] # None => OnePlace(r)'
    BY <1>3, <1>8, <2>1 DEF OnePlace
  <2>3. OnceInv'
    BY <1>3, <1>9, <2>2 DEF OnceInv
  <2> QED
    BY <1>8, <2>1, <2>3 DEF Held
<1>10. CASE UNCHANGED mq /\ rx'.pc # "set_id" /\ aq' = Append(aq, n)
  <2>1. Distinct(aq') /\ ToSet(aq') = ToSet(aq) \cup {n}
    BY <1>2, <1>3, <1>5, <1>10, DistinctAppend, AppendSeq DEF InAq
  <2>2. \A r : (InAq(r)' <=> InAq(r) \/ r = g) /\ (InMq(r)' <=> InMq(r)) /\ ~InRx(r)'
    BY <1>2, <1>7, <1>10, <2>1 DEF InAq, InMq
  <2>3. \A r : r[1] # None => OnePlace(r)'
    BY <1>3, <1>5, <1>8, <2>2 DEF OnePlace
  <2>4. OnceInv'
    BY <1>3, <1>10, <2>1, <2>3 DEF OnceInv
  <2> QED
    BY <1>8, <2>2, <2>4 DEF Held, g
<1>11. CASE UNCHANGED aq /\ rx'.pc # "set_id" /\ mq' = Append(mq, n)
  <2>1. Distinct(mq') /\ ToSet(mq') = ToSet(mq) \cup {n}
    BY <1>2, <1>3, <1>5, <1>11, DistinctAppend, AppendSeq DEF InMq
  <2>2. \A r : (InMq(r)' <=> InMq(r) \/ r = g) /\ (InAq(r)' <=> InAq(r)) /\ ~InRx(r)'
    BY <1>2, <1>7, <1>11, <2>1 DEF InAq, InMq
  <2>3. \A r : r[1] # None => OnePlace(r)'
    BY <1>3, <1>5, <1>8, <2>2 DEF OnePlace
  <2>4. OnceInv'
    BY <1>3, <1>11, <2>1, <2>3 DEF OnceInv
  <2> QED
    BY <1>8, <2>2, <2>4 DEF Held, g
<1>12. CASE UNCHANGED <<aq, mq>> /\ rx'.pc = "set_id"
  <2>1. \A r : (InAq(r)' <=> InAq(r)) /\ (InMq(r)' <=> InMq(r)) /\ (InRx(r)' <=> r = g)
    BY <1>6, <1>12 DEF InAq, InMq
  <2>2. \A r : r[1] # None => OnePlace(r)'
    BY <1>3, <1>5, <1>8, <2>1 DEF OnePlace
  <2>3. OnceInv'
    BY <1>3, <1>12, <2>2 DEF OnceInv
  <2> QED
    BY <1>8, <2>1, <2>3 DEF Held, g
<1> QED
  BY <1>2, <1>9, <1>10, <1>11, <1>12

\* A step leaves every request in one place, and adds one of a client at most.
LEMMA HeldSteps ==
  ASSUME ClientsInv, ListInv, ReqInv, ItlInv, InboxInv, MessageInv, ServerInv, OnceInv, FreshInv, Next
  PROVE  /\ OnceInv'
         /\ \A r : r[1] # None /\ Held(r)' =>
              Held(r) \/ \E c \in rx.todo : Requesting(c) /\ r = GlobalId(c)
<1>1. CASE Special
  BY <1>1, AnswerMoves, ReadMoves, OrphanMoves, SetIdMoves, RequestMoves DEF Special
<1>2. CASE ~Special
  <2>1. /\ Distinct(aq') /\ Distinct(mq')
        /\ \A r : r[1] # None => OnePlace(r)
        /\ \A r : r[1] # None => /\ InAq(r)' => InAq(r)
                                 /\ InMq(r)' => InMq(r)
                                 /\ InRx(r)' => InRx(r)
                                 /\ InTx(r)' => InTx(r)
    BY <1>2, QuietSteps DEF OnceInv
  <2>2. \A r : r[1] # None => OnePlace(r)'
    BY <2>1 DEF OnePlace
  <2>3. OnceInv'
    BY <2>1, <2>2 DEF OnceInv
  <2> QED
    BY <2>1, <2>3 DEF Held
<1> QED
  BY <1>1, <1>2

\* The number of the next call of a client falls.
LEMMA RidsFall ==
  ASSUME ListInv, InboxInv, Next
  PROVE  \A c \in Clients : /\ NextRid(c)' <= NextRid(c)
                            /\ NextRid(c) \in Nat /\ NextRid(c)' \in Nat
<1>1. \A c \in Clients : Len(calls[c]) \in Nat
  BY DEF InboxInv
<1>2. \A c \in Clients : NextRid(c)' <= NextRid(c)
  <2>1. CASE UNCHANGED InboxVars
    BY <1>1, <2>1 DEF InboxVars, NextRid
  <2>2. ASSUME NEW d \in Clients, Send(d) PROVE \A c \in Clients : NextRid(c)' <= NextRid(c)
    <3>1. PICK k : inbox' = [inbox EXCEPT ![d] = k]
      BY <2>2, SendFacts
    <3> DEFINE t == Tail(calls[d])
    <3>2. calls' = [calls EXCEPT ![d] = t] /\ inbox[d] = None /\ Len(t) + 1 = Len(calls[d]) /\ Len(t) \in Nat
      BY <1>1, <2>2, SendFacts
    <3> HIDE DEF t
    <3>3. calls'[d] = t /\ \A c \in Clients \ {d} : calls'[c] = calls[c] /\ inbox'[c] = inbox[c]
      BY <3>1, <3>2 DEF InboxInv
    <3>4. \A c \in Clients \ {d} : NextRid(c)' = NextRid(c)
      BY <3>3 DEF NextRid
    <3>5. NextRid(d)' <= NextRid(d)
      BY <3>2, <3>3 DEF NextRid
    <3>6. \A c \in Clients : NextRid(c) \in Nat
      BY <1>1 DEF NextRid
    <3> QED
      BY <3>4, <3>5, <3>6
  <2>3. ASSUME NEW d \in Clients, inbox' = [inbox EXCEPT ![d] = None], UNCHANGED calls
        PROVE  \A c \in Clients : NextRid(c)' <= NextRid(c)
    BY <1>1, <2>3 DEF NextRid, InboxInv
  <2> QED
    BY <2>1, <2>2, <2>3, InboxSteps
<1>3. \A c \in Clients : NextRid(c) \in Nat /\ NextRid(c)' \in Nat
  BY <1>1, InboxInvStep DEF NextRid, InboxInv
<1> QED
  BY <1>2, <1>3

LEMMA FreshInvStep ==
  ASSUME ClientsInv, ListInv, ReqInv, ItlInv, InboxInv, MessageInv, ServerInv, OnceInv, FreshInv, Next
  PROVE  FreshInv'
<1> SUFFICES ASSUME NEW r, Held(r)', r[1] # None PROVE r[2] > NextRid(r[1])'
  BY DEF FreshInv
<1>3. CASE Held(r)
  <2>1. IsRequest(r)
    BY <1>3, HeldFacts
  <2>2. r[2] > NextRid(r[1]) /\ r[1] \in Clients /\ r[2] \in Nat
    BY <1>3, <2>1 DEF FreshInv, IsRequest
  <2>3. NextRid(r[1])' <= NextRid(r[1]) /\ NextRid(r[1]) \in Nat /\ NextRid(r[1])' \in Nat
    BY <2>2, RidsFall
  <2> QED
    BY <2>2, <2>3
<1>4. ASSUME NEW c \in rx.todo, Requesting(c), r = GlobalId(c) PROVE r[2] > NextRid(r[1])'
  <2>1. /\ r = <<c, Len(calls[c]) + 1>> /\ c \in Clients /\ UNCHANGED calls
        /\ inbox' = [inbox EXCEPT ![c] = None]
    BY <1>4, RequestFacts
  <2>2. inbox'[c] = None
    BY <2>1 DEF InboxInv
  <2>3. NextRid(c)' = Len(calls[c])
    BY <2>1, <2>2 DEF NextRid
  <2>4. Len(calls[c]) \in Nat
    BY <2>1 DEF InboxInv
  <2> QED
    BY <2>1, <2>3, <2>4
<1> QED
  BY <1>3, <1>4, HeldSteps

\* A message that is given back is in no place any more.
LEMMA ForgottenGone ==
  ASSUME ClientsInv, ListInv, ReqInv, ItlInv, InboxInv, MessageInv, ServerInv, OnceInv,
         TxOpen \/ TxClose \/ TxReply \/ TxIgnore
  PROVE  \A r : r[1] # None /\ Held(r)' => r # tx.msg.req
<1>1. /\ tx.msg # None /\ tx'.msg = None /\ UNCHANGED <<mq, rx>>
  <2>1. tx.msg # None /\ tx' = [pc |-> "read", msg |-> None] /\ UNCHANGED <<mq, rx>>
    BY DEF TxOpen, TxClose, TxReply, TxIgnore, TxDone, Working
  <2> QED
    BY <2>1
<1>2. IsSequence(aq)
  BY DEF MessageInv
<1>3. ASSUME NEW m \in ToSet(aq'), Asked(m) PROVE m \in ToSet(aq)
  <2>1. CASE UNCHANGED aq
    BY <1>3, <2>1
  <2>2. ASSUME NEW t, Closes(t), aq' = aq \o t PROVE m \in ToSet(aq)
    <3>1. ToSet(aq') = ToSet(aq) \cup ToSet(t)
      BY <1>2, <2>2, ConcatSeq DEF Closes
    <3> QED
      BY <1>3, <2>2, <3>1, CloseOK DEF Closes, Asked
  <2>3. ASSUME TxOpen, NEW t, Closes(t), aq' = (aq \o <<NewSetId>>) \o t PROVE m \in ToSet(aq)
    <3> DEFINE s == aq \o <<NewSetId>>
    <3>1. s = Append(aq, NewSetId)
      BY <1>2 DEF IsSequence
    <3>2. ~Asked(NewSetId)
      BY <2>3, NewSetIdFacts DEF Asked
    <3> HIDE DEF s
    <3>3. IsSequence(s) /\ ToSet(s) = ToSet(aq) \cup {NewSetId}
      BY <1>2, <3>1, AppendSeq
    <3>4. ToSet(s \o t) = ToSet(s) \cup ToSet(t)
      BY <2>3, <3>3, ConcatSeq DEF Closes
    <3>5. aq' = s \o t
      BY <2>3 DEF s
    <3> QED
      BY <1>3, <2>3, <3>2, <3>3, <3>4, <3>5, CloseOK DEF Closes, Asked
  <2>4. CASE TxIgnore
    BY <2>1, <2>4 DEF TxIgnore
  <2> QED
    BY <2>2, <2>3, <2>4, PushSteps DEF NewSetId
<1> SUFFICES ASSUME NEW r, r[1] # None, Held(r)' PROVE r # tx.msg.req
  OBVIOUS
<1>4. InAq(r) \/ InMq(r) \/ InRx(r)
  <2>1. InAq(r)' => InAq(r)
    BY <1>3 DEF InAq, Asked
  <2>2. (InMq(r)' => InMq(r)) /\ (InRx(r)' => InRx(r)) /\ ~InTx(r)'
    BY <1>1 DEF InMq, InRx, InTx
  <2> QED
    BY <2>1, <2>2 DEF Held
<1> QED
  BY <1>1, <1>4 DEF OnceInv, OnePlace, InTx

LEMMA LiveSteps ==
  ASSUME ClientsInv, ListInv, ReqInv, ItlInv, InboxInv, MessageInv, ServerInv, Next, NEW i, Live(i)'
  PROVE  \/ Live(i) \/ i = NoHandle
         \/ \E m : Opens(m) /\ m.kind = "open" /\ i = OpenId(m)
<1> DEFINE Goal == \/ Live(i) \/ i = NoHandle
                   \/ \E m : Opens(m) /\ m.kind = "open" /\ i = OpenId(m)
<1>1. ASSUME NEW h \in DOMAIN ana'.insp, i = Handle("itl", h.of) PROVE Goal
  <2>1. CASE h \in DOMAIN ana.insp
    BY <1>1, <2>1 DEF Live
  <2>2. CASE AnalyzerAnswers /\ h \notin DOMAIN ana.insp
    <3> DEFINE m == Head(aq)
    <3>1. m \in ToSet(aq) /\ m.kind = "open" /\ h = Handle("glob", m.req)
      BY <1>1, <2>2, AnswerFacts, TailSeq DEF MessageInv
    <3>2. Handle("glob", m.req).of = m.req
      BY DEF Handle
    <3> HIDE DEF m
    <3> QED
      BY <1>1, <3>1, <3>2 DEF Opens, OpenId
  <2> QED
    BY <1>1, <2>1, <2>2, InspSteps
<1>4. ASSUME NEW m \in ToSet(mq'), i = m.id PROVE Goal
  <2>1. CASE m \in ToSet(mq)
    BY <1>4, <2>1 DEF Live
  <2>2. CASE MqGain(m)
    <3>1. ASSUME NEW k, NEW r, NEW g, m = Msg(k, r, g, NoHandle) PROVE Goal
      BY <1>4, <3>1 DEF Msg
    <3>2. ASSUME NEW h \in DOMAIN ana.insp, m = Msg("samples", NoReq, h, ana.insp[h]) PROVE Goal
      <4>1. i = ana.insp[h]
        BY <1>4, <3>2 DEF Msg
      <4>2. i = NoHandle \/ i = Handle("itl", h.of)
        BY <4>1 DEF MessageInv, IdOK
      <4> QED
        BY <4>2 DEF Live
    <3> HIDE DEF Goal
    <3> QED
      BY <2>2, <3>1, <3>2 DEF MqGain, HALT
  <2>3. CASE AnalyzerAnswers /\ mq' = Append(mq, m)
    <3>1. PICK a : /\ mq' = Append(mq, a)
                   /\ a.id = NoHandle \/ \E h \in DOMAIN ana.insp : a.id = Handle("itl", h.of)
      BY <2>3, AnswerFacts
    <3>2. Append(mq, a)[Len(mq) + 1] = a /\ Append(mq, m)[Len(mq) + 1] = m
      BY AppendSeq DEF MessageInv
    <3> QED
      BY <1>4, <2>3, <3>1, <3>2 DEF Live
  <2> QED
    BY <2>1, <2>2, <2>3, MqElements
<1>5. ASSUME tx'.msg # None, i = tx'.msg.id PROVE Goal
  <2>1. CASE tx'.msg = tx.msg
    BY <1>5, <2>1 DEF Live
  <2>2. CASE TxRead /\ tx'.msg = Head(mq)
    <3>1. Head(mq) \in ToSet(mq)
      BY <2>2, TailSeq DEF TxRead, MessageInv
    <3> QED
      BY <1>5, <2>2, <3>1 DEF Live
  <2> QED
    BY <1>5, <2>1, <2>2, TxMsgSteps
<1> HIDE DEF Goal
<1>6. Goal
  BY <1>1, <1>4, <1>5 DEF Live
<1> QED
  BY <1>6 DEF Goal

LEMMA OpenSteps ==
  ASSUME ClientsInv, ListInv, ReqInv, ItlInv, InboxInv, MessageInv, ServerInv, Next, NEW m,
         Opens(m)', m.kind = "open"
  PROVE  \/ Opens(m)
         \/ AnalyzerAnswers /\ aq # <<>> /\ Head(aq).kind = "open" /\ Head(aq).req = m.req
         \/ \E c \in rx.todo : suscli_analyzer_server_on_open(c) /\ m.req = GlobalId(c)
<1> DEFINE Goal ==
      \/ Opens(m)
      \/ AnalyzerAnswers /\ aq # <<>> /\ Head(aq).kind = "open" /\ Head(aq).req = m.req
      \/ \E c \in rx.todo : suscli_analyzer_server_on_open(c) /\ m.req = GlobalId(c)
<1>1. ASSUME m \in ToSet(aq') PROVE Goal
  <2>1. CASE m \in ToSet(aq)
    BY <2>1 DEF Opens
  <2>2. ~IsClose(m)
    BY CloseOK
  <2>3. CASE AqGain(m)
    <3>1. ASSUME NEW k, NEW r, NEW g, NEW i, m = Msg(k, r, g, i) PROVE k = "open" /\ m.req = r
      BY <3>1 DEF Msg
    <3>2. m # SetMsg /\ ~(TxOpenOrphan /\ m = OrphanClose)
      BY <3>1 DEF SetMsg, OrphanClose
    <3>3. \A c \in rx.todo : ~(suscli_analyzer_client_intercept_message(c) /\ m = CallMsg(c))
      BY CallMsgFacts
    <3>4. ~(suscli_analyzer_server_on_set_id /\ m = rx.msg)
      BY DEF suscli_analyzer_server_on_set_id, MessageInv
    <3> QED
      BY <2>3, <3>1, <3>2, <3>3, <3>4 DEF AqGain
  <2>4. ~(TxOpen /\ m = NewSetId)
    BY NewSetIdFacts
  <2> QED
    BY <1>1, <2>1, <2>2, <2>3, <2>4, AqElements
<1>2. ASSUME m \in ToSet(mq') PROVE Goal
  <2>1. CASE m \in ToSet(mq)
    BY <2>1 DEF Opens
  <2>2. ~MqGain(m)
    BY MqGainOK
  <2>3. CASE AnalyzerAnswers /\ mq' = Append(mq, m)
    <3>1. PICK a : /\ mq' = Append(mq, a)
                   /\ a.kind = "open" => Head(aq).kind = "open" /\ a.req = Head(aq).req
      BY <2>3, AnswerFacts
    <3>2. Append(mq, a)[Len(mq) + 1] = a /\ Append(mq, m)[Len(mq) + 1] = m
      BY AppendSeq DEF MessageInv
    <3>3. aq # <<>>
      BY <2>3, AnswerFacts
    <3> QED
      BY <2>3, <3>1, <3>2, <3>3
  <2> QED
    BY <1>2, <2>1, <2>2, <2>3, MqElements
<1>3. ASSUME tx'.msg # None, m = tx'.msg PROVE Goal
  <2>1. CASE tx'.msg = tx.msg
    BY <1>3, <2>1 DEF Opens
  <2>2. CASE TxRead /\ tx'.msg = Head(mq)
    <3>1. Head(mq) \in ToSet(mq)
      BY <2>2, TailSeq DEF TxRead, MessageInv
    <3> QED
      BY <1>3, <2>2, <3>1 DEF Opens
  <2> QED
    BY <1>3, <2>1, <2>2, TxMsgSteps
<1> HIDE DEF Goal
<1>4. Goal
  BY <1>1, <1>2, <1>3 DEF Opens
<1> QED
  BY <1>4 DEF Goal

\* A client that was accepted keeps its epoch, which is the list's as long
\* as the analyzer says something.
LEMMA EpochStays ==
  ASSUME ClientsInv, ListInv, ReqInv, ItlInv, MessageInv, ServerInv, Next, Running,
         NEW c \in Clients, c \in Accepted
  PROVE  cl'[c].epoch = cl[c].epoch /\ epoch' = epoch
<1>1. CASE Moved /\ Steady
  BY <1>1 DEF Moved, Keeps, Steady
<1>2. CASE suscli_analyzer_server_register_clients
  <2>1. c \notin Backlog
    BY DEF Backlog, Accepted
  <2> QED
    BY <1>2, <2>1, RegisterFacts
<1>3. ~suscli_analyzer_client_list_increment_epoch /\ ~suscli_analyzer_client_list_force_shutdown
  BY DEF suscli_analyzer_client_list_increment_epoch, suscli_analyzer_client_list_force_shutdown,
     Running
<1> QED
  BY <1>1, <1>2, <1>3, ClientSteps

\* What the list comes to have, and what it keeps
LEMMA ItlMoves ==
  ASSUME ListInv, ReqInv, ItlInv, MessageInv, OpenInv, Next
  PROVE  /\ \A i \in DOMAIN itl' : i \in DOMAIN itl \/ (TxOpen /\ i = OpenId(tx.msg))
         /\ \A i \in DOMAIN itl \cap DOMAIN itl' : itl'[i].late = itl[i].late
<1>1. CASE UNCHANGED itl
  BY <1>1
<1>2. CASE suscli_analyzer_server_on_set_id
  BY <1>2, SetIdFacts
<1>3. CASE TxOpen
  <2> DEFINE j == OpenId(tx.msg)
             e == OpenEntry(tx.msg)
  <2>1. itl' = Put(itl, j, e) /\ tx.msg # None /\ tx.msg.kind = "open"
    BY <1>3, TxOpenFacts
  <2>2. j \notin DOMAIN itl
    BY <2>1 DEF OpenInv, Opens
  <2> HIDE DEF j, e
  <2>3. DOMAIN itl' = DOMAIN itl \cup {j} /\ \A i \in DOMAIN itl : itl'[i] = itl[i]
    BY <2>1, <2>2 DEF Put
  <2> QED
    BY <1>3, <2>3 DEF j
<1>4. CASE TxClose
  <2>1. itl' = Forget(itl, tx.msg.id)
    BY <1>4, TxCloseFacts
  <2> QED
    BY <2>1 DEF Forget
<1> QED
  BY <1>1, <1>2, <1>3, <1>4, ItlSteps

LEMMA ItlFreshStep ==
  ASSUME ListInv, ReqInv, ItlInv, InboxInv, MessageInv, OpenInv, FreshInv, ItlFresh, Next
  PROVE  ItlFresh'
<1> SUFFICES ASSUME NEW i \in DOMAIN itl' PROVE i.of[2] > NextRid(i.of[1])'
  BY DEF ItlFresh
<1>1. IsRequest(i.of) /\ i.of[2] > NextRid(i.of[1])
  <2>1. CASE i \in DOMAIN itl
    BY <2>1 DEF ItlFresh, ItlInv
  <2>2. CASE TxOpen /\ i = OpenId(tx.msg)
    <3> DEFINE r == tx.msg.req
    <3>1. tx.msg # None /\ IsRequest(r)
      BY <2>2, TxOpenFacts
    <3>2. i.of = r
      BY <2>2 DEF OpenId, Handle
    <3>3. Held(r) /\ r[1] # None
      BY <3>1, DevServAssumption DEF Held, InTx, IsRequest
    <3> HIDE DEF r
    <3> QED
      BY <3>1, <3>2, <3>3 DEF FreshInv
  <2> QED
    BY <2>1, <2>2, ItlMoves
<1>2. i.of[1] \in Clients /\ i.of[2] \in Nat
  BY <1>1 DEF IsRequest
<1>3. /\ NextRid(i.of[1])' <= NextRid(i.of[1])
      /\ NextRid(i.of[1]) \in Nat /\ NextRid(i.of[1])' \in Nat
  BY <1>2, RidsFall
<1> QED
  BY <1>1, <1>2, <1>3

LEMMA OpenInvStep ==
  ASSUME ClientsInv, ListInv, ReqInv, ItlInv, InboxInv, MessageInv, MessageInv', ServerInv, OnceInv,
         ItlFresh, OpenInv, Next
  PROVE  OpenInv'
<1> SUFFICES ASSUME NEW m, Opens(m)', m.kind = "open" PROVE OpenId(m) \notin DOMAIN itl'
  BY DEF OpenInv, OpenId
<1>0. OpenId(m).of = m.req
  BY DEF OpenId, Handle
<1>1. OpenId(m) \notin DOMAIN itl
  <2>1. CASE Opens(m)
    BY <2>1 DEF OpenInv
  <2>2. CASE AnalyzerAnswers /\ aq # <<>> /\ Head(aq).kind = "open" /\ Head(aq).req = m.req
    <3>1. Opens(Head(aq))
      BY <2>2, TailSeq DEF Opens, MessageInv
    <3> QED
      BY <2>2, <3>1 DEF OpenInv, OpenId
  <2>3. ASSUME NEW c \in rx.todo, suscli_analyzer_server_on_open(c), m.req = GlobalId(c)
        PROVE  OpenId(m) \notin DOMAIN itl
    <3>1. GlobalId(c) = <<c, Len(calls[c]) + 1>> /\ inbox[c] # None /\ c \in Clients
      BY <2>3, RequestFacts DEF Requesting
    <3>2. NextRid(c) = Len(calls[c]) + 1 /\ Len(calls[c]) \in Nat
      BY <3>1 DEF NextRid, InboxInv
    <3>3. m.req[1] = c /\ m.req[2] = Len(calls[c]) + 1
      BY <2>3, <3>1
    <3>4. ~(m.req[2] > NextRid(m.req[1]))
      BY <3>2, <3>3
    <3> QED
      BY <1>0, <3>4 DEF ItlFresh
  <2> QED
    BY <2>1, <2>2, <2>3, OpenSteps
<1>2. ~(TxOpen /\ OpenId(m) = OpenId(tx.msg))
  <2>1. SUFFICES ASSUME TxOpen PROVE m.req # tx.msg.req
    BY <1>0 DEF OpenId, Handle
  <2>2. m.req[1] # None
    BY DEF Opens, MessageInv, AqOK, MqOK
  <2>3. Held(m.req)'
    BY DEF Opens, Held, InAq, InMq, InTx
  <2> QED
    BY <2>1, <2>2, <2>3, ForgottenGone
<1> QED
  BY <1>1, <1>2, ItlMoves

\* Only the clean-up takes clients out of the list, and not those that the
\* analyzer has inspectors of.
LEMMA ListedStays ==
  ASSUME ListInv, Next, NEW c \in listed, cl[c].epoch = epoch, NEW p \in DOMAIN cl[c].handles
  PROVE  c \in listed'
<1>1. ~Removable(c)
  <2>1. cl[c].handles # <<>>
    OBVIOUS
  <2> QED
    BY <2>1 DEF Removable, suscli_analyzer_client_has_outstanding_inspectors
<1>2. CASE suscli_analyzer_client_list_attempt_cleanup
  BY <1>1, <1>2, CleanupFacts
<1>3. CASE suscli_analyzer_server_register_clients
  BY <1>3 DEF suscli_analyzer_server_register_clients, suscli_analyzer_client_list_append_client
<1>4. ASSUME NEW d \in rx.todo, Requesting(d) PROVE UNCHANGED listed
  BY <1>4 DEF Requesting, suscli_analyzer_server_on_open, suscli_analyzer_client_intercept_message,
     suscli_analyzer_server_on_wrong_handle
<1> QED
  BY <1>2, <1>3, <1>4, ReqSteps

LEMMA OwnedStays ==
  ASSUME ClientsInv, ListInv, ReqInv, ItlInv, ItlInv', InboxInv, MessageInv, ServerInv, Next,
         Running, NEW i, i \in DOMAIN itl, i \in DOMAIN itl', Owned(i)
  PROVE  Owned(i)'
<1> DEFINE c == i.of[1]
           p == Handle("priv", i.of)
<1>1. /\ itl[i].client = c /\ itl[i].priv = p /\ itl'[i].client = c /\ itl'[i].priv = p
      /\ c \in Clients /\ i = Handle("itl", i.of)
  BY DEF ItlInv, IsRequest
<1>2. c \in listed /\ cl[c].epoch = epoch /\ p \in DOMAIN cl[c].handles
  BY <1>1 DEF Owned
<1> HIDE DEF c, p
<1>3. c \in listed'
  BY <1>2, ListedStays
<1>4. c \in Accepted
  BY <1>1, <1>2 DEF ListInv, Accepted
<1>5. cl'[c].epoch = epoch'
  BY <1>1, <1>2, <1>4, EpochStays
<1>6. Reachable(cl[c])
  BY <1>2 DEF Reachable, Running, ServerInv
<1>7. p \in DOMAIN cl'[c].handles
  <2>1. CASE \A d \in Clients : SameHandles(d)
    BY <1>1, <1>2, <1>6, <2>1 DEF SameHandles
  <2>2. CASE suscli_analyzer_server_register_clients
    <3>1. c \notin Backlog
      BY <1>4 DEF Backlog, Accepted
    <3> QED
      BY <1>1, <1>2, <2>2, <3>1, RegisterFacts
  <2>3. CASE TxOpen
    <3> DEFINE d == Recipient(tx.msg)
    <3>1. Others(d) /\ (\/ DOMAIN cl'[d].handles = DOMAIN cl[d].handles \cup {OpenPriv(tx.msg)}
                        \/ ~Reachable(cl[d]))
      BY <2>3, PushSteps
    <3> QED
      BY <1>1, <1>2, <1>6, <3>1 DEF Others
  <2>4. CASE TxClose
    <3> DEFINE d == Recipient(tx.msg)
               j == tx.msg.id
    <3>1. Others(d) /\ (\/ DOMAIN cl'[d].handles = DOMAIN cl[d].handles \ {itl[j].priv}
                        \/ ~Reachable(cl[d]))
      BY <2>4, PushSteps
    <3>2. j \in DOMAIN itl /\ i # j
      BY <2>4, TxCloseFacts DEF Forget
    <3>3. itl[j].priv = Handle("priv", j.of) /\ j = Handle("itl", j.of)
      BY <3>2 DEF ItlInv
    <3>4. i.of # j.of
      BY <1>1, <3>2, <3>3
    <3>5. p # itl[j].priv
      BY <3>3, <3>4 DEF p, Handle
    <3> QED
      BY <1>1, <1>2, <1>6, <3>1, <3>5 DEF Others
  <2>5. ~suscli_analyzer_client_list_increment_epoch /\ ~suscli_analyzer_client_list_force_shutdown
    BY DEF suscli_analyzer_client_list_increment_epoch, suscli_analyzer_client_list_force_shutdown,
       Running
  <2> QED
    BY <2>1, <2>2, <2>3, <2>4, <2>5, ClientSteps
<1> QED
  BY <1>1, <1>3, <1>5, <1>7 DEF Owned

LEMMA LiveInvStep ==
  ASSUME ClientsInv, ListInv, ReqInv, ItlInv, ItlInv', InboxInv, MessageInv, ServerInv,
         HaltLast, OpenInv, LiveInv, Next
  PROVE  LiveInv'
<1> SUFFICES ASSUME Running', NEW i \in DOMAIN itl', Live(i)' PROVE Owned(i)' \/ itl'[i].late
  BY DEF LiveInv
<1>0. i # NoHandle
  BY DEF ItlInv, Handle, NoHandle
<1>1. CASE Starting
  <2>1. /\ ana'.insp = <<>> /\ tx'.msg = None /\ mq' = mq /\ \A x \in ToSet(mq) : Refusal(x)
    BY <1>1, StartFacts DEF HaltLast
  <2>2. \A x \in ToSet(mq) : x.id = NoHandle
    BY <2>1 DEF MessageInv, MqOK, Refusal
  <2> QED
    BY <1>0, <2>1, <2>2 DEF Live
<1>2. CASE ~Starting
  <2>1. Running
    BY <1>2, RunningSteps
  <2>2. ASSUME TxOpen, i = OpenId(tx.msg) PROVE Owned(i)' \/ itl'[i].late
    <3> DEFINE m == tx.msg
               c == m.req[1]
    <3>1. /\ m # None /\ m.kind = "open" /\ c \in Clients /\ c \in listed /\ c = Recipient(m)
          /\ itl' = Put(itl, OpenId(m), OpenEntry(m)) /\ UNCHANGED <<listed, epoch>>
      BY <2>2, TxOpenFacts
    <3>2. itl'[i] = OpenEntry(m)
      BY <2>2, <3>1 DEF Put
    <3>3. /\ itl'[i].client = c /\ itl'[i].priv = OpenPriv(m)
          /\ itl'[i].late = (cl[c].epoch # epoch)
      BY <3>2 DEF OpenEntry
    <3>5. Keeps(c) /\ (\/ DOMAIN cl'[c].handles = DOMAIN cl[c].handles \cup {OpenPriv(m)}
                       \/ ~Reachable(cl[c]))
      BY <2>2, <3>1, PushSteps
    <3>6. cl[c].epoch = epoch => Reachable(cl[c])
      BY <2>1 DEF Reachable, Running, ServerInv
    <3> HIDE DEF m, c
    <3> QED
      BY <3>1, <3>3, <3>5, <3>6 DEF Owned, Keeps
  <2>3. CASE i \in DOMAIN itl
    <3>1. Live(i)
      BY <1>0, <2>3, LiveSteps DEF OpenInv
    <3>2. Owned(i) \/ itl[i].late
      BY <2>1, <2>3, <3>1 DEF LiveInv
    <3>3. CASE Owned(i)
      BY <2>1, <2>3, <3>3, OwnedStays
    <3>4. CASE itl[i].late
      BY <2>3, <3>4, ItlMoves
    <3> QED
      BY <3>2, <3>3, <3>4
  <2> QED
    BY <2>2, <2>3, ItlMoves
<1> QED
  BY <1>1, <1>2

LEMMA LiveInit == Init => LiveIInv
<1> SUFFICES ASSUME Init PROVE LiveIInv
  OBVIOUS
<1> USE DEF Init
<1>1. ListInv
  BY DEF ListInv
<1>2. ClientsInv
  <2>1. epoch = 0 /\ cl = [c \in Clients |-> suscli_analyzer_client_new(epoch)] /\ listed = {}
    OBVIOUS
  <2>2. \A c \in Clients : ClientOK(suscli_analyzer_client_new(0), c)
    <3>1. \A c : HandlesOK(<<>>, c)
      BY FS_EmptySet DEF HandlesOK
    <3>2. \A c : <<>> \in HandleMaps(c)
      BY <3>1, HandleMapsFacts
    <3> QED
      BY <3>2 DEF suscli_analyzer_client_new, ClientOK, ClientRecords
  <2> QED
    BY <2>1, <2>2 DEF ClientsInv
<1>3. InboxInv
  BY DevServAssumption DEF InboxInv
<1>4. ReqInv /\ ItlInv
  BY DEF ReqInv, ItlInv
<1>5. ServerInv
  BY DEF ServerInv, TxPlaces, Running
<1>6. MessageInv
  BY EmptySequence DEF MessageInv
<1>7. aq = <<>> /\ mq = <<>> /\ tx.msg = None /\ rx.pc = "poll" /\ itl = <<>>
  OBVIOUS
<1>a. \A r : ~InAq(r) /\ ~InMq(r) /\ ~InRx(r) /\ ~InTx(r)
  BY <1>7, EmptySequence DEF InAq, InMq, InRx, InTx
<1>8. LiveInv /\ OpenInv /\ ItlFresh /\ OnceInv /\ FreshInv
  BY <1>7, <1>a DEF LiveInv, OpenInv, ItlFresh, OnceInv, Distinct, OnePlace, FreshInv, Held
<1>9. HaltLast
  BY EmptySequence DEF HaltLast
<1> QED
  BY <1>1, <1>2, <1>3, <1>4, <1>5, <1>6, <1>8, <1>9 DEF LiveIInv

LEMMA LiveStep ==
  ASSUME LiveIInv, [Next]_vars
  PROVE  LiveIInv'
<1>1. CASE UNCHANGED vars
  BY <1>1 DEF vars, LiveIInv, ClientsInv, ListInv, InboxInv, ReqInv, ItlInv, MessageInv, ServerInv,
     HaltLast, LiveInv, OpenInv, Live, Opens, Owned, Running, Accepted, OnceInv, OnePlace, Held,
     InAq, InMq, InRx, InTx, FreshInv, ItlFresh, NextRid
<1>2. CASE Next
  <2> USE DEF LiveIInv
  <2>1. ItlInv'
    BY <1>2, ItlInvStep
  <2>2. ClientsInv' /\ ListInv' /\ InboxInv' /\ ReqInv'
    BY <1>2, ClientsInvStep, ListInvStep, InboxInvStep, ReqInvStep
  <2>3. MessageInv' /\ ServerInv' /\ HaltLast'
    BY <1>2, MessageInvStep, ServerInvStep, HaltLastStep
  <2>4. OnceInv' /\ FreshInv' /\ ItlFresh'
    BY <1>2, HeldSteps, FreshInvStep, ItlFreshStep
  <2>5. OpenInv' /\ LiveInv'
    BY <1>2, <2>1, <2>3, OpenInvStep, LiveInvStep
  <2> QED
    BY <2>1, <2>2, <2>3, <2>4, <2>5
<1> QED
  BY <1>1, <1>2

LEMMA LiveHolds == Spec => []LiveIInv
  BY LiveInit, LiveStep, PTL DEF Spec

LEMMA RangeIsToSet == Range(mq) = ToSet(mq)
  BY DEF Range, ToSet

LEMMA RecipientsLive ==
  ASSUME LiveIInv
  PROVE  TranslationsLive
<1> SUFFICES ASSUME NEW m \in InFlight, Recipient(m) # None, ~OpenedLate(m)
             PROVE  Recipient(m) \in listed
  BY DEF TranslationsLive
<1> USE DEF LiveIInv
<1>1. CASE m.kind \in ByRequest
  BY <1>1, RecipientFacts
<1>2. CASE m.kind \notin ByRequest
  <2>1. m.id \in DOMAIN itl /\ Recipient(m) = itl[m.id].client
    BY <1>2, RecipientFacts
  <2>2. m \in ToSet(mq) \/ (tx.msg # None /\ m = tx.msg)
    BY RangeIsToSet DEF InFlight
  <2>3. Live(m.id)
    BY <2>2 DEF Live
  <2>4. Running
    <3>1. tx.msg # None => Running
      BY DEF ServerInv, Running
    <3>2. ~Running /\ m \in ToSet(mq) => m.kind \in ByRequest
      BY DEF HaltLast, Refusal, ByRequest
    <3> QED
      BY <1>2, <2>2, <3>1, <3>2
  <2> QED
    BY <1>2, <2>1, <2>3, <2>4 DEF LiveInv, Owned, OpenedLate
<1> QED
  BY <1>1, <1>2

\* What the tx thread translates leads to a client that is in the list, or to
\* nobody, unless the inspector was opened by a call that was read after the
\* shutdown of its client, for another analyzer.
THEOREM NoStaleTranslation == Spec => []TranslationsLive
  BY LiveHolds, RecipientsLive, PTL

LEMMA KnownInvStep ==
  ASSUME ClientsInv, ListInv, ReqInv, ItlInv, InboxInv, MessageInv, ServerInv, OnceInv, FreshInv,
         KnownInv, Next
  PROVE  KnownInv'
<1> SUFFICES ASSUME NEW r, Held(r)', r[1] # None, r[1] \in listed' PROVE r \in DOMAIN req'
  BY DEF KnownInv
<1>a. ASSUME NEW c \in rx.todo, Requesting(c)
      PROVE  DOMAIN req' = DOMAIN req \cup {GlobalId(c)} /\ UNCHANGED listed
  <2> DEFINE g == GlobalId(c)
             e == [client |-> c, rid |-> g[2]]
  <2>1. req' = Put(req, g, e) /\ UNCHANGED listed
    BY <1>a, RequestFacts
  <2> HIDE DEF g, e
  <2>2. DOMAIN req' = DOMAIN req \cup {g}
    BY <2>1 DEF Put
  <2> QED
    BY <2>1, <2>2 DEF g
<1>1. ASSUME NEW c \in rx.todo, Requesting(c), r = GlobalId(c) PROVE r \in DOMAIN req'
  BY <1>1, <1>a
<1>2. CASE Held(r)
  <2>0. r[1] \in Accepted /\ (r[1] \in listed => r \in DOMAIN req)
    BY <1>2, HeldFacts DEF KnownInv
  <2>1. CASE UNCHANGED <<req, listed>>
    BY <2>0, <2>1
  <2>2. CASE suscli_analyzer_server_register_clients
    BY <2>0, <2>2 DEF suscli_analyzer_server_register_clients, Accepted, Backlog,
       suscli_analyzer_client_list_append_client
  <2>3. ASSUME NEW c \in rx.todo, Requesting(c) PROVE r \in DOMAIN req'
    BY <1>a, <2>0, <2>3
  <2>4. CASE suscli_analyzer_client_list_attempt_cleanup
    <3>1. CASE UNCHANGED <<req, listed>>
      BY <2>0, <3>1
    <3>2. ASSUME listed' = listed \ {c \in Clients : Removable(c)},
                 DOMAIN req' = {g \in DOMAIN req : req[g].client \notin {c \in Clients : Removable(c)}}
          PROVE  r \in DOMAIN req'
      <4>1. r \in DOMAIN req /\ r[1] \notin {c \in Clients : Removable(c)}
        BY <2>0, <3>2
      <4>2. req[r].client = r[1]
        BY <4>1 DEF ReqInv
      <4> QED
        BY <3>2, <4>1, <4>2
    <3> QED
      BY <2>4, <3>1, <3>2, CleanupFacts
  <2>5. ASSUME TxOpen \/ TxClose \/ TxReply \/ TxIgnore, req' = Forget(req, tx.msg.req), UNCHANGED listed
        PROVE  r \in DOMAIN req'
    <3>1. r # tx.msg.req
      BY <2>5, ForgottenGone
    <3> QED
      BY <2>0, <2>5, <3>1 DEF Forget
  <2> QED
    BY <2>1, <2>2, <2>3, <2>4, <2>5, ReqSteps
<1> QED
  BY <1>1, <1>2, HeldSteps

----------------------------------------------------------------------------
\* What was pushed
LEMMA OutSteps ==
  ASSUME Next
  PROVE  \/ UNCHANGED out \/ (TxRead /\ out' = {}) \/ TxOpen \/ TxClose \/ TxReply
         \/ suscli_analyzer_client_list_broadcast_unsafe
<1>1. ASSUME NEW c \in Clients, Connect(c) \/ Disconnect(c) \/ Send(c) PROVE UNCHANGED out
  BY <1>1 DEF Connect, Disconnect, Send
<1>2. ASSUME AnalyzerAnswers \/ AnalyzerSamples \/ AnalyzerHalts PROVE UNCHANGED out
  BY <1>2 DEF AnalyzerAnswers, AnalyzerSamples, AnalyzerHalts
<1>3. ASSUME \/ TxBlocked \/ TxDangling \/ TxOpenOrphan \/ suscli_analyzer_client_list_increment_epoch \/ TxIgnore
             \/ suscli_analyzer_client_list_force_shutdown \/ TxHalted
      PROVE  UNCHANGED out
  BY <1>3 DEF TxBlocked, TxDangling, TxOpenOrphan, TxIgnore, suscli_analyzer_client_list_increment_epoch,
     suscli_analyzer_client_list_force_shutdown, TxHalted
<1>4. ASSUME TxRead PROVE out' = {}
  BY <1>4 DEF TxRead
<1>5. ASSUME NEW c \in rx.todo, RxServe(c) PROVE UNCHANGED out
  BY <1>5 DEF RxServe, suscli_analyzer_server_process_auth_message, RejectClient, RxProtocolError,
     DeliverSetting, DeliverHalt, suscli_analyzer_server_on_open,
     suscli_analyzer_client_intercept_message, suscli_analyzer_server_on_wrong_handle
<1>6. ASSUME NEW c \in rx.todo, RxSkip(c) \/ RxEof(c) PROVE UNCHANGED out
  BY <1>6 DEF RxSkip, RxEof
<1>7. ASSUME \/ RxPoll \/ suscli_analyzer_server_register_clients \/ suscli_analyzer_server_on_set_id
             \/ suscli_analyzer_client_list_attempt_cleanup
      PROVE  UNCHANGED out
  BY <1>7 DEF RxPoll, suscli_analyzer_server_register_clients, suscli_analyzer_server_on_set_id,
     suscli_analyzer_client_list_attempt_cleanup
<1>8. suscli_analyzer_server_rx_thread => UNCHANGED out
  BY <1>5, <1>6, <1>7 DEF suscli_analyzer_server_rx_thread
<1>9. suscli_analyzer_server_tx_thread =>
        \/ UNCHANGED out \/ (TxRead /\ out' = {}) \/ TxOpen \/ TxClose \/ TxReply
        \/ suscli_analyzer_client_list_broadcast_unsafe
  BY <1>3, <1>4 DEF suscli_analyzer_server_tx_thread
<1> QED
  BY <1>1, <1>2, <1>8, <1>9 DEF Next

\* Whom what is pushed is for, and under what identifier
Rightly(d, in) ==
  /\ d.glob # NoHandle /\ d.kind # "wrong_handle" => d.glob.of[1] = d.to
  /\ d.req[1] # None =>
       \/ d.to = d.req[1] /\ d.rid = d.req[2]
       \/ d.kind \in {"wrong_handle", "noop"} /\ d.req[1] \notin in

LEMMA PushedFields ==
  ASSUME NEW c, NEW m
  PROVE  LET d == Pushed(c, m) IN
         /\ d.to = c /\ d.kind = m.kind /\ d.req = m.req /\ d.glob = m.glob
         /\ m.req \in DOMAIN req => d.rid = req[m.req].rid
  BY DEF Pushed

\* What is pushed to the client that the tables lead to
LEMMA PushedRightly ==
  ASSUME ReqInv, ItlInv, KnownInv,
         tx.msg # None, MqOK(tx.msg, Accepted), Recipient(tx.msg) # None,
         Recipient(tx.msg) \in listed
  PROVE  Rightly(Pushed(Recipient(tx.msg), tx.msg), listed)
<1> DEFINE m == tx.msg
           c == Recipient(m)
           d == Pushed(c, m)
<1>1. /\ d.to = c /\ d.kind = m.kind /\ d.req = m.req /\ d.glob = m.glob
      /\ m.req \in DOMAIN req => d.rid = req[m.req].rid
  BY PushedFields
<1>2. c \in listed
  OBVIOUS
<1>3. InTx(m.req)
  BY DEF InTx
<1>4. /\ m.req[1] # None /\ m.glob # NoHandle => m.glob.of[1] = m.req[1]
      /\ m.id # NoHandle => m.glob # NoHandle /\ m.id = Handle("itl", m.glob.of)
  BY DEF MqOK, MsgOK, IdOK
<1>5. m.req \in DOMAIN req => req[m.req].rid = m.req[2]
  BY DEF ReqInv
<1>6. ASSUME m.kind \in ByRequest PROVE m.req \in DOMAIN req /\ c = m.req[1] /\ m.req[1] # None
  BY <1>6, RecipientFacts, DevServAssumption DEF IsRequest
<1>7. ASSUME m.kind \notin ByRequest PROVE m.glob # NoHandle /\ c = m.glob.of[1]
  <2>1. m.id \in DOMAIN itl /\ c = m.id.of[1]
    BY <1>7, RecipientFacts
  <2>2. m.id = Handle("itl", m.id.of)
    BY <2>1 DEF ItlInv
  <2>3. m.id # NoHandle
    BY <2>2 DEF Handle, NoHandle
  <2>4. m.id.of = m.glob.of
    BY <1>4, <2>3 DEF Handle
  <2> QED
    BY <1>4, <2>1, <2>3, <2>4
<1> HIDE DEF d, c, m
<1>8. m.req[1] # None => c = m.req[1]
  BY <1>4, <1>6, <1>7
<1>9. m.req[1] # None => m.req \in DOMAIN req
  BY <1>2, <1>3, <1>8 DEF KnownInv, Held
<1>10. m.glob # NoHandle => m.glob.of[1] = c
  BY <1>4, <1>6, <1>7
<1>11. Rightly(d, listed)
  BY <1>1, <1>5, <1>8, <1>9, <1>10 DEF Rightly
<1> QED
  BY <1>11 DEF d, c, m

\* What is broadcast
LEMMA BroadcastRightly ==
  ASSUME ReqInv, KnownInv, MessageInv, suscli_analyzer_client_list_broadcast_unsafe, NEW c
  PROVE  Rightly(Pushed(c, tx.msg), listed) /\ MqOK(tx.msg, Accepted)
<1> DEFINE m == tx.msg
           d == Pushed(c, m)
<1>1. /\ d.to = c /\ d.kind = m.kind /\ d.req = m.req /\ d.glob = m.glob
  BY PushedFields
<1>2. /\ tx.msg # None /\ m.kind \in {"info", "wrong_handle", "noop"}
      /\ m.kind # "info" => Recipient(m) = None
  BY DEF suscli_analyzer_client_list_broadcast_unsafe, Working, Broadcast
<1>3. MqOK(m, Accepted)
  BY <1>2 DEF MessageInv
<1>4. CASE m.kind = "info"
  <2>1. m.req[1] = None /\ m.glob = NoHandle
    <3>1. m = Msg(m.kind, NoReq, NoHandle, NoHandle)
      BY <1>3, <1>4 DEF MqOK
    <3> QED
      BY <3>1 DEF Msg, NoReq
  <2> HIDE DEF d, m
  <2> QED
    BY <1>1, <1>3, <2>1 DEF Rightly, d, m
<1>5. CASE m.kind \in {"wrong_handle", "noop"}
  <2>1. m.kind = "noop" => m.glob = NoHandle
    BY <1>3 DEF MqOK
  <2>2. m.req \notin DOMAIN req
    <3>1. Recipient(m) = IF m.req \in DOMAIN req THEN req[m.req].client ELSE None
      BY <1>5 DEF Recipient, ByRequest, suscli_analyzer_server_translate_insp_message
    <3> HIDE DEF m
    <3>2. m.req \in DOMAIN req => req[m.req].client \in Clients
      BY DEF ReqInv, IsRequest
    <3> QED
      BY <1>2, <1>5, <3>1, <3>2, DevServAssumption
  <2>3. InTx(m.req)
    BY <1>2 DEF InTx
  <2> HIDE DEF d, m
  <2>4. m.req[1] # None => m.req[1] \notin listed
    BY <2>2, <2>3 DEF KnownInv, Held
  <2> QED
    BY <1>1, <1>3, <1>5, <2>1, <2>4 DEF Rightly, d, m
<1> QED
  BY <1>2, <1>4, <1>5

\* What is pushed at once is for clients that were accepted, and rightly so.
LEMMA NewlyPushed ==
  ASSUME LiveIInv, KnownInv, Next, NEW d \in out'
  PROVE  \/ d \in out
         \/ UNCHANGED listed /\ Rightly(d, listed) /\ (d.req[1] # None => d.req[1] \in Accepted)
<1> USE DEF LiveIInv
<1>1. ASSUME TxOpen \/ TxClose \/ TxReply, d \notin out
      PROVE  UNCHANGED listed /\ Rightly(d, listed) /\ (d.req[1] # None => d.req[1] \in Accepted)
  <2>1. d = Pushed(Recipient(tx.msg), tx.msg) /\ Recipient(tx.msg) \in Clients
    BY <1>1, PushSteps
  <2>2. tx.msg # None /\ UNCHANGED listed /\ Recipient(tx.msg) \in listed
    BY <1>1 DEF TxOpen, TxClose, TxReply, Working
  <2>3. MqOK(tx.msg, Accepted)
    BY <2>2 DEF MessageInv
  <2>4. Rightly(d, listed)
    BY <2>1, <2>2, <2>3, PushedRightly, DevServAssumption
  <2>5. d.req = tx.msg.req
    BY <2>1, PushedFields
  <2> QED
    BY <2>2, <2>3, <2>4, <2>5 DEF MqOK, MsgOK
<1>2. ASSUME suscli_analyzer_client_list_broadcast_unsafe
      PROVE  UNCHANGED listed /\ Rightly(d, listed) /\ (d.req[1] # None => d.req[1] \in Accepted)
  <2>1. UNCHANGED listed /\ \E c : d = Pushed(c, tx.msg)
    BY <1>2 DEF suscli_analyzer_client_list_broadcast_unsafe
  <2>2. PICK c : d = Pushed(c, tx.msg)
    BY <2>1
  <2>3. Rightly(d, listed) /\ MqOK(tx.msg, Accepted)
    BY <1>2, <2>2, BroadcastRightly
  <2>4. d.req = tx.msg.req
    BY <2>2, PushedFields
  <2> QED
    BY <2>1, <2>3, <2>4 DEF MqOK, MsgOK
<1> QED
  BY <1>1, <1>2, OutSteps

LEMMA OutStep ==
  ASSUME LiveIInv, KnownInv, OutInv, ReplyToRequester, Next
  PROVE  OutInv' /\ ReplyToRequester'
<1> USE DEF LiveIInv
<1>1. OutInv'
  BY NewlyPushed, AcceptedGrows DEF OutInv
<1>2. listed' \cap Accepted \subseteq listed
  <2>1. CASE suscli_analyzer_server_register_clients
    BY <2>1 DEF suscli_analyzer_server_register_clients, Accepted, Backlog,
       suscli_analyzer_client_list_append_client
  <2>2. ASSUME NEW c \in rx.todo, Requesting(c) PROVE UNCHANGED listed
    BY <2>2, RequestFacts
  <2>3. CASE suscli_analyzer_client_list_attempt_cleanup
    BY <2>3, CleanupFacts
  <2> QED
    BY <2>1, <2>2, <2>3, ReqSteps
<1>3. ASSUME NEW d \in out' PROVE Rightly(d, listed')
  <2>1. CASE d \in out
    BY <1>2, <2>1 DEF OutInv, ReplyToRequester, Rightly
  <2> QED
    BY <2>1, NewlyPushed
<1> QED
  BY <1>1, <1>3 DEF ReplyToRequester, Rightly

LEMMA ReplyInit == Init => ReplyIInv
<1> SUFFICES ASSUME Init PROVE ReplyIInv
  OBVIOUS
<1>1. LiveIInv
  BY LiveInit
<1>2. aq = <<>> /\ mq = <<>> /\ out = {} /\ tx.msg = None /\ rx.pc = "poll"
  BY DEF Init
<1>3. \A r : ~Held(r)
  BY <1>2, EmptySequence DEF Held, InAq, InMq, InRx, InTx
<1> QED
  BY <1>1, <1>2, <1>3 DEF ReplyIInv, KnownInv, OutInv, ReplyToRequester

LEMMA ReplyStep ==
  ASSUME ReplyIInv, [Next]_vars
  PROVE  ReplyIInv'
<1> USE DEF ReplyIInv
<1>1. LiveIInv'
  BY LiveStep
<1>2. CASE UNCHANGED vars
  BY <1>1, <1>2 DEF vars, Held, InAq, InMq, InRx, InTx, KnownInv, OutInv, Accepted, ReplyToRequester
<1>3. CASE Next
  BY <1>1, <1>3, KnownInvStep, OutStep DEF LiveIInv
<1> QED
  BY <1>2, <1>3

\* A client gets the answers to its own requests, under the identifiers that
\* it chose, and what its own inspectors produce.
THEOREM RepliesToRequester == Spec => []ReplyToRequester
<1>1. Spec => []ReplyIInv
  BY ReplyInit, ReplyStep, PTL DEF Spec
<1>2. ReplyIInv => ReplyToRequester
  BY DEF ReplyIInv
<1> QED
  BY <1>1, <1>2, PTL
=============================================================================
