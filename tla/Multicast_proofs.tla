-------------------------- MODULE Multicast_proofs --------------------------
(***************************************************************************)
(* Proofs about the delivery of calls over a network that loses and        *)
(* reorders datagrams.                                                     *)
(*                                                                         *)
(* What is said of the client is said of a record c, so that it holds of   *)
(* every state a fragment takes it through, and of the calls s sent so far *)
(* and of the set fl of fragments that may still arrive.                   *)
(*                                                                         *)
(* The second part is about the local analyzer: its sweep, and the         *)
(* requests for its inspectors.                                            *)
(***************************************************************************)
EXTENDS Multicast, Local, SeqLemmas, FiniteSetTheorems

FragmentKinds == {"PSD", "ENCAP"}

\* What is written at a place of a superframe: its number, and the place.
Bin == Nat \X Nat

Fragment ==
  [type : FragmentKinds \cup {"ANNOUNCE"}, sf_id : Nat, sf_size : Nat, sf_offset : Nat,
   fc : Int, header : Nat, data : Seq(Bin), copy : Nat]

Delivered ==
  [type : {"ENCAP"}, sf_id : Nat, data : Seq(Bin)]
    \cup [type : {"PSD"}, header : Nat, fc : Int, data : Seq(Bin)]

ClientType ==
  [proc : [impl : FragmentKinds \cup {NoImpl}, type : FragmentKinds \cup {NoImpl}, id : Nat],
   encap : [sf_id : Nat, data : Seq(Bin), taken : SUBSET Nat, remaining : Int],
   psd : [data : Seq(Bin), fc : Int, header : Nat, updates : Nat],
   calls : Seq(Delivered)]

Sent == Seq([call : Calls, id : 0..(IdModulus - 1)])

\* Fragments that may still arrive.
Flight == net \cup ToSet(queue)

TypeParts ==
  /\ sent \in Sent /\ Len(sent) <= MaxCalls
  /\ id \in 0..(IdModulus - 1)
  /\ queue \in Seq(Fragment)
  /\ announcing \in -1..(IdModulus - 1)
  /\ announces \in Nat
  /\ announcing # -1 => announces < MaxAnnounces
  /\ announces <= MaxAnnounces
  /\ net \subseteq Fragment
  /\ Client \in ClientType

\* The type says which of the two processors it is.
ProcOK(c) == c.proc.impl = c.proc.type

\* A fragment of a superframe that was sent.
OfCall(f, s) ==
  /\ f.header \in DOMAIN s
  /\ f.type = s[f.header].call.type
  /\ f.sf_id = s[f.header].id
  /\ f.sf_size = s[f.header].call.size
  /\ f.fc = s[f.header].call.fc
  /\ \A p \in DOMAIN f.data : f.data[p] = <<f.header, f.sf_offset + p - 1>>

FlightInv ==
  /\ \A f \in net : f.type = "ANNOUNCE" \/ OfCall(f, sent)
  /\ \A f \in ToSet(queue) : OfCall(f, sent)

\* Each bin of a spectrum is that of a superframe of this size and frequency.
BinsOK(data, fc, s) ==
  \A p \in DOMAIN data :
    data[p] # Empty => /\ data[p][1] \in DOMAIN s
                       /\ data[p][2] = p - 1
                       /\ s[data[p][1]].call.fc = fc
                       /\ s[data[p][1]].call.size = Len(data)

PsdOK(c, s) ==
  /\ BinsOK(c.psd.data, c.psd.fc, s)
  /\ \A i \in DOMAIN c.calls :
       c.calls[i].type = "PSD" => BinsOK(c.calls[i].data, c.calls[i].fc, s)

Inv == TypeParts /\ ProcOK(Client) /\ FlightInv /\ PsdOK(Client, sent)

----------------------------------------------------------------------------
(***************************************************************************)
(* What encapsulated calls need: the network does not duplicate.           *)
(***************************************************************************)

Ends(f) == f.sf_offset + Len(f.data)

\* f comes before g in the superframe.
Before(f, g) == f.sf_offset < g.sf_offset /\ Ends(f) <= g.sf_offset

\* Two fragments of a superframe do not overlap.
Apart(f, g) == f.header = g.header => Before(f, g) \/ Before(g, f)

\* No fragment is twice on its way.
ApartInv ==
  /\ \A i, j \in DOMAIN queue : i # j => Apart(queue[i], queue[j])
  /\ \A f \in net : f.type # "ANNOUNCE" => \A i \in DOMAIN queue : Apart(f, queue[i])
  /\ \A f, g \in net : f # g /\ f.type # "ANNOUNCE" /\ g.type # "ANNOUNCE" => Apart(f, g)

\* Identifiers go around, and the d-th one after a is b.
After(a, d, b) == b = a + d \/ b = a + d - IdModulus

IdInv ==
  /\ \A k \in DOMAIN sent :
       \E d \in 1..(Len(sent) + announces) : After(sent[k].id, d, id) /\ d > Len(sent) - k
  /\ \A k, l \in DOMAIN sent :
       k < l => \E d \in 1..(MaxCalls + MaxAnnounces - 1) :
                  After(sent[k].id, d, sent[l].id) /\ d >= l - k

\* The bytes of a PDU that have arrived.
Got(e) == {p \in 0..(Len(e.data) - 1) : e.data[p + 1] # Empty}

\* It is that of the k-th superframe.
EncapOf(e, k, s, fl) ==
  /\ s[k].id = e.sf_id /\ s[k].call.type = "ENCAP" /\ s[k].call.size = Len(e.data)
  /\ \A p \in DOMAIN e.data : e.data[p] \in {Empty, <<k, p - 1>>}
  /\ e.remaining = Len(e.data) - Cardinality(Got(e))
  /\ e.taken \subseteq Got(e)
  /\ \A g \in fl : g.type # "ANNOUNCE" /\ g.header = k =>
       \A p \in Got(e) : ~(g.sf_offset <= p /\ p < Ends(g))

Intact(data, s) ==
  \E k \in DOMAIN s : /\ s[k].call.type = "ENCAP" /\ s[k].call.size = Len(data)
                      /\ \A p \in DOMAIN data : data[p] = <<k, p - 1>>

EncapOK(c, s, fl) ==
  /\ c.encap.data # <<>> => \E k \in DOMAIN s : EncapOf(c.encap, k, s, fl)
  /\ \A i \in DOMAIN c.calls : c.calls[i].type = "ENCAP" => Intact(c.calls[i].data, s)
  /\ \A i \in DOMAIN c.calls : c.calls[i].type = "ENCAP" => c.calls[i].data # <<>>

EncapInv == ApartInv /\ IdInv /\ EncapOK(Client, sent, Flight)

----------------------------------------------------------------------------
(***************************************************************************)
(* What the order of calls needs: p is the current superframe.             *)
(***************************************************************************)
Fresh(c) ==
  /\ c.proc.impl = NoImpl /\ c.calls = <<>> /\ c.psd.updates = 0 /\ c.encap.data = <<>>

OrderOf(c, p) ==
  /\ c.proc.impl # NoImpl
  /\ \A i \in DOMAIN c.calls : Origin(c.calls[i]) \in 0..(p + 1)
  /\ c.psd.updates > 0 => c.proc.impl = "PSD" /\ c.psd.header \in {p, p + 1}
  /\ c.encap.data # <<>> /\ c.encap.remaining = 0 =>
       \E i \in DOMAIN c.calls : Origin(c.calls[i]) = c.encap.data[1][1]

\* NoOldCalls, of a list of calls.
InOrder(cs) ==
  \A i, j \in DOMAIN cs : i < j =>
    \/ Origin(cs[j]) >= Origin(cs[i]) - 1
    \/ \E h \in 1..(i - 1) : Origin(cs[h]) = Origin(cs[j])

OrderOK(c, s) ==
  /\ Fresh(c) \/ \E p \in DOMAIN s : s[p].id = c.proc.id /\ OrderOf(c, p)
  /\ InOrder(c.calls)

OrderInv == OrderOK(Client, sent)

----------------------------------------------------------------------------
(***************************************************************************)
(* The fragments of a superframe.                                          *)
(***************************************************************************)

\* There are just enough of them, and each but the last one is full.
LEMMA CountFacts ==
  ASSUME NEW size \in Nat, NEW usable \in Nat \ {0}
  PROVE  LET count == (size + usable - 1) \div usable
         IN /\ count \in Nat
            /\ \A i \in 0..(count - 1) : i * usable \in Nat /\ i * usable < size
<1> DEFINE count == (size + usable - 1) \div usable
<1>1. count \in Nat /\ count * usable <= size + usable - 1
  OBVIOUS
<1>2. ASSUME NEW i \in 0..(count - 1)
      PROVE  i * usable \in Nat /\ i * usable < size
  <2>1. i \in Nat /\ i + 1 <= count
    BY <1>1
  <2> HIDE DEF count
  <2>2. (i + 1) * usable <= count * usable
    BY <1>1, <2>1
  <2>3. (i + 1) * usable = i * usable + usable
    BY <2>1
  <2> QED
    BY <1>1, <2>1, <2>2, <2>3
<1> QED
  BY <1>1, <1>2

\* What deliver_psd and deliver_encap chop a call into: fragments of the call,
\* in the order of their places.
LEMMA FragmentsFacts ==
  ASSUME NEW k \in Nat \ {0}, NEW call \in Calls, NEW sf_id \in Nat
  PROVE  LET frags == Fragments(k, call, sf_id)
         IN /\ frags \in Seq(Fragment)
            /\ \A j \in 1..Len(frags) :
                 /\ frags[j].header = k /\ frags[j].type = call.type
                 /\ frags[j].sf_id = sf_id /\ frags[j].sf_size = call.size
                 /\ frags[j].fc = call.fc
                 /\ \A p \in DOMAIN frags[j].data :
                      frags[j].data[p] = <<k, frags[j].sf_offset + p - 1>>
            /\ \A i, j \in 1..Len(frags) : i < j => Before(frags[i], frags[j])
<1> DEFINE usable == Usable[call.type]
           count == (call.size + usable - 1) \div usable
           size(i) == IF call.size - i * usable < usable THEN call.size - i * usable ELSE usable
           data(i) == [p \in 1..size(i) |-> <<k, i * usable + p - 1>>]
           frag(i) == [type |-> call.type, sf_id |-> sf_id, sf_size |-> call.size,
                       sf_offset |-> i * usable, fc |-> call.fc, header |-> k,
                       data |-> data(i), copy |-> 1]
           frags == Fragments(k, call, sf_id)
<1>1. /\ call.type \in FragmentKinds /\ call.size \in Nat /\ call.fc \in Int
      /\ usable \in Nat \ {0}
  BY MulticastAssumption DEF FragmentKinds
<1> HIDE DEF usable
<1>2. count \in Nat /\ \A i \in 0..(count - 1) : i * usable \in Nat /\ i * usable < call.size
  BY <1>1, CountFacts
<1>11. count \in Nat
  BY <1>2
<1>3. frags = [j \in 1..count |-> frag(j - 1)]
  BY DEF Fragments, usable
<1> HIDE DEF count, frags
<1>4. ASSUME NEW i \in 0..(count - 1)
      PROVE  /\ size(i) \in Nat /\ size(i) <= usable
             /\ data(i) \in Seq(Bin) /\ Len(data(i)) = size(i)
  <2>1. size(i) \in Nat /\ size(i) <= usable
    BY <1>1, <1>2
  <2> HIDE DEF size
  <2>2. \A p \in 1..size(i) : <<k, i * usable + p - 1>> \in Bin
    BY <1>2, <2>1 DEF Bin
  <2> QED
    BY <2>1, <2>2
<1> HIDE DEF size
<1>5. \A i \in 0..(count - 1) : frag(i) \in Fragment
  <2> TAKE i \in 0..(count - 1)
  <2>1. i * usable \in Nat /\ data(i) \in Seq(Bin)
    BY <1>2, <1>4
  <2> HIDE DEF data
  <2> QED
    BY <1>1, <2>1 DEF Fragment
<1>6. \A j \in 1..count : j - 1 \in 0..(count - 1) /\ frags[j] = frag(j - 1)
  BY <1>2, <1>3
<1>10. \A j \in 1..count : /\ frags[j].sf_offset = (j - 1) * usable
                           /\ frags[j].data = data(j - 1)
  <2> HIDE DEF data
  <2>1. \A i : frag(i).sf_offset = i * usable /\ frag(i).data = data(i)
    OBVIOUS
  <2> HIDE DEF frag
  <2> QED
    BY <1>6, <2>1
<1>7. frags \in Seq(Fragment) /\ Len(frags) = count
  <2> HIDE DEF frag
  <2>1. \A j \in 1..count : frag(j - 1) \in Fragment
    BY <1>5, <1>6
  <2> QED
    BY <1>2, <1>3, <2>1
<1>8. ASSUME NEW j \in 1..count
      PROVE  /\ frags[j].header = k /\ frags[j].type = call.type
             /\ frags[j].sf_id = sf_id /\ frags[j].sf_size = call.size
             /\ frags[j].fc = call.fc
             /\ \A p \in DOMAIN frags[j].data :
                  frags[j].data[p] = <<k, frags[j].sf_offset + p - 1>>
  <2>1. j - 1 \in 0..(count - 1)
    BY <1>6
  <2>2. \A p \in DOMAIN frags[j].data :
          frags[j].data[p] = <<k, frags[j].sf_offset + p - 1>>
    <3>1. frags[j].data = data(j - 1) /\ frags[j].sf_offset = (j - 1) * usable
      BY <1>10
    <3>2. \A p \in DOMAIN data(j - 1) : data(j - 1)[p] = <<k, (j - 1) * usable + p - 1>>
      OBVIOUS
    <3> HIDE DEF data
    <3> QED
      BY <3>1, <3>2
  <2> HIDE DEF data
  <2>3. /\ frag(j - 1).header = k /\ frag(j - 1).type = call.type
        /\ frag(j - 1).sf_id = sf_id /\ frag(j - 1).sf_size = call.size
        /\ frag(j - 1).fc = call.fc
    OBVIOUS
  <2> HIDE DEF frag
  <2> QED
    BY <1>6, <2>2, <2>3
<1>9. ASSUME NEW i \in 1..count, NEW j \in 1..count, i < j
      PROVE  Before(frags[i], frags[j])
  <2> HIDE DEF data
  <2>1. /\ frags[i].sf_offset = (i - 1) * usable /\ frags[j].sf_offset = (j - 1) * usable
        /\ frags[i].data = data(i - 1)
    BY <1>10
  <2>2. Len(frags[i].data) \in Nat /\ Len(frags[i].data) <= usable
    <3>1. i - 1 \in 0..(count - 1)
      BY <1>6
    <3>2. Len(data(i - 1)) = size(i - 1) /\ size(i - 1) \in Nat /\ size(i - 1) <= usable
      BY <1>4, <3>1
    <3> QED
      BY <2>1, <3>2
  <2>3. i * usable <= (j - 1) * usable
    <3>1. i \in Nat /\ j - 1 \in Nat /\ i <= j - 1
      BY <1>9, <1>11
    <3> QED
      BY <1>1, <3>1
  <2>4. /\ i * usable = (i - 1) * usable + usable
        /\ (i - 1) * usable \in Nat /\ (j - 1) * usable \in Nat
    <3>1. i - 1 \in 0..(count - 1) /\ j - 1 \in 0..(count - 1)
      BY <1>6
    <3>2. (i - 1) * usable \in Nat /\ (j - 1) * usable \in Nat
      BY <1>2, <3>1
    <3>3. i * usable = (i - 1) * usable + usable
      BY <1>1
    <3> QED
      BY <3>2, <3>3
  <2> QED
    BY <1>1, <2>1, <2>2, <2>3, <2>4, SMTT(30) DEF Before, Ends
<1> QED
  BY <1>7, <1>8, <1>9 DEF frags

----------------------------------------------------------------------------
(***************************************************************************)
(* What the processor's functions do to the client.                        *)
(***************************************************************************)

EncapType == [sf_id : Nat, data : Seq(Bin), taken : SUBSET Nat, remaining : Int]
PsdType == [data : Seq(Bin), fc : Int, header : Nat, updates : Nat]

\* What a flush hands to the analyzer.
EncapCall(c) == [type |-> "ENCAP", sf_id |-> c.encap.sf_id, data |-> c.encap.data]
PsdCall(c) ==
  [type |-> "PSD", header |-> c.psd.header, fc |-> c.psd.fc, data |-> c.psd.data]

Complete(e) == e.remaining = 0 /\ e.data # <<>>

\* What suscli_multicast_processor_trigger_on_call changes: nothing, or it
\* delivers a complete PDU, or what there is of a spectrum.
Flushed(c, d) ==
  /\ d.proc = c.proc /\ d.encap = c.encap
  /\ \/ d.calls = c.calls /\ d.psd = c.psd /\ (c.proc.impl = "PSD" => c.psd.updates = 0)
     \/ /\ c.proc.impl = "ENCAP" /\ Complete(c.encap)
        /\ d.calls = Append(c.calls, EncapCall(c)) /\ d.psd = c.psd
     \/ /\ c.proc.impl = "PSD" /\ c.psd.updates > 0
        /\ d.calls = Append(c.calls, PsdCall(c))
        /\ d.psd = [c.psd EXCEPT !.updates = 0]

\* Assignments to one member of the client.
LEMMA RecordCalls ==
  ASSUME NEW c \in ClientType, NEW cs \in Seq(Delivered)
  PROVE  LET d == [c EXCEPT !.calls = cs]
         IN /\ d \in ClientType /\ d.proc = c.proc /\ d.encap = c.encap /\ d.psd = c.psd
            /\ d.calls = cs
  BY DEF ClientType

LEMMA RecordEncap ==
  ASSUME NEW c \in ClientType, NEW e \in EncapType
  PROVE  LET d == [c EXCEPT !.encap = e]
         IN /\ d \in ClientType /\ d.proc = c.proc /\ d.calls = c.calls /\ d.psd = c.psd
            /\ d.encap = e
  BY DEF ClientType, EncapType

LEMMA RecordPsd ==
  ASSUME NEW c \in ClientType, NEW p \in PsdType
  PROVE  LET d == [c EXCEPT !.psd = p]
         IN /\ d \in ClientType /\ d.proc = c.proc /\ d.calls = c.calls
            /\ d.encap = c.encap /\ d.psd = p
  BY DEF ClientType, PsdType

LEMMA FlushFacts ==
  ASSUME NEW c \in ClientType
  PROVE  /\ trigger_on_call(c) \in ClientType
         /\ Flushed(c, trigger_on_call(c))
<1>1. /\ c.proc.impl \in {"PSD", "ENCAP", "none"}
      /\ c.encap \in EncapType /\ c.psd \in PsdType /\ c.calls \in Seq(Delivered)
  BY DEF ClientType, EncapType, PsdType, FragmentKinds, NoImpl
<1>2. EncapCall(c) \in Delivered /\ PsdCall(c) \in Delivered
  BY <1>1 DEF EncapCall, PsdCall, Delivered, EncapType, PsdType
<1>3. CASE c.proc.impl = "ENCAP"
  <2>1. trigger_on_call(c) = encap_try_flush(c)
    BY <1>3 DEF trigger_on_call
  <2>2. CASE Complete(c.encap)
    <3>1. trigger_on_call(c) = [c EXCEPT !.calls = Append(@, EncapCall(c))]
      BY <2>1, <2>2 DEF encap_try_flush, Complete, EncapCall
    <3> DEFINE cs == Append(c.calls, EncapCall(c))
    <3>2. trigger_on_call(c) = [c EXCEPT !.calls = cs] /\ cs \in Seq(Delivered)
      BY <1>1, <1>2, <3>1
    <3> HIDE DEF cs
    <3>3. /\ trigger_on_call(c) \in ClientType
          /\ trigger_on_call(c).proc = c.proc /\ trigger_on_call(c).encap = c.encap
          /\ trigger_on_call(c).psd = c.psd /\ trigger_on_call(c).calls = cs
      BY <3>2, RecordCalls
    <3> QED
      BY <1>3, <2>2, <3>3 DEF Flushed, cs
  <2>3. CASE ~Complete(c.encap)
    BY <1>3, <2>1, <2>3 DEF encap_try_flush, Complete, Flushed
  <2> QED
    BY <2>2, <2>3
<1>4. CASE c.proc.impl = "PSD"
  <2>1. trigger_on_call(c) = psd_try_flush(c)
    BY <1>4 DEF trigger_on_call
  <2>2. CASE c.psd.updates > 0
    <3> DEFINE p == [c.psd EXCEPT !.updates = 0]
               b == [c EXCEPT !.psd = p]
               cs == Append(c.calls, PsdCall(c))
    <3>1. trigger_on_call(c) = [b EXCEPT !.calls = cs]
      BY <2>1, <2>2 DEF psd_try_flush, PsdCall, ClientType
    <3>2. cs \in Seq(Delivered) /\ p \in PsdType
      BY <1>1, <1>2 DEF PsdType
    <3> HIDE DEF cs, p
    <3>3. b \in ClientType /\ b.proc = c.proc /\ b.encap = c.encap /\ b.psd = p
      BY <3>2, RecordPsd
    <3> HIDE DEF b
    <3>4. /\ trigger_on_call(c) \in ClientType
          /\ trigger_on_call(c).proc = c.proc /\ trigger_on_call(c).encap = c.encap
          /\ trigger_on_call(c).psd = p /\ trigger_on_call(c).calls = cs
      BY <3>1, <3>2, <3>3, RecordCalls
    <3> QED
      BY <1>4, <2>2, <3>4 DEF Flushed, p, cs
  <2>3. CASE ~(c.psd.updates > 0)
    BY <1>1, <1>4, <2>1, <2>3 DEF psd_try_flush, Flushed, PsdType
  <2> QED
    BY <2>2, <2>3
<1>5. CASE c.proc.impl = "none"
  BY <1>5 DEF trigger_on_call, Flushed
<1> QED
  BY <1>1, <1>3, <1>4, <1>5

\* A PDU that starts.
LEMMA ClearFacts ==
  ASSUME NEW e, NEW f \in Fragment, NEW size \in {0, f.sf_size}
  PROVE  LET new == encap_clear(e, f.sf_id, size)
         IN /\ new \in EncapType /\ new.sf_id = f.sf_id /\ Len(new.data) = size
            /\ new.remaining = size /\ new.taken = {}
            /\ \A p \in 1..size : new.data[p] = Empty
<1> DEFINE data == [i \in 1..size |-> Empty]
<1>0. size \in Nat /\ f.sf_id \in Nat
  BY DEF Fragment
<1>1. Empty \in Bin
  BY DEF Empty, Bin
<1> HIDE DEF Empty
<1>2. data \in Seq(Bin) /\ Len(data) = size /\ \A p \in 1..size : data[p] = Empty
  BY <1>0, <1>1
<1> HIDE DEF data
<1>3. encap_clear(e, f.sf_id, size)
        = [sf_id |-> f.sf_id, data |-> data, taken |-> {}, remaining |-> size]
  BY DEF encap_clear, data
<1> QED
  BY <1>0, <1>2, <1>3 DEF EncapType

\* The bytes a fragment brings: those that are free.
Places(f) == f.sf_offset..(f.sf_offset + Len(f.data) - 1)

LEMMA CopyFacts ==
  ASSUME NEW e \in EncapType, NEW f \in Fragment, Ends(f) <= Len(e.data)
  PROVE  LET free == Places(f) \ e.taken
             new == encap_copy(e, f)
         IN /\ new \in EncapType /\ new.sf_id = e.sf_id /\ Len(new.data) = Len(e.data)
            /\ \A p \in 1..Len(e.data) :
                 new.data[p] = IF p - 1 \in free THEN f.data[p - f.sf_offset] ELSE e.data[p]
            /\ new.taken \subseteq e.taken \cup free
            /\ IsFiniteSet(free) /\ new.remaining = e.remaining - Cardinality(free)
<1> DEFINE free == Places(f) \ e.taken
           data == [i \in DOMAIN e.data |-> IF i - 1 \in free
                                             THEN f.data[i - f.sf_offset] ELSE e.data[i]]
           taken == e.taken \cup {p \in free : Tracked(p)}
<1>1. /\ f.sf_offset \in Nat /\ f.data \in Seq(Bin) /\ Len(f.data) \in Nat
      /\ Ends(f) = f.sf_offset + Len(f.data)
  BY DEF Fragment, Ends
<1>2. e.data \in Seq(Bin) /\ e.taken \subseteq Nat /\ e.remaining \in Int /\ e.sf_id \in Nat
  BY DEF EncapType
<1>3. free \subseteq Places(f) /\ Places(f) \subseteq Nat /\ IsFiniteSet(Places(f))
  <2>1. f.sf_offset + Len(f.data) - 1 \in Int /\ f.sf_offset \in Int
    BY <1>1
  <2>2. IsFiniteSet(f.sf_offset..(f.sf_offset + Len(f.data) - 1))
    BY <2>1, FS_Interval
  <2> QED
    BY <1>1, <2>1, <2>2 DEF Places
<1>4. IsFiniteSet(free) /\ Cardinality(free) \in Nat
  BY <1>3, FS_Subset, FS_CardinalityType
<1>5. \A i \in 1..Len(e.data) : i - 1 \in free => i - f.sf_offset \in 1..Len(f.data)
  BY <1>1, <1>3 DEF Places
<1> HIDE DEF free
<1>6. data \in Seq(Bin) /\ Len(data) = Len(e.data)
  <2>1. \A i \in 1..Len(e.data) : e.data[i] \in Bin
    BY <1>2
  <2>2. \A i \in 1..Len(f.data) : f.data[i] \in Bin
    BY <1>1
  <2>3. \A i \in 1..Len(e.data) : data[i] \in Bin
    BY <1>2, <1>5, <2>1, <2>2
  <2>4. DOMAIN e.data = 1..Len(e.data) /\ Len(e.data) \in Nat
    BY <1>2
  <2>5. DOMAIN data = 1..Len(e.data)
    BY <2>4
  <2>6. data = [i \in 1..Len(e.data) |-> data[i]]
    BY <2>4
  <2> HIDE DEF Bin, data
  <2> QED
    BY <2>3, <2>4, <2>6
<1>7. \A p \in 1..Len(e.data) :
        data[p] = IF p - 1 \in free THEN f.data[p - f.sf_offset] ELSE e.data[p]
  BY <1>2
<1>8. taken \subseteq Nat /\ taken \subseteq e.taken \cup free
  BY <1>2, <1>3
<1> HIDE DEF data, taken
<1>9. encap_copy(e, f) = [e EXCEPT !.data = data, !.taken = taken,
                                   !.remaining = @ - Cardinality(free)]
  BY DEF encap_copy, data, taken, free, Places
<1> DEFINE remaining == e.remaining - Cardinality(free)
<1>10. encap_copy(e, f) = [sf_id |-> e.sf_id, data |-> data, taken |-> taken,
                           remaining |-> remaining]
  BY <1>9 DEF EncapType
<1>11. remaining \in Int
  BY <1>2, <1>4
<1> HIDE DEF remaining
<1>12. /\ encap_copy(e, f).sf_id = e.sf_id /\ encap_copy(e, f).data = data
       /\ encap_copy(e, f).taken = taken
       /\ encap_copy(e, f).remaining = remaining
       /\ encap_copy(e, f) \in EncapType
  BY <1>2, <1>6, <1>8, <1>10, <1>11 DEF EncapType
<1> QED
  BY <1>4, <1>6, <1>7, <1>8, <1>12 DEF free, remaining

\* The PDU a fragment is copied to: the current one, or one that starts.
Opened(c, f, e) ==
  \/ e = c.encap /\ f.sf_size = Len(e.data) /\ f.sf_id = e.sf_id
  \/ e = encap_clear(c.encap, f.sf_id, f.sf_size)

\* d has the bytes of the fragment, and if that was the last one, a call.
Copied(c, f, e, d) ==
  /\ Ends(f) <= Len(e.data) /\ Len(e.data) = f.sf_size
  /\ d.encap = encap_copy(e, f)
  /\ d.calls = IF Complete(d.encap) THEN Append(c.calls, EncapCall(d)) ELSE c.calls

\* suscli_multicast_processor_encap_on_fragment.
LEMMA EncapFragmentFacts ==
  ASSUME NEW c \in ClientType, NEW f \in Fragment, c.proc.impl = "ENCAP"
  PROVE  LET d == encap_on_fragment(c, f)
         IN /\ d \in ClientType /\ d.proc = c.proc /\ d.psd = c.psd
            /\ \/ d.calls = c.calls /\ d.encap = encap_clear(c.encap, f.sf_id, 0)
               \/ \E e \in EncapType :
                    /\ Opened(c, f, e)
                    /\ \/ d.calls = c.calls /\ d.encap = e
                       \/ Copied(c, f, e, d)
<1> DEFINE fresh == f.sf_size # Len(c.encap.data) \/ f.sf_id # c.encap.sf_id
           e == IF fresh THEN encap_clear(c.encap, f.sf_id, f.sf_size) ELSE c.encap
           none == encap_clear(c.encap, f.sf_id, 0)
           b == [c EXCEPT !.encap = encap_copy(e, f)]
           d == encap_on_fragment(c, f)
<1>1. /\ f.sf_id \in Nat /\ f.sf_size \in Nat /\ f.sf_offset \in Nat
      /\ Len(f.data) \in Nat /\ c.encap \in EncapType
  BY SMTT(30) DEF Fragment, ClientType, EncapType
<1>2. e \in EncapType /\ Opened(c, f, e) /\ Len(e.data) = f.sf_size
  <2>1. CASE fresh
    <3>1. e = encap_clear(c.encap, f.sf_id, f.sf_size)
      BY <2>1
    <3> HIDE DEF e
    <3>2. /\ encap_clear(c.encap, f.sf_id, f.sf_size) \in EncapType
          /\ Len(encap_clear(c.encap, f.sf_id, f.sf_size).data) = f.sf_size
      BY ClearFacts
    <3> QED
      BY <3>1, <3>2 DEF Opened
  <2>2. CASE ~fresh
    <3>1. e = c.encap
      BY <2>2
    <3> HIDE DEF e
    <3> QED
      BY <1>1, <2>2, <3>1 DEF Opened
  <2> QED
    BY <2>1, <2>2
<1>3. none \in EncapType
  BY ClearFacts
<1>4. d = IF fresh /\ f.sf_size > MAX_SUPERFRAME THEN [c EXCEPT !.encap = none]
          ELSE IF f.sf_offset + Len(f.data) > f.sf_size THEN [c EXCEPT !.encap = e]
          ELSE IF b.encap.remaining = 0 THEN trigger_on_call(b) ELSE b
  BY DEF encap_on_fragment
<1> HIDE DEF e, none, d, fresh
<1>5. CASE fresh /\ f.sf_size > MAX_SUPERFRAME
  <2>1. d = [c EXCEPT !.encap = none]
    BY <1>4, <1>5
  <2>2. /\ d \in ClientType /\ d.proc = c.proc /\ d.calls = c.calls
        /\ d.psd = c.psd /\ d.encap = none
    BY <1>3, <2>1, RecordEncap
  <2> QED
    BY <2>2 DEF none, d
<1>6. CASE ~(fresh /\ f.sf_size > MAX_SUPERFRAME) /\ f.sf_offset + Len(f.data) > f.sf_size
  <2>1. d = [c EXCEPT !.encap = e]
    BY <1>4, <1>6
  <2>2. d \in ClientType /\ d.proc = c.proc /\ d.calls = c.calls /\ d.psd = c.psd /\ d.encap = e
    BY <1>2, <2>1, RecordEncap
  <2> QED
    BY <1>2, <2>2 DEF d
<1>7. CASE ~(fresh /\ f.sf_size > MAX_SUPERFRAME) /\ ~(f.sf_offset + Len(f.data) > f.sf_size)
  <2>1. d = IF b.encap.remaining = 0 THEN trigger_on_call(b) ELSE b
    BY <1>4, <1>7
  <2>2. Ends(f) <= Len(e.data)
    BY <1>1, <1>2, <1>7 DEF Ends
  <2>3. encap_copy(e, f) \in EncapType
    BY <1>2, <2>2, CopyFacts
  <2>4. /\ b \in ClientType /\ b.proc = c.proc /\ b.psd = c.psd /\ b.calls = c.calls
        /\ b.encap = encap_copy(e, f)
    BY <2>3, RecordEncap
  <2> HIDE DEF b
  <2>5. trigger_on_call(b) \in ClientType /\ Flushed(b, trigger_on_call(b))
    BY <2>4, FlushFacts
  <2>6. /\ trigger_on_call(b).proc = c.proc /\ trigger_on_call(b).psd = c.psd
        /\ trigger_on_call(b).encap = b.encap
    BY <2>4, <2>5 DEF Flushed
  <2>7. trigger_on_call(b) = encap_try_flush(b)
    BY <2>4 DEF trigger_on_call
  <2>8. trigger_on_call(b).calls
          = IF Complete(b.encap) THEN Append(c.calls, EncapCall(b)) ELSE c.calls
    BY <2>4, <2>7 DEF encap_try_flush, Complete, EncapCall, ClientType
  <2>9. EncapCall(trigger_on_call(b)) = EncapCall(b)
    BY <2>6 DEF EncapCall
  <2>10. /\ d \in ClientType /\ d.proc = c.proc /\ d.psd = c.psd
         /\ Copied(c, f, e, d)
    <3>1. CASE b.encap.remaining = 0
      BY <1>2, <2>1, <2>2, <2>4, <2>5, <2>6, <2>8, <2>9, <3>1 DEF Copied
    <3>2. CASE b.encap.remaining # 0
      BY <1>2, <2>1, <2>2, <2>4, <3>2 DEF Copied, Complete
    <3> QED
      BY <3>1, <3>2
  <2> QED
    BY <1>2, <2>10 DEF d
<1> QED
  BY <1>5, <1>6, <1>7

\* The spectrum a fragment is written to: the current one, or an empty one
\* after what there was has been delivered.
Retuned(c, f, b) ==
  /\ b.proc = c.proc /\ b.encap = c.encap
  /\ \/ b = c /\ f.sf_size = Len(c.psd.data) /\ f.fc = c.psd.fc
     \/ /\ b.calls = trigger_on_call(c).calls /\ b.psd.updates = 0
        /\ \A p \in DOMAIN b.psd.data : b.psd.data[p] = Empty

\* d has the bins of the fragment at their places.
Written(b, f, d) ==
  /\ Len(b.psd.data) = f.sf_size /\ Len(d.psd.data) = f.sf_size
  /\ d.proc = b.proc /\ d.encap = b.encap /\ d.calls = b.calls
  /\ \A p \in DOMAIN d.psd.data :
       d.psd.data[p] = IF p - f.sf_offset \in DOMAIN f.data THEN f.data[p - f.sf_offset]
                                                            ELSE b.psd.data[p]
  /\ d.psd.header = IF b.psd.updates = 0 THEN f.header ELSE b.psd.header
  /\ d.psd.fc = IF b.psd.updates = 0 THEN f.fc ELSE b.psd.fc
  /\ d.psd.updates = b.psd.updates + 1

\* suscli_multicast_processor_psd_on_fragment.
LEMMA PsdFragmentFacts ==
  ASSUME NEW c \in ClientType, NEW f \in Fragment, c.proc.impl = "PSD"
  PROVE  LET d == psd_on_fragment(c, f)
         IN /\ d \in ClientType
            /\ \E b \in ClientType : Retuned(c, f, b) /\ (d = b \/ Written(b, f, d))
<1> DEFINE reallocate == f.sf_size # Len(c.psd.data) \/ f.fc # c.psd.fc
           flushed == trigger_on_call(c)
           empty == [i \in 1..f.sf_size |-> Empty]
           b == IF reallocate THEN [flushed EXCEPT !.psd.data = empty, !.psd.updates = 0]
                              ELSE c
           none == [flushed EXCEPT !.psd.data = <<>>]
           data == [i \in DOMAIN b.psd.data |->
                      IF i - f.sf_offset \in DOMAIN f.data THEN f.data[i - f.sf_offset]
                                                           ELSE b.psd.data[i]]
           written == [b EXCEPT !.psd.data = [i \in DOMAIN @ |->
                                  IF i - f.sf_offset \in DOMAIN f.data
                                    THEN f.data[i - f.sf_offset] ELSE @[i]],
                                !.psd.header = IF b.psd.updates = 0 THEN f.header ELSE @,
                                !.psd.fc = IF b.psd.updates = 0 THEN f.fc ELSE @,
                                !.psd.updates = @ + 1]
           d == psd_on_fragment(c, f)
<1>1. /\ f.sf_size \in Nat /\ f.sf_offset \in Nat /\ f.data \in Seq(Bin)
      /\ f.fc \in Int /\ f.header \in Nat /\ c.psd \in PsdType
  BY DEF Fragment, ClientType, PsdType
<1>2. d = IF reallocate /\ f.sf_size > MAX_SUPERFRAME THEN none
          ELSE IF f.sf_offset + Len(f.data) > f.sf_size THEN b ELSE written
  BY DEF psd_on_fragment
<1>3. /\ flushed \in ClientType /\ flushed.proc = c.proc /\ flushed.encap = c.encap
      /\ flushed.psd \in PsdType /\ flushed.psd.updates = 0
  <2>1. flushed \in ClientType /\ Flushed(c, flushed)
    BY FlushFacts
  <2>2. flushed.psd \in PsdType
    BY <2>1 DEF ClientType, PsdType
  <2>3. flushed.psd.updates = 0
    BY <1>1, <2>1 DEF Flushed, PsdType
  <2> QED
    BY <2>1, <2>2, <2>3 DEF Flushed
<1>4. empty \in Seq(Bin) /\ Len(empty) = f.sf_size /\ \A p \in 1..f.sf_size : empty[p] = Empty
  <2>1. Empty \in Bin
    BY DEF Empty, Bin
  <2> HIDE DEF Empty
  <2> QED
    BY <1>1, <2>1
<1> HIDE DEF flushed, empty, d
<1>5. none \in ClientType /\ Retuned(c, f, none)
  <2> DEFINE p == [flushed.psd EXCEPT !.data = <<>>]
  <2>1. p \in PsdType /\ p.updates = 0 /\ p.data = <<>>
    <3>1. <<>> \in Seq(Bin)
      OBVIOUS
    <3>2. flushed.psd = [data |-> flushed.psd.data, fc |-> flushed.psd.fc,
                         header |-> flushed.psd.header, updates |-> 0]
      BY <1>3 DEF PsdType
    <3> QED
      BY <1>3, <3>1, <3>2 DEF PsdType
  <2>2. none = [flushed EXCEPT !.psd = p]
    BY <1>3 DEF ClientType
  <2> HIDE DEF p, none
  <2>3. /\ none \in ClientType /\ none.proc = flushed.proc /\ none.calls = flushed.calls
        /\ none.encap = flushed.encap /\ none.psd = p
    BY <1>3, <2>1, <2>2, RecordPsd
  <2> QED
    BY <1>3, <2>1, <2>3 DEF Retuned, flushed
<1>6. b \in ClientType /\ Retuned(c, f, b) /\ Len(b.psd.data) = f.sf_size
  <2>1. CASE reallocate
    <3>1. b = [flushed EXCEPT !.psd.data = empty, !.psd.updates = 0]
      BY <2>1
    <3> HIDE DEF b
    <3>2. b \in ClientType
      BY <1>3, <1>4, <3>1 DEF ClientType, PsdType
    <3>3. /\ b.proc = c.proc /\ b.encap = c.encap /\ b.calls = flushed.calls
          /\ b.psd.data = empty /\ b.psd.updates = 0
      BY <1>3, <3>1 DEF ClientType, PsdType
    <3> QED
      BY <1>1, <1>4, <3>2, <3>3 DEF Retuned, flushed
  <2>2. CASE ~reallocate
    BY <2>2 DEF Retuned
  <2> QED
    BY <2>1, <2>2
<1> HIDE DEF none, reallocate, b
<1>7. b.psd \in PsdType
  BY <1>6 DEF ClientType, PsdType
<1>8. /\ data \in Seq(Bin) /\ Len(data) = Len(b.psd.data)
      /\ \A p \in DOMAIN data :
           data[p] = IF p - f.sf_offset \in DOMAIN f.data THEN f.data[p - f.sf_offset]
                                                          ELSE b.psd.data[p]
  <2>1. b.psd.data \in Seq(Bin)
    BY <1>7 DEF PsdType
  <2>2. \A p \in 1..Len(b.psd.data) : data[p] \in Bin
    BY <1>1, <2>1
  <2> QED
    BY <2>1, <2>2
<1>9. written = [b EXCEPT !.psd.data = data,
                          !.psd.header = IF b.psd.updates = 0 THEN f.header ELSE @,
                          !.psd.fc = IF b.psd.updates = 0 THEN f.fc ELSE @,
                          !.psd.updates = @ + 1]
  BY <1>6, <1>7 DEF ClientType, PsdType
<1> HIDE DEF written, data
<1>10. written \in ClientType /\ Written(b, f, written)
  <2> DEFINE header == IF b.psd.updates = 0 THEN f.header ELSE b.psd.header
             fc == IF b.psd.updates = 0 THEN f.fc ELSE b.psd.fc
             updates == b.psd.updates + 1
             p == [data |-> data, fc |-> fc, header |-> header, updates |-> updates]
  <2>1. /\ header \in Nat /\ fc \in Int
        /\ b.psd.updates \in Nat /\ updates \in Nat
    BY <1>1, <1>7, SMTT(30) DEF PsdType
  <2> HIDE DEF header, fc, updates
  <2>2. written = [b EXCEPT !.psd = p]
    <3> DEFINE q == [b.psd EXCEPT !.data = data, !.header = header, !.fc = fc,
                                  !.updates = updates]
    <3>1. q = p
      <4>1. q \in PsdType
        BY <1>7, <1>8, <2>1 DEF PsdType
      <4>2. q.data = data /\ q.header = header /\ q.fc = fc /\ q.updates = updates
        BY <1>7 DEF PsdType
      <4> HIDE DEF q
      <4> QED
        BY <4>1, <4>2 DEF PsdType
    <3>2. written = [b EXCEPT !.psd = q]
      BY <1>6, <1>7, <1>9 DEF ClientType, PsdType, header, fc, updates
    <3> QED
      BY <3>1, <3>2
  <2>3. p \in PsdType
    BY <1>8, <2>1 DEF PsdType
  <2>4. p.data = data /\ p.header = header /\ p.fc = fc /\ p.updates = updates
    OBVIOUS
  <2> HIDE DEF p
  <2>5. /\ written \in ClientType /\ written.proc = b.proc /\ written.calls = b.calls
        /\ written.encap = b.encap /\ written.psd = p
    BY <1>6, <2>2, <2>3, RecordPsd
  <2> QED
    BY <1>6, <1>8, <2>4, <2>5 DEF Written, header, fc, updates
<1> QED
  BY <1>2, <1>5, <1>6, <1>10 DEF d

\* The processor a fragment is handed to: the current one, or one that starts
\* after the current superframe has ended.
Current(c, f, b) ==
  /\ b.proc.impl = f.type
  /\ \/ b = c /\ Delta(f.sf_id, c.proc.id) \in {0, 1}
     \/ /\ c.proc.impl = NoImpl \/ Delta(f.sf_id, c.proc.id) >= 0
        /\ b.proc.id = f.sf_id /\ b.encap = c.encap
        /\ b.psd = trigger_on_call(c).psd /\ b.calls = trigger_on_call(c).calls

\* suscli_multicast_processor_process.
LEMMA ProcessFacts ==
  ASSUME NEW c \in ClientType, ProcOK(c), NEW f \in Fragment
  PROVE  LET r == suscli_multicast_processor_process(c, f)
         IN \/ r = c
            \/ /\ f.type \in FragmentKinds
               /\ \E b \in ClientType :
                    /\ ProcOK(b) /\ Current(c, f, b)
                    /\ r = IF f.type = "ENCAP" THEN encap_on_fragment(b, f)
                                               ELSE psd_on_fragment(b, f)
<1> DEFINE r == suscli_multicast_processor_process(c, f)
           first == c.proc.impl = NoImpl
           delta == Delta(f.sf_id, c.proc.id)
           refresh == c.proc.type # f.type \/ delta > 1 \/ first
           new == [impl |-> f.type, type |-> f.type, id |-> f.sf_id]
           d == [trigger_on_call(c) EXCEPT !.proc = new]
           b == IF refresh THEN d ELSE c
<1>1. /\ f.type \in FragmentKinds \cup {"ANNOUNCE"} /\ f.sf_id \in Nat
      /\ c.proc.impl \in FragmentKinds \cup {NoImpl} /\ c.proc.id \in Nat
  BY DEF Fragment, ClientType
<1>2. delta \in Int
  <2>1. IdModulus \in Nat /\ IdModulus > 0
    BY MulticastAssumption
  <2> QED
    BY <1>1, <2>1 DEF Delta
<1>3. CASE f.type = "ANNOUNCE" \/ (delta < 0 /\ ~first)
  BY <1>3 DEF suscli_multicast_processor_process
<1>4. CASE ~(f.type = "ANNOUNCE" \/ (delta < 0 /\ ~first))
  <2>1. r = on_fragment(b, f)
    BY <1>4 DEF suscli_multicast_processor_process
  <2>2. f.type \in FragmentKinds
    BY <1>1, <1>4
  <2>3. b \in ClientType /\ ProcOK(b) /\ Current(c, f, b)
    <3>1. CASE refresh
      <4>1. trigger_on_call(c) \in ClientType /\ Flushed(c, trigger_on_call(c))
        BY FlushFacts
      <4>2. /\ d \in ClientType /\ d.proc = new /\ d.encap = trigger_on_call(c).encap
            /\ d.psd = trigger_on_call(c).psd /\ d.calls = trigger_on_call(c).calls
        BY <1>1, <2>2, <4>1 DEF ClientType
      <4>3. first \/ delta >= 0
        BY <1>2, <1>4
      <4>4. b = d
        BY <3>1
      <4> HIDE DEF b, d, delta, first
      <4>5. ProcOK(b)
        BY <4>2, <4>4 DEF ProcOK
      <4>6. Current(c, f, b)
        BY <4>1, <4>2, <4>3, <4>4 DEF Current, Flushed, first, delta
      <4> QED
        BY <4>2, <4>4, <4>5, <4>6
    <3>2. CASE ~refresh
      <4>1. delta \in {0, 1} /\ c.proc.impl = f.type
        BY <1>2, <1>4, <3>2 DEF ProcOK
      <4> QED
        BY <3>2, <4>1 DEF Current
    <3> QED
      BY <3>1, <3>2
  <2> HIDE DEF b
  <2>4. r = IF f.type = "ENCAP" THEN encap_on_fragment(b, f) ELSE psd_on_fragment(b, f)
    BY <2>1, <2>2, <2>3 DEF on_fragment, Current, FragmentKinds
  <2> QED
    BY <2>2, <2>3, <2>4
<1> QED
  BY <1>3, <1>4

----------------------------------------------------------------------------
(***************************************************************************)
(* Spectra.                                                                *)
(***************************************************************************)

\* What is delivered of a spectrum is what there was of it.
LEMMA PsdFlush ==
  ASSUME NEW c \in ClientType, NEW s, NEW d \in ClientType, PsdOK(c, s),
         d.psd.data = c.psd.data, d.psd.fc = c.psd.fc,
         d.calls = c.calls \/ d.calls = Append(c.calls, PsdCall(c))
                           \/ \E x \in Delivered :
                                x.type = "ENCAP" /\ d.calls = Append(c.calls, x)
  PROVE  PsdOK(d, s)
<1>1. BinsOK(d.psd.data, d.psd.fc, s)
  BY DEF PsdOK
<1>2. ASSUME NEW i \in DOMAIN d.calls, d.calls[i].type = "PSD"
      PROVE  BinsOK(d.calls[i].data, d.calls[i].fc, s)
  <2>1. c.calls \in Seq(Delivered)
    BY DEF ClientType
  <2>2. CASE i \in DOMAIN c.calls /\ d.calls[i] = c.calls[i]
    BY <1>2, <2>2 DEF PsdOK
  <2>3. CASE d.calls[i] = PsdCall(c)
    BY <2>3 DEF PsdOK, PsdCall
  <2>4. CASE d.calls[i].type = "ENCAP"
    BY <1>2, <2>4
  <2>5. \/ i \in DOMAIN c.calls /\ d.calls[i] = c.calls[i]
        \/ d.calls[i] = PsdCall(c) \/ d.calls[i].type = "ENCAP"
    <3>1. PsdCall(c) \in Delivered
      BY DEF PsdCall, Delivered, ClientType
    <3>2. ASSUME NEW x \in Delivered, d.calls = Append(c.calls, x)
          PROVE  (i \in DOMAIN c.calls /\ d.calls[i] = c.calls[i]) \/ d.calls[i] = x
      BY <2>1, <3>2
    <3>3. CASE d.calls = c.calls
      BY <3>3
    <3>4. CASE d.calls = Append(c.calls, PsdCall(c))
      BY <3>1, <3>2, <3>4
    <3>5. CASE \E x \in Delivered : x.type = "ENCAP" /\ d.calls = Append(c.calls, x)
      BY <3>2, <3>5
    <3> QED
      BY <3>3, <3>4, <3>5
  <2> QED
    BY <2>2, <2>3, <2>4, <2>5
<1> QED
  BY <1>1, <1>2 DEF PsdOK

\* What trigger_on_call leaves.
LEMMA PsdTrigger ==
  ASSUME NEW c \in ClientType, NEW s, NEW d \in ClientType, PsdOK(c, s),
         d.calls = trigger_on_call(c).calls, d.psd = trigger_on_call(c).psd
  PROVE  PsdOK(d, s)
<1>1. Flushed(c, trigger_on_call(c))
  BY FlushFacts
<1>2. d.psd.data = c.psd.data /\ d.psd.fc = c.psd.fc
  BY <1>1, ZenonT(60) DEF Flushed, ClientType
<1>3. EncapCall(c) \in Delivered /\ EncapCall(c).type = "ENCAP"
  BY DEF EncapCall, Delivered, ClientType
<1> QED
  BY <1>1, <1>2, <1>3, PsdFlush DEF Flushed

\* A fragment is written at its place, and to a spectrum of its frequency.
LEMMA PsdFragment ==
  ASSUME NEW c \in ClientType, NEW s, NEW f \in Fragment, PsdOK(c, s), OfCall(f, s),
         c.proc.impl = "PSD"
  PROVE  PsdOK(psd_on_fragment(c, f), s)
<1> DEFINE d == psd_on_fragment(c, f)
<1>1. PICK b \in ClientType : Retuned(c, f, b) /\ (d = b \/ Written(b, f, d))
  BY PsdFragmentFacts
<1>2. d \in ClientType
  BY PsdFragmentFacts
<1> HIDE DEF d
<1>3. b.psd \in PsdType /\ d.psd \in PsdType /\ f.data \in Seq(Bin) /\ f.sf_offset \in Nat
  BY <1>2 DEF ClientType, PsdType, Fragment
<1>4. PsdOK(b, s)
  <2>1. CASE b = c
    BY <2>1
  <2>2. CASE /\ b.calls = trigger_on_call(c).calls
             /\ \A p \in DOMAIN b.psd.data : b.psd.data[p] = Empty
    <3> DEFINE t == trigger_on_call(c)
    <3>1. t \in ClientType
      BY FlushFacts
    <3>2. PsdOK(t, s)
      BY <3>1, PsdTrigger
    <3> HIDE DEF t
    <3>3. b.calls = t.calls
      BY <2>2 DEF t
    <3>4. BinsOK(b.psd.data, b.psd.fc, s)
      BY <2>2 DEF BinsOK
    <3> QED
      BY <3>2, <3>3, <3>4 DEF PsdOK
  <2> QED
    BY <1>1, <2>1, <2>2 DEF Retuned
<1>5. ASSUME Written(b, f, d)
      PROVE  PsdOK(d, s)
  <2>1. /\ d.psd.fc = f.fc /\ Len(d.psd.data) = f.sf_size /\ d.calls = b.calls
        /\ \/ b.psd.fc = f.fc
           \/ \A p \in DOMAIN b.psd.data : b.psd.data[p] = Empty
        /\ Len(b.psd.data) = f.sf_size
    BY <1>1, <1>5 DEF Retuned, Written
  <2>2. ASSUME NEW p \in DOMAIN d.psd.data, d.psd.data[p] # Empty
        PROVE  /\ d.psd.data[p][1] \in DOMAIN s /\ d.psd.data[p][2] = p - 1
               /\ s[d.psd.data[p][1]].call.fc = d.psd.fc
               /\ s[d.psd.data[p][1]].call.size = Len(d.psd.data)
    <3>1. p \in Int /\ p \in DOMAIN b.psd.data
      BY <1>3, <2>1 DEF PsdType
    <3>2. CASE p - f.sf_offset \in DOMAIN f.data
      <4>1. d.psd.data[p] = f.data[p - f.sf_offset]
        BY <1>5, <3>2 DEF Written
      <4>2. f.data[p - f.sf_offset] = <<f.header, f.sf_offset + (p - f.sf_offset) - 1>>
        BY <3>2 DEF OfCall
      <4>3. f.sf_offset + (p - f.sf_offset) - 1 = p - 1
        BY <1>3, <3>1
      <4> QED
        BY <2>1, <4>1, <4>2, <4>3 DEF OfCall
    <3>3. CASE p - f.sf_offset \notin DOMAIN f.data
      <4>1. d.psd.data[p] = b.psd.data[p]
        BY <1>5, <3>3 DEF Written
      <4>2. b.psd.fc = f.fc
        BY <2>1, <2>2, <3>1, <4>1
      <4> QED
        BY <1>4, <2>1, <2>2, <3>1, <4>1, <4>2 DEF PsdOK, BinsOK
    <3> QED
      BY <3>2, <3>3
  <2>3. BinsOK(d.psd.data, d.psd.fc, s)
    BY <2>2 DEF BinsOK
  <2> QED
    BY <1>4, <2>1, <2>3 DEF PsdOK
<1> QED
  BY <1>1, <1>4, <1>5 DEF d

\* A fragment of an encapsulated call leaves spectra alone.
LEMMA PsdOtherFragment ==
  ASSUME NEW c \in ClientType, NEW s, NEW f \in Fragment, PsdOK(c, s),
         c.proc.impl = "ENCAP"
  PROVE  PsdOK(encap_on_fragment(c, f), s)
<1> DEFINE d == encap_on_fragment(c, f)
<1>1. /\ d \in ClientType /\ d.psd = c.psd
      /\ d.calls = c.calls \/ d.calls = Append(c.calls, EncapCall(d))
  BY EncapFragmentFacts DEF Copied
<1> HIDE DEF d
<1>2. EncapCall(d) \in Delivered /\ EncapCall(d).type = "ENCAP"
  BY <1>1 DEF EncapCall, Delivered, ClientType
<1>3. PsdOK(d, s)
  BY <1>1, <1>2, PsdFlush
<1> QED
  BY <1>3 DEF d

\* A datagram keeps the types of the client and its spectra in order.
LEMMA PsdProcess ==
  ASSUME NEW c \in ClientType, NEW s, NEW f \in Fragment, ProcOK(c), PsdOK(c, s),
         f.type = "ANNOUNCE" \/ OfCall(f, s)
  PROVE  LET r == suscli_multicast_processor_process(c, f)
         IN r \in ClientType /\ ProcOK(r) /\ PsdOK(r, s)
<1> DEFINE r == suscli_multicast_processor_process(c, f)
<1>1. CASE r = c
  BY <1>1
<1>2. ASSUME NEW b \in ClientType, f.type \in FragmentKinds, ProcOK(b), Current(c, f, b),
             r = IF f.type = "ENCAP" THEN encap_on_fragment(b, f) ELSE psd_on_fragment(b, f)
      PROVE  r \in ClientType /\ ProcOK(r) /\ PsdOK(r, s)
  <2> HIDE DEF r
  <2>1. OfCall(f, s)
    BY <1>2 DEF FragmentKinds
  <2>2. PsdOK(b, s)
    BY <1>2, PsdTrigger DEF Current
  <2>3. CASE f.type = "ENCAP"
    <3>1. b.proc.impl = "ENCAP" /\ r = encap_on_fragment(b, f)
      BY <1>2, <2>3 DEF Current
    <3>2. r \in ClientType /\ r.proc = b.proc
      BY <3>1, EncapFragmentFacts
    <3>3. PsdOK(r, s)
      BY <2>2, <3>1, PsdOtherFragment
    <3> QED
      BY <1>2, <3>2, <3>3 DEF ProcOK
  <2>4. CASE f.type = "PSD"
    <3>1. b.proc.impl = "PSD" /\ r = psd_on_fragment(b, f)
      BY <1>2, <2>4 DEF Current
    <3>2. PICK a \in ClientType : Retuned(b, f, a) /\ (r = a \/ Written(a, f, r))
      BY <3>1, PsdFragmentFacts
    <3>3. r \in ClientType /\ r.proc = b.proc
      BY <3>1, <3>2, PsdFragmentFacts DEF Retuned, Written
    <3>4. PsdOK(r, s)
      BY <2>1, <2>2, <3>1, PsdFragment
    <3> QED
      BY <1>2, <3>3, <3>4 DEF ProcOK
  <2> QED
    BY <1>2, <2>3, <2>4 DEF FragmentKinds
<1> QED
  BY <1>1, <1>2, ProcessFacts

----------------------------------------------------------------------------
(***************************************************************************)
(* The base invariant.                                                     *)
(***************************************************************************)

\* Superframes that were sent stay so.
Grows(s, t) == DOMAIN s \subseteq DOMAIN t /\ \A k \in DOMAIN s : t[k] = s[k]

LEMMA OfCallGrows ==
  ASSUME NEW s, NEW t, Grows(s, t), NEW f, OfCall(f, s)
  PROVE  OfCall(f, t)
BY DEF Grows, OfCall

LEMMA PsdGrows ==
  ASSUME NEW s, NEW t, Grows(s, t), NEW c, PsdOK(c, s)
  PROVE  PsdOK(c, t)
<1>1. ASSUME NEW data, NEW fc, BinsOK(data, fc, s)
      PROVE  BinsOK(data, fc, t)
  BY <1>1 DEF BinsOK, Grows
<1> QED
  BY <1>1 DEF PsdOK

\* The members of the client after a datagram.
LEMMA ClientIs ==
  ASSUME NEW c \in ClientType,
         proc' = c.proc, encap' = c.encap, psd' = c.psd, calls' = c.calls
  PROVE  Client' = c
BY DEF Client, ClientType

LEMMA ClientStays ==
  ASSUME UNCHANGED client
  PROVE  Client' = Client
BY DEF client, Client

\* A call: n of its fragments, from the first one on, are queued.
Queued(call, frags, n) ==
  /\ n \in 0..Len(frags)
  /\ queue' \in Seq(Fragment) /\ Len(queue') = Len(queue) + n
  /\ \A i \in 1..Len(queue) : queue'[i] = queue[i]
  /\ \A i \in 1..n : queue'[Len(queue) + i] = frags[i]

LEMMA DeliverFacts ==
  ASSUME TypeParts, NEW call \in Calls, suscli_multicast_manager_deliver_call(call)
  PROVE  LET k == Len(sent) + 1
         IN /\ sent' \in Sent /\ Len(sent') = k /\ k <= MaxCalls
            /\ Grows(sent, sent') /\ sent'[k] = [call |-> call, id |-> id]
            /\ \E n : Queued(call, Fragments(k, call, id), n)
<1> DEFINE k == Len(sent) + 1
           frags == Fragments(k, call, id)
<1>1. /\ sent \in Sent /\ id \in 0..(IdModulus - 1) /\ Len(sent) < MaxCalls /\ MaxCalls \in Nat
      /\ sent' = Append(sent, [call |-> call, id |-> id])
      /\ queue \in Seq(Fragment)
  BY MulticastAssumption DEF TypeParts, suscli_multicast_manager_deliver_call
<1>2. /\ sent' \in Sent /\ Len(sent') = k /\ k <= MaxCalls
      /\ Grows(sent, sent') /\ sent'[k] = [call |-> call, id |-> id]
  <2> DEFINE x == [call |-> call, id |-> id]
             S == [call : Calls, id : 0..(IdModulus - 1)]
  <2>1. x \in S /\ sent \in Seq(S) /\ sent' = Append(sent, x)
    BY <1>1 DEF Sent
  <2> HIDE DEF x, S
  <2>2. /\ sent' \in Seq(S) /\ Len(sent') = Len(sent) + 1
        /\ sent'[Len(sent) + 1] = x /\ \A j \in 1..Len(sent) : sent'[j] = sent[j]
    BY <2>1
  <2>3. DOMAIN sent = 1..Len(sent) /\ DOMAIN sent' = 1..(Len(sent) + 1) /\ Len(sent) \in Nat
    BY <2>1, <2>2
  <2> QED
    BY <1>1, <2>2, <2>3 DEF Grows, Sent, S, x
<1>3. frags \in Seq(Fragment)
  <2>1. k \in Nat \ {0} /\ id \in Nat
    BY <1>1 DEF Sent
  <2> QED
    BY <2>1, FragmentsFacts
<1> HIDE DEF frags
<1>4. ASSUME NEW q \in Seq(Fragment), NEW n \in 0..Len(frags), Len(q) = n,
             \A i \in 1..n : q[i] = frags[i], queue' = queue \o q
      PROVE  Queued(call, frags, n)
  <2>1. Len(queue) \in Nat /\ Len(q) \in Nat
    BY <1>1
  <2>2. /\ queue \o q \in Seq(Fragment)
        /\ Len(queue \o q) = Len(queue) + Len(q)
        /\ \A j \in 1..(Len(queue) + Len(q)) :
             (queue \o q)[j] = IF j <= Len(queue) THEN queue[j] ELSE q[j - Len(queue)]
    BY <1>1, ConcatProperties
  <2>3. \A i \in 1..Len(queue) : queue'[i] = queue[i]
    BY <1>4, <2>1, <2>2
  <2>4. \A i \in 1..n : queue'[Len(queue) + i] = frags[i]
    <3> TAKE i \in 1..n
    <3>1. /\ Len(queue) + i \in 1..(Len(queue) + Len(q)) /\ ~(Len(queue) + i <= Len(queue))
          /\ Len(queue) + i - Len(queue) = i
      BY <1>4, <2>1
    <3> QED
      BY <1>4, <2>2, <3>1
  <2> QED
    BY <1>4, <2>2, <2>3, <2>4 DEF Queued
<1>5. CASE queue' = queue \o frags
  <2>1. Len(frags) \in 0..Len(frags)
    BY <1>3
  <2> QED
    BY <1>2, <1>3, <1>4, <1>5, <2>1 DEF frags
<1>6. ASSUME NEW n \in 0..(Len(frags) - 1), queue' = queue \o SubSeq(frags, 1, n)
      PROVE  Queued(call, frags, n)
  <2> DEFINE q == SubSeq(frags, 1, n)
  <2>1. q \in Seq(Fragment) /\ Len(q) = n /\ \A i \in 1..n : q[i] = frags[i]
    BY <1>3
  <2>2. n \in 0..Len(frags)
    BY <1>3
  <2> HIDE DEF q
  <2> QED
    BY <1>4, <1>6, <2>1, <2>2 DEF q
<1>7. \/ queue' = queue \o frags
      \/ \E n \in 0..(Len(frags) - 1) : queue' = queue \o SubSeq(frags, 1, n)
  BY DEF suscli_multicast_manager_deliver_call, frags
<1> QED
  BY <1>2, <1>5, <1>6, <1>7 DEF frags

\* Sending a call.
LEMMA DeliverInv ==
  ASSUME Inv, NEW call \in Calls, suscli_multicast_manager_deliver_call(call)
  PROVE  Inv'
<1> DEFINE k == Len(sent) + 1
           frags == Fragments(k, call, id)
<1>1. /\ sent' \in Sent /\ Len(sent') = k /\ k <= MaxCalls
      /\ Grows(sent, sent') /\ sent'[k] = [call |-> call, id |-> id]
  BY DeliverFacts DEF Inv
<1>2. PICK n : Queued(call, frags, n)
  BY DeliverFacts DEF Inv
<1>3. /\ sent \in Sent /\ Len(sent) \in Nat /\ id \in 0..(IdModulus - 1)
      /\ queue \in Seq(Fragment) /\ IdModulus \in Nat
  BY MulticastAssumption DEF Inv, TypeParts, Sent
<1>4. /\ frags \in Seq(Fragment)
      /\ \A j \in 1..Len(frags) :
           /\ frags[j].header = k /\ frags[j].type = call.type
           /\ frags[j].sf_id = id /\ frags[j].sf_size = call.size
           /\ frags[j].fc = call.fc
           /\ \A p \in DOMAIN frags[j].data :
                frags[j].data[p] = <<k, frags[j].sf_offset + p - 1>>
  <2>1. k \in Nat \ {0} /\ id \in Nat
    BY <1>3
  <2> HIDE DEF k
  <2> QED
    BY ONLY <2>1, FragmentsFacts, call \in Calls DEF frags
<1> HIDE DEF frags
<1>5. Client' = Client
  BY ClientStays DEF suscli_multicast_manager_deliver_call
<1>6. TypeParts'
  <2>1. id' \in 0..(IdModulus - 1)
    BY <1>3 DEF suscli_multicast_manager_deliver_call
  <2> QED
    BY <1>1, <1>2, <1>5, <2>1
    DEF Inv, TypeParts, Queued, suscli_multicast_manager_deliver_call
<1>7. FlightInv'
  <2>1. k \in DOMAIN sent'
    BY <1>1, <1>3 DEF Sent
  <2>2. \A j \in 1..Len(frags) : OfCall(frags[j], sent')
    BY <1>1, <1>4, <2>1 DEF OfCall
  <2>3. ASSUME NEW f \in ToSet(queue')
        PROVE  f \in ToSet(queue) \/ \E j \in 1..Len(frags) : f = frags[j]
    <3>1. PICK i \in 1..Len(queue') : f = queue'[i]
      BY <1>2, <2>3, ToSetFacts DEF Queued
    <3>2. CASE i <= Len(queue)
      <4>1. i \in 1..Len(queue) /\ f = queue[i]
        BY <1>2, <1>3, <3>1, <3>2 DEF Queued
      <4> QED
        BY <4>1, <1>3, ToSetFacts
    <3>3. CASE i > Len(queue)
      <4>1. i - Len(queue) \in 1..n /\ i = Len(queue) + (i - Len(queue)) /\ n <= Len(frags)
        BY <1>2, <1>3, <1>4, <3>1, <3>3 DEF Queued
      <4>2. queue'[i] = frags[i - Len(queue)] /\ i - Len(queue) \in 1..Len(frags)
        BY <1>2, <1>3, <1>4, <4>1 DEF Queued
      <4> QED
        BY <3>1, <4>2
    <3> QED
      BY <1>3, <3>1, <3>2, <3>3
  <2>4. net' = net
    BY DEF suscli_multicast_manager_deliver_call
  <2>5. /\ \A f \in net : f.type = "ANNOUNCE" \/ OfCall(f, sent')
        /\ \A f \in ToSet(queue) : OfCall(f, sent')
    BY <1>1, OfCallGrows DEF Inv, FlightInv
  <2> QED
    BY <2>2, <2>3, <2>4, <2>5 DEF FlightInv
<1>8. PsdOK(Client', sent')
  BY <1>1, <1>5, PsdGrows DEF Inv
<1> QED
  BY <1>5, <1>6, <1>7, <1>8 DEF Inv

\* A fragment moves to the network, or the send fails.
LEMMA TxInv ==
  ASSUME Inv, suscli_multicast_manager_tx_cb
  PROVE  Inv'
<1>1. queue \in Seq(Fragment) /\ net \subseteq Fragment
  BY DEF Inv, TypeParts
<1>2. Client' = Client /\ sent' = sent /\ id' = id /\ announcing' = announcing
      /\ announces' = announces
  BY ClientStays DEF suscli_multicast_manager_tx_cb
<1>3. /\ queue' \in Seq(Fragment) /\ net' \subseteq Fragment
      /\ ToSet(queue') \subseteq ToSet(queue) /\ net' \subseteq net \cup ToSet(queue)
  <2>1. CASE queue' = queue /\ net' = net
    BY <1>1, <2>1
  <2>2. CASE queue # <<>> /\ queue' = Tail(queue) /\ (net' = net \/ net' = net \cup {Head(queue)})
    BY <1>1, <2>2, HeadFacts
  <2> QED
    BY <2>1, <2>2 DEF suscli_multicast_manager_tx_cb
<1>4. TypeParts'
  BY <1>2, <1>3 DEF Inv, TypeParts
<1>5. FlightInv'
  BY <1>2, <1>3 DEF Inv, FlightInv
<1> QED
  BY <1>2, <1>4, <1>5 DEF Inv

\* An announce takes an identifier, and is not the client's business.
LEMMA AnnounceInv ==
  ASSUME Inv, AnnounceRead \/ AnnounceWrite
  PROVE  Inv'
<1>1. Client' = Client /\ sent' = sent /\ queue' = queue
  BY ClientStays DEF AnnounceRead, AnnounceWrite
<1>2. /\ IdModulus \in Nat /\ IdModulus > 0 /\ MaxAnnounces \in Nat
      /\ id \in 0..(IdModulus - 1) /\ announcing \in -1..(IdModulus - 1)
      /\ announces \in Nat /\ announces <= MaxAnnounces
      /\ announcing # -1 => announces < MaxAnnounces
  BY MulticastAssumption DEF Inv, TypeParts
<1>3. CASE AnnounceRead
  <2>1. /\ id' = id /\ net' = net /\ announces' = announces
        /\ announcing' = id /\ announces < MaxAnnounces
    BY <1>3 DEF AnnounceRead
  <2>2. TypeParts'
    BY <1>1, <1>2, <2>1 DEF Inv, TypeParts
  <2> QED
    BY <1>1, <2>1, <2>2 DEF Inv, FlightInv, Flight
<1>4. CASE AnnounceWrite
  <2> DEFINE a == [type |-> "ANNOUNCE", sf_id |-> announcing, sf_size |-> 0, sf_offset |-> 0,
                   fc |-> 0, header |-> 0, data |-> <<>>, copy |-> 1]
  <2>1. announcing # -1 /\ announcing' = -1 /\ announces' = announces + 1
    BY <1>4 DEF AnnounceWrite
  <2>2. net' = net \/ net' = net \cup {a}
    BY <1>4 DEF AnnounceWrite
  <2>3. a \in Fragment /\ a.type = "ANNOUNCE"
    <3>1. announcing \in Nat /\ <<>> \in Seq(Bin)
      BY <1>2, <2>1
    <3> QED
      BY <3>1 DEF Fragment
  <2> HIDE DEF a
  <2>4. id' \in 0..(IdModulus - 1)
    <3>1. id' = (announcing + 1) % IdModulus \/ id' = (id + 1) % IdModulus
      BY <1>4 DEF AnnounceWrite
    <3> QED
      BY <1>2, <3>1
  <2>5. net' \subseteq Fragment
    BY <2>2, <2>3 DEF Inv, TypeParts
  <2>6. announcing' \in -1..(IdModulus - 1) /\ announces' \in Nat /\ announces' <= MaxAnnounces
    BY <1>2, <2>1
  <2>7. TypeParts'
    BY <1>1, <2>1, <2>4, <2>5, <2>6 DEF Inv, TypeParts
  <2>8. FlightInv'
    BY <1>1, <2>2, <2>3 DEF Inv, FlightInv, Flight
  <2> QED
    BY <1>1, <2>7, <2>8 DEF Inv
<1> QED
  BY <1>3, <1>4

\* The manager frees its queue.
LEMMA DestroyInv ==
  ASSUME Inv, suscli_multicast_manager_destroy
  PROVE  Inv'
<1>1. /\ Client' = Client /\ sent' = sent /\ id' = id /\ announcing' = announcing
      /\ announces' = announces /\ net' = net /\ queue' = <<>>
  BY ClientStays DEF suscli_multicast_manager_destroy
<1>2. queue' \in Seq(Fragment) /\ ToSet(queue') = {}
  BY <1>1 DEF ToSet
<1>3. TypeParts'
  BY <1>1, <1>2 DEF Inv, TypeParts
<1>4. FlightInv'
  BY <1>1, <1>2 DEF Inv, FlightInv, Flight
<1> QED
  BY <1>1, <1>3, <1>4 DEF Inv

\* A datagram arrives, or arrives again.
LEMMA DatagramInv ==
  ASSUME Inv, suscli_multicast_processor_process_datagram
  PROVE  Inv'
<1>1. PICK f \in net :
        /\ proc' = suscli_multicast_processor_process(Client, f).proc
        /\ encap' = suscli_multicast_processor_process(Client, f).encap
        /\ psd' = suscli_multicast_processor_process(Client, f).psd
        /\ calls' = suscli_multicast_processor_process(Client, f).calls
        /\ net' = IF "duplicate" \in Faults /\ f.copy = 1
                    THEN (net \ {f}) \cup {[f EXCEPT !.copy = 2]} ELSE net \ {f}
        /\ UNCHANGED server
  BY DEF suscli_multicast_processor_process_datagram
<1> DEFINE r == suscli_multicast_processor_process(Client, f)
           g == [f EXCEPT !.copy = 2]
<1>2. /\ f \in Fragment /\ Client \in ClientType /\ ProcOK(Client) /\ PsdOK(Client, sent)
      /\ f.type = "ANNOUNCE" \/ OfCall(f, sent)
  BY <1>1 DEF Inv, TypeParts, FlightInv, Flight
<1>3. r \in ClientType /\ ProcOK(r) /\ PsdOK(r, sent)
  BY <1>2, PsdProcess
<1> HIDE DEF r
<1>4. Client' = r
  BY <1>1, <1>3, ClientIs DEF r
<1>5. g \in Fragment /\ (g.type = "ANNOUNCE" \/ OfCall(g, sent))
  <2>1. g \in Fragment
    BY <1>2 DEF Fragment
  <2>2. /\ g.type = f.type /\ g.sf_id = f.sf_id /\ g.sf_size = f.sf_size
        /\ g.sf_offset = f.sf_offset /\ g.fc = f.fc /\ g.header = f.header /\ g.data = f.data
    BY <1>2 DEF Fragment
  <2> HIDE DEF g
  <2> QED
    BY <1>2, <2>1, <2>2 DEF OfCall
<1> HIDE DEF g
<1>6. net' \subseteq net \cup {g}
  BY <1>1 DEF g
<1>7. /\ sent' = sent /\ id' = id /\ queue' = queue /\ announcing' = announcing
      /\ announces' = announces
  BY <1>1 DEF server
<1>8. TypeParts'
  BY <1>3, <1>4, <1>5, <1>6, <1>7 DEF Inv, TypeParts
<1>9. FlightInv'
  BY <1>5, <1>6, <1>7 DEF Inv, FlightInv, Flight
<1> QED
  BY <1>3, <1>4, <1>7, <1>8, <1>9 DEF Inv

LEMMA InitInv == Init => Inv
<1> SUFFICES ASSUME Init PROVE Inv
  OBVIOUS
<1>1. /\ IdModulus \in Nat /\ FirstId \in 0..(IdModulus - 1)
      /\ MaxCalls \in Nat /\ MaxAnnounces \in Nat
  BY MulticastAssumption
<1>2. Client = [proc |-> [impl |-> NoImpl, type |-> NoImpl, id |-> 0],
                encap |-> [sf_id |-> 0, data |-> <<>>, taken |-> {}, remaining |-> 0],
                psd |-> [data |-> <<>>, fc |-> 0, header |-> 0, updates |-> 0],
                calls |-> <<>>]
  BY DEF Init, Client
<1>3. Client \in ClientType /\ ProcOK(Client)
  <2>1. <<>> \in Seq(Bin) /\ <<>> \in Seq(Delivered)
    OBVIOUS
  <2> QED
    BY <1>2, <2>1 DEF ClientType, ProcOK
<1>4. Client.calls = <<>> /\ Client.psd.data = <<>>
  BY <1>2
<1>5. PsdOK(Client, sent)
  BY <1>4 DEF PsdOK, BinsOK
<1>6. sent \in Sent /\ Len(sent) = 0 /\ queue \in Seq(Fragment)
  BY DEF Init, Sent
<1>7. TypeParts
  BY <1>1, <1>3, <1>6 DEF Init, TypeParts
<1>8. FlightInv
  BY DEF Init, FlightInv, Flight, ToSet
<1> QED
  BY <1>3, <1>5, <1>7, <1>8 DEF Inv

LEMMA StutterInv == Inv /\ UNCHANGED vars => Inv'
<1> SUFFICES ASSUME Inv, UNCHANGED vars PROVE Inv'
  OBVIOUS
<1>1. Client' = Client
  BY ClientStays DEF vars
<1>2. /\ sent' = sent /\ id' = id /\ queue' = queue /\ announcing' = announcing
      /\ announces' = announces /\ net' = net
  BY DEF vars, server
<1>3. TypeParts'
  BY <1>1, <1>2 DEF Inv, TypeParts
<1> QED
  BY <1>1, <1>2, <1>3 DEF Inv, FlightInv, Flight

LEMMA StepInv == Inv /\ [Next]_vars => Inv'
BY DeliverInv, TxInv, AnnounceInv, DestroyInv, DatagramInv, StutterInv DEF Next, Deliver

\* The types of the manager and of the processor, fragments that are those of
\* superframes that were sent, and spectra whose bins are at their places, hold
\* whatever the network does.
THEOREM InvHolds == Spec => []Inv
BY InitInv, StepInv, PTL DEF Spec

\* A spectrum that the processor of a remote analyzer delivers shows bins at
\* their places and all of one frequency, however fragments are lost, reordered
\* or duplicated, and whichever calls share an identifier
\* (suscli_multicast_processor_psd_on_fragment).
THEOREM SpectraOfOneTuning == Spec => []SameTuning
<1>1. Inv => SameTuning
  <2> SUFFICES ASSUME Inv PROVE SameTuning
    OBVIOUS
  <2>1. Client.calls = calls
    BY DEF Client
  <2> QED
    BY <2>1 DEF Inv, PsdOK, BinsOK, SameTuning
<1> QED
  BY <1>1, InvHolds, PTL

----------------------------------------------------------------------------
(***************************************************************************)
(* Identifiers.                                                            *)
(***************************************************************************)

\* No superframe and announce shares its identifier with another one, and the
\* network does not duplicate.
Distinct == Faults = {} /\ MaxCalls + MaxAnnounces <= IdModulus

\* Incrementing goes around at IdModulus.
LEMMA Increment ==
  ASSUME NEW a \in 0..(IdModulus - 1)
  PROVE  (a + 1) % IdModulus = IF a + 1 = IdModulus THEN 0 ELSE a + 1
<1>1. IdModulus \in Nat /\ IdModulus > 0
  BY MulticastAssumption
<1> QED
  BY <1>1

LEMMA AfterNext ==
  ASSUME NEW a \in 0..(IdModulus - 1), NEW b \in 0..(IdModulus - 1),
         NEW d \in 1..(IdModulus - 1), After(a, d, b)
  PROVE  After(a, d + 1, (b + 1) % IdModulus)
<1>1. IdModulus \in Nat
  BY MulticastAssumption
<1>2. (b + 1) % IdModulus = IF b + 1 = IdModulus THEN 0 ELSE b + 1
  BY Increment
<1> QED
  BY <1>1, <1>2 DEF After

LEMMA SentFacts ==
  ASSUME NEW s \in Sent
  PROVE  /\ Len(s) \in Nat /\ DOMAIN s = 1..Len(s)
         /\ \A k \in 1..Len(s) : s[k].id \in 0..(IdModulus - 1) /\ s[k].call \in Calls
<1> DEFINE S == [call : Calls, id : 0..(IdModulus - 1)]
<1>1. s \in Seq(S) /\ \A x \in S : x.id \in 0..(IdModulus - 1) /\ x.call \in Calls
  BY DEF Sent
<1> HIDE DEF S
<1>2. \A k \in 1..Len(s) : s[k] \in S
  BY <1>1
<1> QED
  BY <1>1, <1>2

LEMMA IdsDiffer ==
  ASSUME Distinct, TypeParts, IdInv, NEW k \in DOMAIN sent, NEW l \in DOMAIN sent,
         sent[k].id = sent[l].id
  PROVE  k = l
<1>1. /\ IdModulus \in Nat /\ MaxCalls \in Nat /\ MaxAnnounces \in Nat
      /\ MaxCalls + MaxAnnounces <= IdModulus
  BY MulticastAssumption DEF Distinct
<1>2. /\ sent[k].id \in 0..(IdModulus - 1) /\ sent[l].id \in 0..(IdModulus - 1)
      /\ k \in Nat /\ l \in Nat
  BY SentFacts DEF TypeParts
<1>3. \A a \in DOMAIN sent, b \in DOMAIN sent :
        a < b => \E d \in 1..(MaxCalls + MaxAnnounces - 1) : After(sent[a].id, d, sent[b].id)
  BY DEF IdInv
<1>4. \A d \in 1..(MaxCalls + MaxAnnounces - 1) :
        ~After(sent[k].id, d, sent[l].id) /\ ~After(sent[l].id, d, sent[k].id)
  BY <1>1, <1>2 DEF After
<1> QED
  BY <1>2, <1>3, <1>4

\* A call takes the next identifier.
LEMMA IdDeliver ==
  ASSUME Distinct, TypeParts, IdInv, NEW call \in Calls,
         suscli_multicast_manager_deliver_call(call)
  PROVE  IdInv'
<1>1. /\ IdModulus \in Nat /\ MaxCalls \in Nat /\ MaxAnnounces \in Nat
      /\ MaxCalls + MaxAnnounces <= IdModulus
  BY MulticastAssumption DEF Distinct
<1> DEFINE n == Len(sent)
<1>2. /\ n \in Nat /\ n < MaxCalls /\ sent \in Sent /\ DOMAIN sent = 1..n
      /\ id \in 0..(IdModulus - 1) /\ announces \in Nat /\ announces <= MaxAnnounces
  BY DEF TypeParts, suscli_multicast_manager_deliver_call, Sent
<1>3. /\ Len(sent') = n + 1 /\ Grows(sent, sent') /\ sent'[n + 1] = [call |-> call, id |-> id]
      /\ sent' \in Sent
  BY DeliverFacts
<1>4. DOMAIN sent' = 1..(n + 1)
  BY <1>3 DEF Sent
<1>5. id' = (id + 1) % IdModulus /\ announces' = announces
  BY DEF suscli_multicast_manager_deliver_call
<1>6. \A k \in 1..n : sent'[k] = sent[k] /\ sent[k].id \in 0..(IdModulus - 1)
  BY <1>2, <1>3, SentFacts DEF Grows
<1>7. \A k \in 1..n : \E d \in 1..(n + announces) : After(sent[k].id, d, id) /\ d > n - k
  BY <1>2 DEF IdInv
<1>8. sent'[n + 1].id = id
  BY <1>3
<1>9. \A k \in 1..(n + 1) : k \in 1..n \/ k = n + 1
  BY <1>2
<1> HIDE DEF n
<1>10. ASSUME NEW k \in 1..(n + 1)
       PROVE  \E d \in 1..(n + 1 + announces) : After(sent'[k].id, d, id') /\ d > n + 1 - k
  <2>1. CASE k \in 1..n
    <3>1. PICK d \in 1..(n + announces) : After(sent[k].id, d, id) /\ d > n - k
      BY <1>7, <2>1
    <3>2. d \in 1..(IdModulus - 1)
      BY <1>1, <1>2
    <3>3. After(sent[k].id, d + 1, id')
      BY <1>2, <1>5, <1>6, <2>1, <3>1, <3>2, AfterNext
    <3>4. d + 1 \in 1..(n + 1 + announces) /\ d + 1 > n + 1 - k
      BY <1>2, <3>1
    <3> QED
      BY <1>6, <2>1, <3>3, <3>4
  <2>2. CASE k = n + 1
    <3>1. After(id, 1, id')
      BY <1>1, <1>2, <1>5, Increment DEF After
    <3>2. 1 \in 1..(n + 1 + announces) /\ 1 > n + 1 - k
      BY <1>2, <2>2
    <3> QED
      BY <1>8, <2>2, <3>1, <3>2
  <2> QED
    BY <1>9, <2>1, <2>2
<1>11. ASSUME NEW k \in 1..(n + 1), NEW l \in 1..(n + 1), k < l
       PROVE  \E d \in 1..(MaxCalls + MaxAnnounces - 1) :
                After(sent'[k].id, d, sent'[l].id) /\ d >= l - k
  <2>1. k \in 1..n
    BY <1>2, <1>11
  <2>2. CASE l \in 1..n
    BY <1>2, <1>6, <1>11, <2>1, <2>2 DEF IdInv
  <2>3. CASE l = n + 1
    <3>1. PICK d \in 1..(n + announces) : After(sent[k].id, d, id) /\ d > n - k
      BY <1>7, <2>1
    <3>2. d \in 1..(MaxCalls + MaxAnnounces - 1) /\ d >= l - k
      BY <1>1, <1>2, <2>3, <3>1
    <3> QED
      BY <1>6, <1>8, <2>1, <2>3, <3>1, <3>2
  <2> QED
    BY <1>9, <2>2, <2>3
<1>12. DOMAIN sent' = 1..(n + 1) /\ Len(sent') + announces' = n + 1 + announces
       /\ Len(sent') = n + 1
  BY <1>2, <1>3, <1>4, <1>5
<1>15. n + 1 \in Int /\ n + 1 + announces \in Int
  BY <1>2
<1>13. \A k \in DOMAIN sent' :
         \E d \in 1..(Len(sent') + announces') :
           After(sent'[k].id, d, id') /\ d > Len(sent') - k
  <2> TAKE k \in DOMAIN sent'
  <2>1. k \in 1..(n + 1)
    BY <1>12
  <2>2. PICK d \in 1..(n + 1 + announces) : After(sent'[k].id, d, id') /\ d > n + 1 - k
    BY <1>10, <2>1
  <2>3. d \in 1..(Len(sent') + announces') /\ d > Len(sent') - k
    <3>1. k \in Int
      BY <1>2, <2>1
    <3> QED
      BY <1>2, <1>12, <1>15, <2>2, <3>1
  <2> QED
    BY <2>2, <2>3
<1>14. \A k, l \in DOMAIN sent' :
         k < l => \E d \in 1..(MaxCalls + MaxAnnounces - 1) :
                    After(sent'[k].id, d, sent'[l].id) /\ d >= l - k
  BY <1>11, <1>12
<1> QED
  BY <1>13, <1>14 DEF IdInv

\* So does an announce.
LEMMA IdAnnounce ==
  ASSUME Distinct, TypeParts, IdInv, AnnounceWrite
  PROVE  IdInv'
<1>1. /\ IdModulus \in Nat /\ MaxCalls \in Nat /\ MaxAnnounces \in Nat
      /\ MaxCalls + MaxAnnounces <= IdModulus
  BY MulticastAssumption DEF Distinct
<1> DEFINE n == Len(sent)
<1>2. /\ n \in Nat /\ n <= MaxCalls /\ DOMAIN sent = 1..n
      /\ id \in 0..(IdModulus - 1) /\ announces \in Nat /\ announces < MaxAnnounces
      /\ \A k \in 1..n : sent[k].id \in 0..(IdModulus - 1)
  BY SentFacts DEF TypeParts, AnnounceWrite
<1>3. id' = (id + 1) % IdModulus /\ announces' = announces + 1 /\ sent' = sent
  BY DEF AnnounceWrite, Distinct
<1>4. \A k \in 1..n : \E d \in 1..(n + announces) : After(sent[k].id, d, id) /\ d > n - k
  BY <1>2 DEF IdInv
<1> HIDE DEF n
<1>5. ASSUME NEW k \in 1..n
      PROVE  \E d \in 1..(n + announces') : After(sent[k].id, d, id') /\ d > n - k
  <2>1. PICK d \in 1..(n + announces) : After(sent[k].id, d, id) /\ d > n - k
    BY <1>4
  <2>2. d \in 1..(IdModulus - 1)
    BY <1>1, <1>2
  <2>3. After(sent[k].id, d + 1, id')
    BY <1>2, <1>3, <2>1, <2>2, AfterNext
  <2>4. d + 1 \in 1..(n + announces') /\ d + 1 > n - k
    BY <1>2, <1>3, <2>1
  <2> QED
    BY <2>3, <2>4
<1> QED
  BY <1>2, <1>3, <1>5 DEF IdInv, n

----------------------------------------------------------------------------
(***************************************************************************)
(* Encapsulated calls.                                                     *)
(***************************************************************************)

LEMMA PlacesCount ==
  ASSUME NEW n \in Nat
  PROVE  IsFiniteSet(0..(n - 1)) /\ Cardinality(0..(n - 1)) = n
<1>1. 0 \in Int /\ n - 1 \in Int
  OBVIOUS
<1>2. /\ IsFiniteSet(0..(n - 1))
      /\ Cardinality(0..(n - 1)) = IF 0 > n - 1 THEN 0 ELSE n - 1 - 0 + 1
  BY <1>1, FS_Interval
<1> QED
  BY <1>2

\* A PDU without bytes left to come has them all.
LEMMA CompleteIntact ==
  ASSUME NEW e \in EncapType, NEW k, NEW s, NEW fl, EncapOf(e, k, s, fl), e.remaining = 0
  PROVE  \A p \in DOMAIN e.data : e.data[p] = <<k, p - 1>>
<1> DEFINE n == Len(e.data)
           all == 0..(n - 1)
<1>1. n \in Nat /\ DOMAIN e.data = 1..n
  BY DEF EncapType
<1>2. IsFiniteSet(all) /\ Cardinality(all) = n
  BY <1>1, PlacesCount
<1>3. Got(e) \subseteq all
  BY DEF Got
<1>4. IsFiniteSet(Got(e)) /\ Cardinality(Got(e)) \in Nat
  BY <1>2, <1>3, FS_Subset, FS_CardinalityType
<1>5. 0 = n - Cardinality(Got(e))
  BY DEF EncapOf
<1>6. Cardinality(all) = Cardinality(Got(e))
  BY <1>1, <1>2, <1>4, <1>5
<1>7. Got(e) = all
  BY <1>2, <1>3, <1>6, FS_Subset
<1>8. \A p \in 1..n : p - 1 \in all /\ (p - 1) + 1 = p
  BY <1>1
<1>9. \A p \in 1..n : e.data[p] # Empty
  BY <1>7, <1>8 DEF Got
<1> QED
  BY <1>1, <1>9 DEF EncapOf

\* A PDU that starts has no bytes yet.
LEMMA ClearOf ==
  ASSUME NEW f \in Fragment, NEW s, NEW fl, OfCall(f, s), f.type = "ENCAP", NEW e0
  PROVE  EncapOf(encap_clear(e0, f.sf_id, f.sf_size), f.header, s, fl)
<1> DEFINE e == encap_clear(e0, f.sf_id, f.sf_size)
<1>1. /\ e \in EncapType /\ e.sf_id = f.sf_id /\ Len(e.data) = f.sf_size
      /\ e.remaining = f.sf_size /\ e.taken = {}
      /\ \A p \in 1..f.sf_size : e.data[p] = Empty
  BY ClearFacts, ZenonT(60)
<1>2. DOMAIN e.data = 1..f.sf_size /\ f.sf_size \in Nat
  BY <1>1 DEF EncapType, Fragment
<1> HIDE DEF e
<1>3. Got(e) = {}
  <2>1. \A p \in 0..(f.sf_size - 1) : p + 1 \in 1..f.sf_size
    BY <1>2
  <2> QED
    BY <1>1, <2>1 DEF Got
<1>4. e.remaining = Len(e.data) - Cardinality(Got(e))
  BY <1>1, <1>2, <1>3, FS_EmptySet
<1>5. EncapOf(e, f.header, s, fl)
  BY <1>1, <1>2, <1>3, <1>4 DEF EncapOf, OfCall
<1> QED
  BY <1>5 DEF e

\* A fragment that was not there yet fills its places.
LEMMA CopyOf ==
  ASSUME NEW e \in EncapType, NEW s, NEW fl, NEW f \in fl, fl \subseteq Fragment,
         OfCall(f, s), f.type = "ENCAP", f.header \in Nat \ {0}, Ends(f) <= Len(e.data),
         EncapOf(e, f.header, s, fl),
         \A g \in fl \ {f} : g.type # "ANNOUNCE" => Apart(f, g)
  PROVE  EncapOf(encap_copy(e, f), f.header, s, fl \ {f})
<1> DEFINE new == encap_copy(e, f)
           n == Len(e.data)
           h == f.header
<1>1. /\ f \in Fragment /\ f.sf_offset \in Nat /\ Len(f.data) \in Nat /\ n \in Nat
      /\ Ends(f) = f.sf_offset + Len(f.data) /\ DOMAIN f.data = 1..Len(f.data)
  BY DEF EncapType, Fragment, Ends
<1>2. Places(f) \cap Got(e) = {}
  <2>1. \A p \in Got(e) : ~(f.sf_offset <= p /\ p < Ends(f)) /\ p \in Int
    BY DEF EncapOf, Got
  <2> QED
    BY <1>1, <2>1 DEF Places
<1>3. Places(f) \ e.taken = Places(f)
  BY <1>2 DEF EncapOf
<1>4. /\ new \in EncapType /\ new.sf_id = e.sf_id /\ Len(new.data) = n
      /\ \A p \in 1..n :
           new.data[p] = IF p - 1 \in Places(f) THEN f.data[p - f.sf_offset] ELSE e.data[p]
      /\ new.taken \subseteq e.taken \cup Places(f)
      /\ IsFiniteSet(Places(f)) /\ new.remaining = e.remaining - Cardinality(Places(f))
  <2>1. LET free == Places(f) \ e.taken
        IN /\ new \in EncapType /\ new.sf_id = e.sf_id /\ Len(new.data) = Len(e.data)
           /\ \A p \in 1..Len(e.data) :
                new.data[p] = IF p - 1 \in free THEN f.data[p - f.sf_offset] ELSE e.data[p]
           /\ new.taken \subseteq e.taken \cup free
           /\ IsFiniteSet(free) /\ new.remaining = e.remaining - Cardinality(free)
    BY <1>1, CopyFacts
  <2> QED
    BY <1>3, <2>1
<1>5. DOMAIN new.data = 1..n /\ DOMAIN e.data = 1..n
  BY <1>4 DEF EncapType
<1> HIDE DEF new, n
<1>6. \A p \in 1..n : p - 1 \in Places(f) => f.data[p - f.sf_offset] = <<h, p - 1>>
  <2> SUFFICES ASSUME NEW p \in 1..n, p - 1 \in Places(f)
               PROVE  f.data[p - f.sf_offset] = <<h, p - 1>>
    OBVIOUS
  <2>1. p - f.sf_offset \in 1..Len(f.data) /\ f.sf_offset + (p - f.sf_offset) - 1 = p - 1
    BY <1>1, SMTT(30) DEF Places
  <2> QED
    BY <1>1, <2>1 DEF OfCall
<1>7. \A p \in 1..n : new.data[p] \in {Empty, <<h, p - 1>>}
  BY <1>4, <1>5, <1>6 DEF EncapOf
<1>8. Got(new) = Got(e) \cup Places(f)
  <2>1. \A p \in 0..(n - 1) : p + 1 \in 1..n /\ (p + 1) - 1 = p
    BY <1>1
  <2>2. Places(f) \subseteq 0..(n - 1)
    BY <1>1 DEF Places, n
  <2>3. \A p : <<h, p>> # Empty
    BY DEF Empty
  <2>4. \A p \in 0..(n - 1) :
          new.data[p + 1] # Empty <=> (p \in Places(f) \/ e.data[p + 1] # Empty)
    <3> TAKE p \in 0..(n - 1)
    <3>1. p + 1 \in 1..n /\ (p + 1) - 1 = p
      BY <2>1
    <3>2. CASE p \in Places(f)
      BY <1>4, <1>6, <2>3, <3>1, <3>2
    <3>3. CASE p \notin Places(f)
      BY <1>4, <3>1, <3>3
    <3> QED
      BY <3>2, <3>3
  <2> QED
    BY <1>4, <2>2, <2>4 DEF Got, n
<1>9. new.remaining = n - Cardinality(Got(new))
  <2>1. IsFiniteSet(Got(e)) /\ Cardinality(Got(e)) \in Nat /\ Cardinality(Places(f)) \in Nat
    <3>1. IsFiniteSet(0..(n - 1)) /\ Got(e) \subseteq 0..(n - 1)
      BY <1>1, PlacesCount DEF Got, n
    <3> QED
      BY <1>4, <3>1, FS_Subset, FS_CardinalityType
  <2>2. Cardinality(Got(new)) = Cardinality(Got(e)) + Cardinality(Places(f))
    <3>1. Got(e) \cap Places(f) = {}
      BY <1>2
    <3>2. Cardinality({}) = 0
      BY FS_EmptySet
    <3> QED
      <4>1. Cardinality(Got(e) \cup Places(f))
              = Cardinality(Got(e)) + Cardinality(Places(f)) - Cardinality(Got(e) \cap Places(f))
        BY <1>4, <2>1, FS_Union
      <4>2. Cardinality(Got(e) \cap Places(f)) = 0
        BY <3>1, <3>2
      <4>3. Cardinality(Got(new)) = Cardinality(Got(e) \cup Places(f))
        BY <1>8
      <4> QED
        BY <2>1, <4>1, <4>2, <4>3
  <2>3. e.remaining = n - Cardinality(Got(e))
    BY DEF EncapOf, n
  <2> QED
    BY <1>1, <1>4, <2>1, <2>2, <2>3
<1>10. new.taken \subseteq Got(new)
  BY <1>4, <1>8 DEF EncapOf
<1>11. ASSUME NEW g \in fl \ {f}, g.type # "ANNOUNCE", g.header = h, NEW p \in Got(new)
       PROVE  ~(g.sf_offset <= p /\ p < Ends(g))
  <2>1. CASE p \in Got(e)
    BY <1>11, <2>1 DEF EncapOf
  <2>2. CASE p \in Places(f)
    <3>1. Before(f, g) \/ Before(g, f)
      BY <1>11 DEF Apart
    <3>2. g.sf_offset \in Nat /\ Ends(g) \in Nat
      BY SMTT(30) DEF Fragment, Ends
    <3>3. p \in Int /\ f.sf_offset <= p /\ p < Ends(f)
      BY <1>1, <2>2 DEF Places
    <3> QED
      BY <1>1, <3>1, <3>2, <3>3 DEF Before
  <2> QED
    BY <1>8, <2>1, <2>2
<1>12. s[h].id = new.sf_id /\ s[h].call.type = "ENCAP" /\ s[h].call.size = Len(new.data)
  BY <1>4 DEF EncapOf, n
<1>13. EncapOf(new, h, s, fl \ {f})
  BY <1>4, <1>5, <1>7, <1>9, <1>10, <1>11, <1>12 DEF EncapOf
<1> QED
  BY <1>13 DEF new

\* A PDU that is delivered has no bytes missing.
LEMMA DeliveredIntact ==
  ASSUME NEW c \in ClientType, NEW s, NEW fl, EncapOK(c, s, fl), Complete(c.encap)
  PROVE  Intact(c.encap.data, s)
<1>1. c.encap \in EncapType
  BY DEF ClientType, EncapType
<1>2. PICK k \in DOMAIN s : EncapOf(c.encap, k, s, fl)
  BY DEF EncapOK, Complete
<1>3. \A p \in DOMAIN c.encap.data : c.encap.data[p] = <<k, p - 1>>
  BY <1>1, <1>2, CompleteIntact DEF Complete
<1> QED
  BY <1>2, <1>3 DEF Intact, EncapOf

\* A delivered call is that of the PDU, or a spectrum.
LEMMA EncapAppend ==
  ASSUME NEW c \in ClientType, NEW s, NEW fl, EncapOK(c, s, fl), NEW x \in Delivered,
         x.type = "ENCAP" => Intact(x.data, s) /\ x.data # <<>>
  PROVE  \A i \in DOMAIN Append(c.calls, x) :
           LET y == Append(c.calls, x)[i]
           IN y.type = "ENCAP" => Intact(y.data, s) /\ y.data # <<>>
<1>1. c.calls \in Seq(Delivered)
  BY DEF ClientType
<1> DEFINE cs == Append(c.calls, x)
<1>2. \A i \in DOMAIN cs : (i \in DOMAIN c.calls /\ cs[i] = c.calls[i]) \/ cs[i] = x
  BY <1>1
<1> HIDE DEF cs
<1>3. \A i \in DOMAIN cs : cs[i].type = "ENCAP" => Intact(cs[i].data, s) /\ cs[i].data # <<>>
  BY <1>2 DEF EncapOK
<1> QED
  BY <1>3 DEF cs

\* What trigger_on_call leaves.
LEMMA EncapTrigger ==
  ASSUME NEW c \in ClientType, NEW s, NEW fl, EncapOK(c, s, fl), NEW d \in ClientType,
         d.calls = trigger_on_call(c).calls, d.encap = c.encap
  PROVE  EncapOK(d, s, fl)
<1>1. Flushed(c, trigger_on_call(c))
  BY FlushFacts
<1>2. CASE d.calls = c.calls
  BY <1>2 DEF EncapOK
<1>3. CASE Complete(c.encap) /\ d.calls = Append(c.calls, EncapCall(c))
  <2>1. EncapCall(c) \in Delivered /\ EncapCall(c).data = c.encap.data
    BY DEF EncapCall, Delivered, ClientType
  <2>2. Intact(EncapCall(c).data, s) /\ EncapCall(c).data # <<>>
    BY <1>3, <2>1, DeliveredIntact DEF Complete
  <2> QED
    BY <1>3, <2>1, <2>2, EncapAppend DEF EncapOK
<1>4. CASE d.calls = Append(c.calls, PsdCall(c))
  <2>1. PsdCall(c) \in Delivered /\ PsdCall(c).type # "ENCAP"
    BY DEF PsdCall, Delivered, ClientType
  <2> QED
    BY <1>4, <2>1, EncapAppend DEF EncapOK
<1> QED
  BY <1>1, <1>2, <1>3, <1>4 DEF Flushed

\* Fragments that leave the network do not harm.
LEMMA EncapFewer ==
  ASSUME NEW c, NEW s, NEW t, Grows(s, t), NEW fl, NEW gl, EncapOK(c, s, fl),
         \A g \in gl : g \in fl \/ g.type = "ANNOUNCE" \/ g.header \notin DOMAIN s
  PROVE  EncapOK(c, t, gl)
<1>1. \A k \in DOMAIN s :
        EncapOf(c.encap, k, s, fl) => k \in DOMAIN t /\ EncapOf(c.encap, k, t, gl)
  BY DEF EncapOf, Grows
<1>2. \A data : Intact(data, s) => Intact(data, t)
  BY DEF Intact, Grows
<1> QED
  BY <1>1, <1>2 DEF EncapOK

LEMMA NoBytes ==
  ASSUME NEW e \in EncapType
  PROVE  e.data = <<>> <=> Len(e.data) = 0
<1>1. e.data \in Seq(Bin)
  BY DEF EncapType
<1> QED
  BY <1>1, EmptySeq

\* A fragment of an encapsulated call arrives, and is on its way no more.
LEMMA EncapFragment ==
  ASSUME NEW c \in ClientType, NEW s, NEW fl, NEW f \in fl, fl \subseteq Fragment,
         EncapOK(c, s, fl), OfCall(f, s), f.type = "ENCAP", c.proc.impl = "ENCAP",
         DOMAIN s \subseteq Nat \ {0},
         \A k, l \in DOMAIN s : s[k].id = s[l].id => k = l,
         \A g \in fl \ {f} : g.type # "ANNOUNCE" => Apart(f, g)
  PROVE  EncapOK(encap_on_fragment(c, f), s, fl \ {f})
<1> DEFINE d == encap_on_fragment(c, f)
           h == f.header
<1>1. f \in Fragment /\ h \in DOMAIN s /\ h \in Nat \ {0}
  BY DEF OfCall
<1>2. /\ d \in ClientType
      /\ \/ d.calls = c.calls /\ d.encap = encap_clear(c.encap, f.sf_id, 0)
         \/ \E e \in EncapType :
              /\ Opened(c, f, e)
              /\ \/ d.calls = c.calls /\ d.encap = e
                 \/ Copied(c, f, e, d)
  BY <1>1, EncapFragmentFacts
<1> HIDE DEF d
<1>3. EncapOK(c, s, fl \ {f})
  BY EncapFewer DEF Grows
<1>4. CASE d.calls = c.calls /\ d.encap = encap_clear(c.encap, f.sf_id, 0)
  <2> DEFINE none == encap_clear(c.encap, f.sf_id, 0)
  <2>1. Len(none.data) = 0 /\ none \in EncapType
    BY <1>1, ClearFacts
  <2> HIDE DEF none
  <2>2. d.encap.data = <<>>
    BY <1>4, <2>1, NoBytes DEF none
  <2> QED
    BY <1>3, <1>4, <2>2 DEF EncapOK, d
<1>5. ASSUME NEW e \in EncapType, Opened(c, f, e)
      PROVE  e.data # <<>> => EncapOf(e, h, s, fl)
  <2>1. CASE e = encap_clear(c.encap, f.sf_id, f.sf_size)
    BY <1>1, <2>1, ClearOf
  <2>2. CASE e = c.encap /\ f.sf_id = e.sf_id /\ e.data # <<>>
    <3>1. PICK k \in DOMAIN s : EncapOf(e, k, s, fl)
      BY <2>2 DEF EncapOK
    <3>2. s[k].id = s[h].id
      BY <2>2, <3>1 DEF EncapOf, OfCall
    <3> QED
      BY <1>1, <3>1, <3>2
  <2> QED
    BY <1>5, <2>1, <2>2 DEF Opened
<1>6. ASSUME NEW e \in EncapType, Opened(c, f, e), d.calls = c.calls, d.encap = e
      PROVE  EncapOK(d, s, fl \ {f})
  <2>1. e.data # <<>> => EncapOf(e, h, s, fl \ {f})
    BY <1>5, <1>6 DEF EncapOf
  <2> QED
    BY <1>1, <1>3, <1>6, <2>1 DEF EncapOK
<1>7. ASSUME NEW e \in EncapType, Opened(c, f, e), Copied(c, f, e, d)
      PROVE  EncapOK(d, s, fl \ {f})
  <2>1. /\ Ends(f) <= Len(e.data) /\ d.encap = encap_copy(e, f)
        /\ d.encap \in EncapType /\ Len(d.encap.data) = Len(e.data)
    <3> DEFINE new == encap_copy(e, f)
    <3>1. Ends(f) <= Len(e.data) /\ d.encap = new
      BY <1>7 DEF Copied
    <3>2. new \in EncapType /\ Len(new.data) = Len(e.data)
      BY <1>1, <3>1, CopyFacts
    <3> HIDE DEF new
    <3> QED
      BY <3>1, <3>2 DEF new
  <2>2. d.encap.data # <<>> => EncapOf(d.encap, h, s, fl \ {f})
    <3>1. d.encap.data # <<>> => e.data # <<>>
      BY <2>1, NoBytes
    <3>2. ASSUME EncapOf(e, f.header, s, fl)
          PROVE  EncapOf(encap_copy(e, f), f.header, s, fl \ {f})
      BY <1>1, <2>1, <3>2, CopyOf
    <3> QED
      BY <1>5, <1>7, <2>1, <3>1, <3>2
  <2>3. CASE ~Complete(d.encap)
    BY <1>1, <1>3, <1>7, <2>2, <2>3 DEF Copied, EncapOK
  <2>4. CASE Complete(d.encap)
    <3>1. EncapCall(d) \in Delivered /\ EncapCall(d).data = d.encap.data
      BY <1>2 DEF EncapCall, Delivered, ClientType
    <3>2. \A p \in DOMAIN d.encap.data : d.encap.data[p] = <<h, p - 1>>
      BY <2>1, <2>2, <2>4, CompleteIntact DEF Complete
    <3>3. Intact(d.encap.data, s) /\ d.encap.data # <<>>
      BY <1>1, <2>2, <2>4, <3>2 DEF Intact, EncapOf, Complete
    <3>4. \A i \in DOMAIN d.calls :
            d.calls[i].type = "ENCAP" => Intact(d.calls[i].data, s) /\ d.calls[i].data # <<>>
      BY <1>3, <1>7, <2>4, <3>1, <3>3, EncapAppend DEF Copied
    <3> QED
      BY <1>1, <2>2, <3>4 DEF EncapOK
  <2> QED
    BY <2>3, <2>4
<1> QED
  BY <1>2, <1>4, <1>6, <1>7 DEF d

\* Whatever arrives, the PDU has bytes of one superframe.
LEMMA EncapProcess ==
  ASSUME NEW c \in ClientType, NEW s, NEW fl, NEW f \in fl, fl \subseteq Fragment,
         ProcOK(c), EncapOK(c, s, fl), f.type = "ANNOUNCE" \/ OfCall(f, s),
         DOMAIN s \subseteq Nat \ {0},
         \A k, l \in DOMAIN s : s[k].id = s[l].id => k = l,
         f.type # "ANNOUNCE" => \A g \in fl \ {f} : g.type # "ANNOUNCE" => Apart(f, g)
  PROVE  EncapOK(suscli_multicast_processor_process(c, f), s, fl \ {f})
<1> DEFINE r == suscli_multicast_processor_process(c, f)
<1>1. f \in Fragment
  OBVIOUS
<1>2. CASE r = c
  BY <1>2, EncapFewer DEF Grows
<1>3. ASSUME NEW b \in ClientType, f.type \in FragmentKinds, ProcOK(b), Current(c, f, b),
             r = IF f.type = "ENCAP" THEN encap_on_fragment(b, f) ELSE psd_on_fragment(b, f)
      PROVE  EncapOK(r, s, fl \ {f})
  <2> HIDE DEF r
  <2>1. OfCall(f, s) /\ f.type # "ANNOUNCE" /\ b.proc.impl = f.type
    BY <1>3 DEF FragmentKinds, Current
  <2>2. EncapOK(b, s, fl)
    BY <1>3, EncapTrigger DEF Current
  <2>3. CASE f.type = "ENCAP"
    BY <1>3, <2>1, <2>2, <2>3, EncapFragment
  <2>4. CASE f.type = "PSD"
    <3>1. r = psd_on_fragment(b, f) /\ b.proc.impl = "PSD"
      BY <1>3, <2>1, <2>4
    <3>2. r \in ClientType
      BY <1>1, <3>1, PsdFragmentFacts
    <3>3. PICK a \in ClientType : Retuned(b, f, a) /\ (r = a \/ Written(a, f, r))
      BY <1>1, <3>1, PsdFragmentFacts
    <3>4. EncapOK(a, s, fl)
      BY <2>2, <3>3, EncapTrigger DEF Retuned
    <3>5. EncapOK(r, s, fl)
      BY <3>3, <3>4 DEF Written, EncapOK
    <3> QED
      BY <3>5, EncapFewer DEF Grows
  <2> QED
    BY <1>3, <2>3, <2>4 DEF FragmentKinds
<1> QED
  BY <1>1, <1>2, <1>3, ProcessFacts

\* A fragment is not before itself.
LEMMA ApartNotSame ==
  ASSUME NEW f \in Fragment, NEW g \in Fragment, Apart(f, g)
  PROVE  f # g
BY DEF Apart, Before, Fragment

LEMMA ApartCommutes ==
  ASSUME NEW f, NEW g, Apart(f, g)
  PROVE  Apart(g, f)
BY DEF Apart

\* A call is sent.
LEMMA EncapDeliver ==
  ASSUME Distinct, Inv, EncapInv, NEW call \in Calls,
         suscli_multicast_manager_deliver_call(call)
  PROVE  EncapInv'
<1> DEFINE k == Len(sent) + 1
           frags == Fragments(k, call, id)
           m == Len(queue)
<1>1. Grows(sent, sent')
  BY DeliverFacts DEF Inv
<1>2. PICK n : Queued(call, frags, n)
  BY DeliverFacts DEF Inv
<1>3. /\ sent \in Sent /\ Len(sent) \in Nat /\ id \in Nat
      /\ queue \in Seq(Fragment) /\ m \in Nat /\ k \notin DOMAIN sent
  BY MulticastAssumption DEF Inv, TypeParts, Sent
<1>4. /\ frags \in Seq(Fragment)
      /\ \A j \in 1..Len(frags) : frags[j].header = k
      /\ \A i, j \in 1..Len(frags) : i < j => Before(frags[i], frags[j])
  BY <1>3, FragmentsFacts
<1> HIDE DEF frags, k
<1>5. /\ Client' = Client /\ net' = net
  BY ClientStays DEF suscli_multicast_manager_deliver_call
<1>6. IdInv'
  BY IdDeliver DEF Inv, EncapInv
<1>7. /\ n \in 0..Len(frags) /\ Len(frags) \in Nat
      /\ queue' \in Seq(Fragment) /\ Len(queue') = m + n
      /\ \A i \in 1..m : queue'[i] = queue[i]
      /\ \A i \in 1..n : queue'[m + i] = frags[i]
  BY <1>2, <1>4 DEF Queued
<1>8. \A f \in ToSet(queue) : f.header \in DOMAIN sent
  BY DEF Inv, FlightInv, OfCall
<1>9. \A i \in 1..m : queue[i] \in ToSet(queue)
  BY <1>3, ToSetFacts
<1> HIDE DEF m
<1>10. \A i \in DOMAIN queue' : i \in 1..m \/ \E j \in 1..n : i = m + j
  <2> SUFFICES ASSUME NEW i \in DOMAIN queue', i \notin 1..m
               PROVE  \E j \in 1..n : i = m + j
    OBVIOUS
  <2>1. i \in 1..(m + n)
    BY <1>7
  <2>2. i - m \in 1..n /\ i = m + (i - m)
    BY <1>3, <1>7, <2>1
  <2> QED
    BY <2>2
<1>11. \A i \in 1..m, j \in 1..n : queue'[i].header # queue'[m + j].header
  <2> SUFFICES ASSUME NEW i \in 1..m, NEW j \in 1..n
               PROVE  queue'[i].header # queue'[m + j].header
    OBVIOUS
  <2>1. queue'[i].header \in DOMAIN sent
    BY <1>7, <1>8, <1>9
  <2>2. j \in 1..Len(frags)
    BY <1>7
  <2>3. queue'[m + j].header = k
    BY <1>4, <1>7, <2>2
  <2> QED
    BY <1>3, <2>1, <2>3
<1>12. \A i, j \in 1..n : i # j => Apart(queue'[m + i], queue'[m + j])
  <2> SUFFICES ASSUME NEW i \in 1..n, NEW j \in 1..n, i # j
               PROVE  Apart(frags[i], frags[j])
    BY <1>7
  <2>1. i \in 1..Len(frags) /\ j \in 1..Len(frags) /\ (i < j \/ j < i)
    BY <1>7
  <2> QED
    BY <1>4, <2>1 DEF Apart
<1>13. \A i, j \in 1..m : i # j => Apart(queue'[i], queue'[j])
  <2>1. DOMAIN queue = 1..m
    BY <1>3 DEF m
  <2> QED
    BY <1>7, <2>1 DEF EncapInv, ApartInv
<1>14. \A i, j \in DOMAIN queue' : i # j => Apart(queue'[i], queue'[j])
  BY <1>10, <1>11, <1>12, <1>13 DEF Apart
<1>15. \A f \in net : f.type # "ANNOUNCE" => \A i \in DOMAIN queue' : Apart(f, queue'[i])
  <2> SUFFICES ASSUME NEW f \in net, f.type # "ANNOUNCE", NEW i \in DOMAIN queue'
               PROVE  Apart(f, queue'[i])
    OBVIOUS
  <2>1. f.header \in DOMAIN sent
    BY DEF Inv, FlightInv, OfCall
  <2>2. CASE i \in 1..m
    <3>1. i \in DOMAIN queue
      BY <1>3, <2>2 DEF m
    <3> QED
      BY <1>7, <2>2, <3>1 DEF EncapInv, ApartInv
  <2>3. CASE \E j \in 1..n : i = m + j
    <3>1. PICK j \in 1..n : i = m + j
      BY <2>3
    <3>2. queue'[i].header = k
      BY <1>4, <1>7, <3>1
    <3> QED
      BY <1>3, <2>1, <3>2 DEF Apart
  <2> QED
    BY <1>10, <2>2, <2>3
<1>16. ApartInv'
  BY <1>5, <1>14, <1>15 DEF EncapInv, ApartInv
<1>17. EncapOK(Client', sent', Flight')
  <2>1. \A g \in ToSet(queue') : g \in ToSet(queue) \/ g.header \notin DOMAIN sent
    <3>1. ASSUME NEW i \in DOMAIN queue'
          PROVE  queue'[i] \in ToSet(queue) \/ queue'[i].header \notin DOMAIN sent
      <4>1. CASE i \in 1..m
        BY <1>7, <1>9, <4>1
      <4>2. CASE \E j \in 1..n : i = m + j
        <5>1. PICK j \in 1..n : i = m + j
          BY <4>2
        <5>2. queue'[i].header = k
          BY <1>4, <1>7, <5>1
        <5> QED
          BY <1>3, <5>2
      <4> QED
        BY <1>10, <4>1, <4>2
    <3> QED
      BY <1>7, <3>1, ToSetFacts
  <2>2. \A g \in Flight' : g \in Flight \/ g.header \notin DOMAIN sent
    BY <1>5, <2>1 DEF Flight
  <2> QED
    BY <1>1, <1>5, <2>2, EncapFewer DEF EncapInv
<1> QED
  BY <1>6, <1>16, <1>17 DEF EncapInv

\* A fragment moves to the network, or is lost.
LEMMA EncapTx ==
  ASSUME Inv, EncapInv, suscli_multicast_manager_tx_cb
  PROVE  EncapInv'
<1>1. queue \in Seq(Fragment) /\ net \subseteq Fragment
  BY DEF Inv, TypeParts
<1>2. /\ Client' = Client /\ sent' = sent /\ id' = id /\ announces' = announces
  BY ClientStays DEF suscli_multicast_manager_tx_cb
<1>3. IdInv'
  BY <1>2 DEF EncapInv, IdInv
<1>4. CASE queue' = queue /\ net' = net
  <2>1. Flight' = Flight
    BY <1>4 DEF Flight
  <2>2. ApartInv'
    BY <1>4 DEF EncapInv, ApartInv
  <2> QED
    BY <1>2, <1>3, <2>1, <2>2 DEF EncapInv
<1>5. CASE queue # <<>> /\ queue' = Tail(queue) /\ (net' = net \/ net' = net \cup {Head(queue)})
  <2>1. /\ Head(queue) = queue[1] /\ Head(queue) \in ToSet(queue)
        /\ Tail(queue) \in Seq(Fragment) /\ ToSet(Tail(queue)) \subseteq ToSet(queue)
    BY <1>1, <1>5, HeadFacts
  <2>2. /\ Len(Tail(queue)) = Len(queue) - 1 /\ Len(queue) \in Nat /\ Len(queue) > 0
        /\ \A j \in 1..(Len(queue) - 1) : Tail(queue)[j] = queue[j + 1]
    BY <1>1, <1>5, TailFacts
  <2>3. DOMAIN queue = 1..Len(queue) /\ DOMAIN queue' = 1..(Len(queue) - 1)
    BY <1>1, <1>5, <2>1, <2>2
  <2>4. \A j \in DOMAIN queue' : /\ queue'[j] = queue[j + 1] /\ j + 1 \in DOMAIN queue
                                 /\ j + 1 # 1 /\ j \in Nat
    BY <1>5, <2>2, <2>3
  <2>5. 1 \in DOMAIN queue
    BY <2>2, <2>3
  <2>6. \A i, j \in DOMAIN queue' : i # j => Apart(queue'[i], queue'[j])
    BY <2>4 DEF EncapInv, ApartInv
  <2>7. \A i \in DOMAIN queue' : Apart(Head(queue), queue'[i])
    BY <2>1, <2>4, <2>5 DEF EncapInv, ApartInv
  <2>8. \A f \in net : f.type # "ANNOUNCE" => \A i \in DOMAIN queue' : Apart(f, queue'[i])
    BY <2>4 DEF EncapInv, ApartInv
  <2>9. \A f \in net : f.type # "ANNOUNCE" => Apart(f, Head(queue)) /\ Apart(Head(queue), f)
    BY <2>1, <2>5, ApartCommutes DEF EncapInv, ApartInv
  <2>10. ApartInv'
    BY <1>5, <2>6, <2>7, <2>8, <2>9 DEF EncapInv, ApartInv
  <2>11. Flight' \subseteq Flight
    BY <1>5, <2>1 DEF Flight
  <2>12. EncapOK(Client', sent', Flight')
    BY <1>2, <2>11, EncapFewer DEF EncapInv, Grows
  <2> QED
    BY <1>3, <2>10, <2>12 DEF EncapInv
<1> QED
  BY <1>4, <1>5 DEF suscli_multicast_manager_tx_cb

\* An announce is not a fragment.
LEMMA EncapAnnounce ==
  ASSUME Distinct, Inv, EncapInv, AnnounceRead \/ AnnounceWrite
  PROVE  EncapInv'
<1>1. Client' = Client /\ sent' = sent /\ queue' = queue
  BY ClientStays DEF AnnounceRead, AnnounceWrite
<1>2. \A g \in net' : g \in net \/ g.type = "ANNOUNCE"
  BY DEF AnnounceRead, AnnounceWrite
<1>3. IdInv'
  <2>1. CASE AnnounceRead
    BY <2>1 DEF AnnounceRead, EncapInv, IdInv
  <2>2. CASE AnnounceWrite
    BY <2>2, IdAnnounce DEF Inv, EncapInv
  <2> QED
    BY <2>1, <2>2
<1>4. ApartInv'
  BY <1>1, <1>2 DEF EncapInv, ApartInv
<1>5. EncapOK(Client', sent', Flight')
  <2>1. \A g \in Flight' : g \in Flight \/ g.type = "ANNOUNCE"
    BY <1>1, <1>2 DEF Flight
  <2> QED
    BY <1>1, <2>1, EncapFewer DEF EncapInv, Grows
<1> QED
  BY <1>3, <1>4, <1>5 DEF EncapInv

LEMMA EncapDestroy ==
  ASSUME Inv, EncapInv, suscli_multicast_manager_destroy
  PROVE  EncapInv'
<1>1. /\ Client' = Client /\ sent' = sent /\ id' = id /\ announces' = announces
      /\ net' = net /\ queue' = <<>>
  BY ClientStays DEF suscli_multicast_manager_destroy
<1>2. DOMAIN queue' = {} /\ ToSet(queue') = {}
  BY <1>1 DEF ToSet
<1>3. ApartInv' /\ IdInv'
  BY <1>1, <1>2 DEF EncapInv, ApartInv, IdInv
<1>4. EncapOK(Client', sent', Flight')
  <2>1. Flight' \subseteq Flight
    BY <1>1, <1>2 DEF Flight
  <2> QED
    BY <1>1, <2>1, EncapFewer DEF EncapInv, Grows
<1> QED
  BY <1>3, <1>4 DEF EncapInv

\* A fragment of a call is on its way once, and apart from the others.
LEMMA FlightApart ==
  ASSUME Inv, EncapInv, NEW f \in net, f.type # "ANNOUNCE"
  PROVE  /\ f \notin ToSet(queue)
         /\ \A g \in Flight \ {f} : g.type # "ANNOUNCE" => Apart(f, g)
<1>1. f \in Fragment /\ queue \in Seq(Fragment)
  BY DEF Inv, TypeParts
<1>2. ToSet(queue) = {queue[i] : i \in DOMAIN queue}
  BY DEF ToSet
<1>3. \A g \in ToSet(queue) : Apart(f, g)
  BY <1>2 DEF EncapInv, ApartInv
<1>4. f \notin ToSet(queue)
  BY <1>1, <1>3, ApartNotSame
<1>5. \A g \in net \ {f} : g.type # "ANNOUNCE" => Apart(f, g)
  BY DEF EncapInv, ApartInv
<1> QED
  BY <1>3, <1>4, <1>5 DEF Flight

\* A datagram arrives.
LEMMA EncapDatagram ==
  ASSUME Distinct, Inv, EncapInv, suscli_multicast_processor_process_datagram
  PROVE  EncapInv'
<1>1. PICK f \in net :
        /\ proc' = suscli_multicast_processor_process(Client, f).proc
        /\ encap' = suscli_multicast_processor_process(Client, f).encap
        /\ psd' = suscli_multicast_processor_process(Client, f).psd
        /\ calls' = suscli_multicast_processor_process(Client, f).calls
        /\ net' = net \ {f}
        /\ UNCHANGED server
  BY DEF suscli_multicast_processor_process_datagram, Distinct
<1> DEFINE r == suscli_multicast_processor_process(Client, f)
<1>2. /\ f \in Fragment /\ Client \in ClientType /\ ProcOK(Client) /\ PsdOK(Client, sent)
      /\ f.type = "ANNOUNCE" \/ OfCall(f, sent)
      /\ net \subseteq Fragment /\ queue \in Seq(Fragment) /\ sent \in Sent
  BY <1>1 DEF Inv, TypeParts, FlightInv
<1>3. r \in ClientType
  BY <1>2, PsdProcess
<1> HIDE DEF r
<1>4. Client' = r
  BY <1>1, <1>3, ClientIs DEF r
<1>5. sent' = sent /\ id' = id /\ queue' = queue /\ announces' = announces
  BY <1>1 DEF server
<1>7. Flight \subseteq Fragment /\ f \in Flight
  <2>1. \A g \in ToSet(queue) : g \in Fragment
    BY <1>2, ToSetFacts
  <2> QED
    BY <1>1, <1>2, <2>1 DEF Flight
<1>8. f.type # "ANNOUNCE" =>
        f \notin ToSet(queue) /\ \A g \in Flight \ {f} : g.type # "ANNOUNCE" => Apart(f, g)
  BY <1>1, FlightApart
<1>9. f \notin ToSet(queue)
  <2>1. CASE f.type = "ANNOUNCE"
    <3>1. \A g \in ToSet(queue) : g.type # "ANNOUNCE"
      <4> SUFFICES ASSUME NEW g \in ToSet(queue) PROVE g.type # "ANNOUNCE"
        OBVIOUS
      <4>1. OfCall(g, sent)
        BY DEF Inv, FlightInv
      <4>2. sent[g.header].call \in Calls
        BY <1>2, <4>1, SentFacts DEF OfCall
      <4> QED
        BY <4>1, <4>2, MulticastAssumption DEF OfCall
    <3> QED
      BY <2>1, <3>1
  <2> QED
    BY <1>8, <2>1
<1>10. \A k, l \in DOMAIN sent : sent[k].id = sent[l].id => k = l
  BY IdsDiffer DEF Inv, EncapInv
<1>11. DOMAIN sent \subseteq Nat \ {0}
  BY <1>2, SentFacts
<1>12. EncapOK(r, sent, Flight \ {f})
  <2>1. EncapOK(Client, sent, Flight)
    BY DEF EncapInv
  <2> QED
    BY <1>2, <1>7, <1>8, <1>10, <1>11, <2>1, EncapProcess DEF r
<1>13. Flight' = Flight \ {f}
  BY <1>1, <1>5, <1>9 DEF Flight
<1>14. ApartInv' /\ IdInv'
  BY <1>1, <1>5 DEF EncapInv, ApartInv, IdInv
<1> QED
  BY <1>4, <1>5, <1>12, <1>13, <1>14 DEF EncapInv

LEMMA EncapInit == Init => EncapInv
<1> SUFFICES ASSUME Init PROVE EncapInv
  OBVIOUS
<1>1. sent = <<>> /\ queue = <<>> /\ net = {} /\ calls = <<>> /\ encap.data = <<>>
  BY DEF Init
<1>2. Client.calls = <<>> /\ Client.encap.data = <<>>
  BY <1>1 DEF Client
<1>3. ApartInv /\ IdInv
  BY <1>1 DEF ApartInv, IdInv
<1>4. EncapOK(Client, sent, Flight)
  BY <1>2 DEF EncapOK
<1> QED
  BY <1>3, <1>4 DEF EncapInv

LEMMA EncapStutter == EncapInv /\ UNCHANGED vars => EncapInv'
<1> SUFFICES ASSUME EncapInv, UNCHANGED vars PROVE EncapInv'
  OBVIOUS
<1>1. Client' = Client
  BY ClientStays DEF vars
<1>2. sent' = sent /\ id' = id /\ queue' = queue /\ announces' = announces /\ net' = net
  BY DEF vars, server
<1>3. Flight' = Flight
  BY <1>2 DEF Flight
<1> QED
  BY <1>1, <1>2, <1>3 DEF EncapInv, ApartInv, IdInv

LEMMA EncapStep == Distinct /\ Inv /\ EncapInv /\ [Next]_vars => EncapInv'
BY EncapDeliver, EncapTx, EncapAnnounce, EncapDestroy, EncapDatagram, EncapStutter
DEF Next, Deliver

LEMMA EncapHolds ==
  ASSUME Distinct
  PROVE  Spec => []EncapInv
<1>1. Inv /\ EncapInv /\ [Next]_vars => EncapInv'
  BY EncapStep
<1> QED
  BY <1>1, EncapInit, InvHolds, PTL DEF Spec

\* An encapsulated call is delivered only whole, and with the bytes of one
\* superframe, whatever is lost and in whichever order the rest arrives, as long
\* as identifiers do not come round again while fragments are on their way, and
\* announces do not give one away twice
\* (suscli_multicast_processor_encap_on_fragment).
THEOREM WholeCalls ==
  ASSUME Distinct
  PROVE  Spec => []EncapIntact
<1>1. EncapInv => EncapIntact
  <2> SUFFICES ASSUME EncapInv PROVE EncapIntact
    OBVIOUS
  <2>1. Client.calls = calls
    BY DEF Client
  <2> QED
    BY <2>1 DEF EncapInv, EncapOK, Intact, EncapIntact
<1> QED
  BY <1>1, EncapHolds, PTL

----------------------------------------------------------------------------
(***************************************************************************)
(* The order of calls.                                                     *)
(***************************************************************************)

\* Of two identifiers it can be told which one came first.
Short == Distinct /\ MaxCalls + MaxAnnounces <= IdModulus \div 2

\* The distance between two superframes, as the processor reckons it.
DeltaOK(s) ==
  \A k, l \in DOMAIN s :
    /\ k < l => Delta(s[l].id, s[k].id) >= l - k
    /\ l < k => Delta(s[l].id, s[k].id) < 0

LEMMA HalfModulus ==
  ASSUME NEW h \in Nat, h = IdModulus \div 2
  PROVE  IdModulus = 2 * h /\ IdModulus \in Nat /\ IdModulus > 0
<1>1. IdModulus \in Nat /\ IdModulus % 2 = 0 /\ IdModulus > 0
  BY MulticastAssumption
<1> QED
  BY <1>1

\* The distance is that of the identifiers, as long as it is below a half.
LEMMA DeltaAfter ==
  ASSUME NEW a \in 0..(IdModulus - 1), NEW b \in 0..(IdModulus - 1),
         NEW d \in 1..((IdModulus \div 2) - 1), After(a, d, b)
  PROVE  Delta(b, a) = d /\ Delta(a, b) = -d
<1> DEFINE h == IdModulus \div 2
<1>1. h \in Nat
  BY MulticastAssumption
<1>2. IdModulus = 2 * h /\ IdModulus \in Nat /\ IdModulus > 0
  BY <1>1, HalfModulus
<1>3. d \in 1..(h - 1)
  OBVIOUS
<1>4. /\ Delta(b, a) = (((b - a) + IdModulus + h) % IdModulus) - h
      /\ Delta(a, b) = (((a - b) + IdModulus + h) % IdModulus) - h
  BY DEF Delta
<1> HIDE DEF h
<1>5. ASSUME NEW r \in 0..(IdModulus - 1)
      PROVE  /\ r % IdModulus = r /\ (r + IdModulus) % IdModulus = r
             /\ (r + IdModulus + IdModulus) % IdModulus = r
  BY <1>2
<1>6. d + h \in 0..(IdModulus - 1) /\ h - d \in 0..(IdModulus - 1)
  BY <1>1, <1>2, <1>3
<1>7. CASE b = a + d
  <2>1. (b - a) + IdModulus + h = (d + h) + IdModulus
    BY <1>1, <1>2, <1>7
  <2>2. (a - b) + IdModulus + h = (h - d) + IdModulus
    BY <1>1, <1>2, <1>7
  <2> QED
    BY <1>1, <1>3, <1>4, <1>5, <1>6, <2>1, <2>2
<1>8. CASE b = a + d - IdModulus
  <2>1. (b - a) + IdModulus + h = d + h
    BY <1>1, <1>2, <1>8
  <2>2. (a - b) + IdModulus + h = (h - d) + IdModulus + IdModulus
    BY <1>1, <1>2, <1>8
  <2> QED
    BY <1>1, <1>3, <1>4, <1>5, <1>6, <2>1, <2>2
<1> QED
  BY <1>7, <1>8 DEF After

LEMMA DeltaHolds ==
  ASSUME Short, TypeParts, IdInv
  PROVE  DeltaOK(sent)
<1>1. /\ IdModulus \div 2 \in Nat /\ MaxCalls \in Nat /\ MaxAnnounces \in Nat
      /\ MaxCalls + MaxAnnounces <= IdModulus \div 2
  BY MulticastAssumption DEF Short
<1>2. \A k \in DOMAIN sent : k \in Nat /\ sent[k].id \in 0..(IdModulus - 1)
  BY SentFacts DEF TypeParts
<1>3. ASSUME NEW k \in DOMAIN sent, NEW l \in DOMAIN sent, k < l
      PROVE  /\ Delta(sent[l].id, sent[k].id) >= l - k
             /\ Delta(sent[k].id, sent[l].id) < 0
  <2>1. PICK d \in 1..(MaxCalls + MaxAnnounces - 1) :
               After(sent[k].id, d, sent[l].id) /\ d >= l - k
    BY <1>3 DEF IdInv
  <2>2. d \in 1..((IdModulus \div 2) - 1)
    BY <1>1
  <2>3. Delta(sent[l].id, sent[k].id) = d /\ Delta(sent[k].id, sent[l].id) = -d
    BY <1>2, <2>1, <2>2, DeltaAfter
  <2> QED
    BY <2>1, <2>2, <2>3
<1> QED
  BY <1>3 DEF DeltaOK

\* A call that is not old, or that repeats one, comes in order.
LEMMA InOrderAppend ==
  ASSUME NEW cs \in Seq(Delivered), InOrder(cs), NEW x \in Delivered,
         NEW p \in Nat, \A i \in DOMAIN cs : Origin(cs[i]) \in 0..(p + 1),
         \/ Origin(x) \in {p, p + 1}
         \/ \E i \in DOMAIN cs : Origin(cs[i]) = Origin(x)
  PROVE  /\ InOrder(Append(cs, x))
         /\ \A i \in DOMAIN Append(cs, x) : Origin(Append(cs, x)[i]) \in 0..(p + 1)
<1> DEFINE n == Len(cs)
           ds == Append(cs, x)
<1>1. /\ n \in Nat /\ DOMAIN cs = 1..n /\ DOMAIN ds = 1..(n + 1)
      /\ ds[n + 1] = x /\ \A i \in 1..n : ds[i] = cs[i]
  OBVIOUS
<1> HIDE DEF ds, n
<1>2. \A i \in DOMAIN ds : i \in 1..n \/ i = n + 1
  BY <1>1
<1>3. Origin(x) \in 0..(p + 1)
  BY <1>1
<1>4. \A i \in DOMAIN ds : Origin(ds[i]) \in 0..(p + 1)
  BY <1>1, <1>2, <1>3
<1>5. ASSUME NEW i \in DOMAIN ds, NEW j \in DOMAIN ds, i < j
      PROVE  \/ Origin(ds[j]) >= Origin(ds[i]) - 1
             \/ \E h \in 1..(i - 1) : Origin(ds[h]) = Origin(ds[j])
  <2>1. i \in 1..n /\ ds[i] = cs[i]
    BY <1>1, <1>2, <1>5
  <2>2. \A h \in 1..(i - 1) : h \in 1..n /\ ds[h] = cs[h]
    BY <1>1, <2>1
  <2>3. CASE j \in 1..n
    <3>1. \/ Origin(cs[j]) >= Origin(cs[i]) - 1
          \/ \E h \in 1..(i - 1) : Origin(cs[h]) = Origin(cs[j])
      BY <1>1, <1>5, <2>1, <2>3 DEF InOrder
    <3> QED
      BY <1>1, <2>1, <2>2, <2>3, <3>1
  <2>4. CASE j = n + 1 /\ Origin(x) \in {p, p + 1}
    <3>1. Origin(ds[i]) \in 0..(p + 1) /\ ds[j] = x
      BY <1>1, <1>4, <2>4
    <3> QED
      BY <2>4, <3>1
  <2>5. CASE j = n + 1 /\ \E a \in DOMAIN cs : Origin(cs[a]) = Origin(x)
    <3>1. PICK a \in 1..n : Origin(cs[a]) = Origin(x)
      BY <1>1, <2>5
    <3>2. ds[j] = x /\ ds[a] = cs[a]
      BY <1>1, <2>5
    <3>3. CASE i < a
      <4>1. \/ Origin(cs[a]) >= Origin(cs[i]) - 1
            \/ \E h \in 1..(i - 1) : Origin(cs[h]) = Origin(cs[a])
        BY <1>1, <2>1, <3>3 DEF InOrder
      <4> QED
        BY <2>1, <2>2, <3>1, <3>2, <4>1
    <3>4. CASE i = a
      <4>1. Origin(ds[j]) = Origin(ds[i]) /\ Origin(ds[i]) \in 0..(p + 1)
        BY <1>4, <3>1, <3>2, <3>4
      <4> QED
        BY <4>1
    <3>5. CASE a < i
      <4>1. a \in 1..(i - 1)
        BY <2>1, <3>5
      <4> QED
        BY <3>1, <3>2, <4>1
    <3> QED
      BY <1>1, <2>1, <3>3, <3>4, <3>5
  <2> QED
    BY <1>2, <2>3, <2>4, <2>5, <1>1
<1>6. InOrder(ds)
  BY <1>5 DEF InOrder
<1> QED
  BY <1>4, <1>6 DEF ds

LEMMA AppendKeeps ==
  ASSUME NEW cs \in Seq(Delivered), NEW x \in Delivered, NEW o,
         \E i \in DOMAIN cs : Origin(cs[i]) = o
  PROVE  \E i \in DOMAIN Append(cs, x) : Origin(Append(cs, x)[i]) = o
<1> DEFINE ds == Append(cs, x)
<1>1. \A i \in DOMAIN cs : i \in DOMAIN ds /\ ds[i] = cs[i]
  OBVIOUS
<1> HIDE DEF ds
<1>2. \E i \in DOMAIN ds : Origin(ds[i]) = o
  BY <1>1
<1> QED
  BY <1>2 DEF ds

\* The end of a superframe: what it left is delivered, in order.
LEMMA OrderTrigger ==
  ASSUME NEW c \in ClientType, NEW p \in Nat, OrderOf(c, p), InOrder(c.calls)
  PROVE  LET d == trigger_on_call(c)
         IN /\ d.psd.updates = 0 /\ InOrder(d.calls)
            /\ \A i \in DOMAIN d.calls : Origin(d.calls[i]) \in 0..(p + 1)
            /\ Complete(c.encap) =>
                 \E i \in DOMAIN d.calls : Origin(d.calls[i]) = c.encap.data[1][1]
<1> DEFINE d == trigger_on_call(c)
<1>1. Flushed(c, d)
  BY FlushFacts
<1> HIDE DEF d
<1>2. /\ c.calls \in Seq(Delivered) /\ c.psd.updates \in Nat
      /\ c.psd.updates > 0 => c.proc.impl = "PSD" /\ c.psd.header \in {p, p + 1}
      /\ \A i \in DOMAIN c.calls : Origin(c.calls[i]) \in 0..(p + 1)
      /\ Complete(c.encap) =>
           \E i \in DOMAIN c.calls : Origin(c.calls[i]) = c.encap.data[1][1]
  BY DEF OrderOf, ClientType, Complete
<1>3. CASE d.calls = c.calls /\ d.psd = c.psd /\ (c.proc.impl = "PSD" => c.psd.updates = 0)
  BY <1>2, <1>3 DEF d
<1>4. CASE /\ c.proc.impl = "ENCAP" /\ Complete(c.encap)
           /\ d.calls = Append(c.calls, EncapCall(c)) /\ d.psd = c.psd
  <2>1. EncapCall(c) \in Delivered /\ Origin(EncapCall(c)) = c.encap.data[1][1]
    BY DEF EncapCall, Delivered, ClientType, Origin
  <2>2. /\ InOrder(Append(c.calls, EncapCall(c)))
        /\ \A i \in DOMAIN Append(c.calls, EncapCall(c)) :
             Origin(Append(c.calls, EncapCall(c))[i]) \in 0..(p + 1)
    BY <1>2, <1>4, <2>1, InOrderAppend
  <2>3. \E i \in DOMAIN d.calls : Origin(d.calls[i]) = c.encap.data[1][1]
    BY <1>2, <1>4, <2>1, AppendKeeps
  <2> QED
    BY <1>2, <1>4, <2>2, <2>3 DEF d
<1>5. CASE /\ c.proc.impl = "PSD" /\ c.psd.updates > 0
           /\ d.calls = Append(c.calls, PsdCall(c))
           /\ d.psd = [c.psd EXCEPT !.updates = 0]
  <2>1. PsdCall(c) \in Delivered /\ Origin(PsdCall(c)) = c.psd.header
    BY DEF PsdCall, Delivered, ClientType, Origin
  <2>2. /\ InOrder(Append(c.calls, PsdCall(c)))
        /\ \A i \in DOMAIN Append(c.calls, PsdCall(c)) :
             Origin(Append(c.calls, PsdCall(c))[i]) \in 0..(p + 1)
    BY <1>2, <1>5, <2>1, InOrderAppend
  <2>3. Complete(c.encap) =>
          \E i \in DOMAIN d.calls : Origin(d.calls[i]) = c.encap.data[1][1]
    <3> SUFFICES ASSUME Complete(c.encap)
                 PROVE  \E i \in DOMAIN d.calls : Origin(d.calls[i]) = c.encap.data[1][1]
      OBVIOUS
    <3>1. \E i \in DOMAIN c.calls : Origin(c.calls[i]) = c.encap.data[1][1]
      BY <1>2
    <3>2. PsdCall(c) \in Delivered /\ c.calls \in Seq(Delivered)
      BY <1>2, <2>1
    <3> DEFINE o == c.encap.data[1][1]
               cs == Append(c.calls, PsdCall(c))
    <3>3. \E i \in DOMAIN c.calls : Origin(c.calls[i]) = o
      BY <3>1
    <3> HIDE DEF o
    <3>4. \E i \in DOMAIN cs : Origin(cs[i]) = o
      BY <3>2, <3>3, AppendKeeps
    <3> HIDE DEF cs
    <3>5. d.calls = cs
      BY <1>5 DEF cs
    <3> QED
      BY <3>4, <3>5 DEF o
  <2>4. d.psd.updates = 0
    BY <1>5 DEF ClientType
  <2> QED
    BY <1>5, <2>2, <2>3, <2>4 DEF d
<1> QED
  BY <1>1, <1>3, <1>4, <1>5 DEF Flushed

\* The current superframe, b's, is the last one a fragment started, and the
\* fragment is of it or of the next one.
LEMMA OrderCurrent ==
  ASSUME NEW c \in ClientType, NEW f \in Fragment, NEW b \in ClientType, NEW s,
         DOMAIN s \subseteq Nat \ {0}, DeltaOK(s), OrderOK(c, s),
         OfCall(f, s), Current(c, f, b)
  PROVE  \E p \in DOMAIN s : /\ s[p].id = b.proc.id /\ OrderOf(b, p) /\ InOrder(b.calls)
                             /\ f.header \in {p, p + 1}
<1> DEFINE h == f.header
<1>1. h \in DOMAIN s /\ h \in Nat /\ f.sf_id = s[h].id /\ b.proc.impl # NoImpl
  <2>1. f.type # NoImpl
    BY DEF Fragment, FragmentKinds, NoImpl
  <2> QED
    BY <2>1 DEF OfCall, Current
<1>2. CASE Fresh(c)
  <2>1. Flushed(c, trigger_on_call(c)) /\ c.proc.impl = NoImpl /\ c.proc.impl # "PSD"
    BY <1>2, FlushFacts DEF Fresh, NoImpl
  <2>2. /\ b.proc.id = f.sf_id /\ b.encap = c.encap
        /\ b.psd = trigger_on_call(c).psd /\ b.calls = trigger_on_call(c).calls
    BY <1>1, <2>1 DEF Current
  <2>3. b.psd = c.psd /\ b.calls = c.calls
    BY <2>1, <2>2 DEF Flushed, NoImpl
  <2>4. b.calls = <<>> /\ b.psd.updates = 0 /\ b.encap.data = <<>>
    BY <1>2, <2>2, <2>3 DEF Fresh
  <2>5. OrderOf(b, h) /\ InOrder(b.calls)
    BY <1>1, <2>4 DEF OrderOf, InOrder
  <2> QED
    BY <1>1, <2>2, <2>5
<1>3. ASSUME NEW p \in DOMAIN s, s[p].id = c.proc.id, OrderOf(c, p)
      PROVE  \E q \in DOMAIN s : /\ s[q].id = b.proc.id /\ OrderOf(b, q) /\ InOrder(b.calls)
                                 /\ f.header \in {q, q + 1}
  <2>1. p \in Nat /\ InOrder(c.calls) /\ c.proc.impl # NoImpl
    BY <1>3 DEF OrderOK, OrderOf
  <2>2. /\ p < h => Delta(f.sf_id, c.proc.id) >= h - p
        /\ h < p => Delta(f.sf_id, c.proc.id) < 0
    BY <1>1, <1>3 DEF DeltaOK
  <2>3. CASE b = c /\ Delta(f.sf_id, c.proc.id) \in {0, 1}
    <3>1. h \in {p, p + 1}
      BY <1>1, <2>1, <2>2, <2>3
    <3> QED
      BY <1>3, <2>1, <2>3, <3>1
  <2>4. CASE /\ Delta(f.sf_id, c.proc.id) >= 0
             /\ b.proc.id = f.sf_id /\ b.encap = c.encap
             /\ b.psd = trigger_on_call(c).psd /\ b.calls = trigger_on_call(c).calls
    <3>1. p <= h
      <4>1. Delta(f.sf_id, c.proc.id) \in Int
        <5>1. /\ f.sf_id \in Nat /\ c.proc.id \in Nat
          BY DEF Fragment, ClientType
        <5>2. IdModulus \in Nat /\ IdModulus > 0
          BY MulticastAssumption
        <5> QED
          BY <5>1, <5>2 DEF Delta
      <4> QED
        BY <1>1, <2>1, <2>2, <2>4, <4>1
    <3>2. /\ b.psd.updates = 0 /\ InOrder(b.calls)
          /\ \A i \in DOMAIN b.calls : Origin(b.calls[i]) \in 0..(p + 1)
          /\ Complete(b.encap) =>
               \E i \in DOMAIN b.calls : Origin(b.calls[i]) = b.encap.data[1][1]
      BY <1>3, <2>1, <2>4, OrderTrigger
    <3>3. \A i \in DOMAIN b.calls : Origin(b.calls[i]) \in 0..(h + 1)
      BY <1>1, <2>1, <3>1, <3>2
    <3>4. OrderOf(b, h)
      BY <1>1, <3>2, <3>3 DEF OrderOf, Complete
    <3> QED
      BY <1>1, <2>4, <3>2, <3>4
  <2> QED
    BY <2>1, <2>3, <2>4 DEF Current
<1> QED
  BY <1>2, <1>3 DEF OrderOK

\* A fragment of an encapsulated call of the current superframe or of the next.
LEMMA OrderEncap ==
  ASSUME NEW c \in ClientType, NEW s, NEW fl, NEW f \in fl, fl \subseteq Fragment,
         EncapOK(c, s, fl), OfCall(f, s), f.type = "ENCAP", c.proc.impl = "ENCAP",
         DOMAIN s \subseteq Nat \ {0},
         \A k, l \in DOMAIN s : s[k].id = s[l].id => k = l,
         \A g \in fl \ {f} : g.type # "ANNOUNCE" => Apart(f, g),
         NEW p \in Nat, OrderOf(c, p), InOrder(c.calls), f.header \in {p, p + 1}
  PROVE  LET d == encap_on_fragment(c, f) IN OrderOf(d, p) /\ InOrder(d.calls)
<1> DEFINE d == encap_on_fragment(c, f)
           h == f.header
<1>1. f \in Fragment /\ h \in DOMAIN s /\ h \in Nat /\ f.sf_id = s[h].id
  BY DEF OfCall
<1>2. /\ d \in ClientType /\ d.proc = c.proc /\ d.psd = c.psd
      /\ \/ d.calls = c.calls /\ d.encap = encap_clear(c.encap, f.sf_id, 0)
         \/ \E e \in EncapType :
              /\ Opened(c, f, e)
              /\ \/ d.calls = c.calls /\ d.encap = e
                 \/ Copied(c, f, e, d)
  BY <1>1, EncapFragmentFacts
<1>3. EncapOK(d, s, fl \ {f})
  BY EncapFragment
<1> HIDE DEF d
<1>4. ASSUME d.calls = c.calls, ~Complete(d.encap) \/ d.encap = c.encap
      PROVE  OrderOf(d, p) /\ InOrder(d.calls)
  BY <1>2, <1>4 DEF OrderOf, Complete
<1>5. CASE d.calls = c.calls /\ d.encap = encap_clear(c.encap, f.sf_id, 0)
  <2> DEFINE none == encap_clear(c.encap, f.sf_id, 0)
  <2>1. Len(none.data) = 0 /\ none \in EncapType
    BY <1>1, ClearFacts, ZenonT(60)
  <2> HIDE DEF none
  <2>2. d.encap.data = <<>>
    BY <1>5, <2>1, NoBytes DEF none
  <2>3. ~Complete(d.encap)
    BY <2>2 DEF Complete
  <2> QED
    BY <1>4, <1>5, <2>3 DEF d
<1>6. ASSUME NEW e \in EncapType, Opened(c, f, e)
      PROVE  e.sf_id = f.sf_id /\ (~Complete(e) \/ e = c.encap)
  <2>1. CASE e = encap_clear(c.encap, f.sf_id, f.sf_size)
    <3> DEFINE new == encap_clear(c.encap, f.sf_id, f.sf_size)
    <3>1. f.sf_size \in {0, f.sf_size} /\ f \in Fragment
      BY <1>1
    <3>2. new.sf_id = f.sf_id /\ Len(new.data) = f.sf_size /\ new.remaining = f.sf_size
      BY <3>1, ClearFacts, ZenonT(60)
    <3> HIDE DEF new
    <3>3. e = new
      BY <2>1 DEF new
    <3> QED
      BY <3>2, <3>3, NoBytes DEF Complete
  <2> QED
    BY <1>6, <2>1 DEF Opened
<1>7. ASSUME NEW e \in EncapType, Opened(c, f, e), Copied(c, f, e, d)
      PROVE  OrderOf(d, p) /\ InOrder(d.calls)
  <2>1. CASE ~Complete(d.encap)
    BY <1>4, <1>7, <2>1 DEF Copied
  <2>2. CASE Complete(d.encap)
    <3>1. d.encap \in EncapType /\ d.encap.sf_id = f.sf_id
      <4> DEFINE new == encap_copy(e, f)
      <4>1. Ends(f) <= Len(e.data) /\ d.encap = new
        BY <1>7 DEF Copied
      <4>2. new \in EncapType /\ new.sf_id = e.sf_id
        BY <1>1, <4>1, CopyFacts
      <4> HIDE DEF new
      <4> QED
        BY <1>6, <1>7, <4>1, <4>2
    <3>2. PICK k \in DOMAIN s : EncapOf(d.encap, k, s, fl \ {f})
      BY <1>3, <2>2 DEF EncapOK, Complete
    <3>3. k = h
      BY <1>1, <3>1, <3>2 DEF EncapOf
    <3>4. \A q \in DOMAIN d.encap.data : d.encap.data[q] = <<h, q - 1>>
      BY <2>2, <3>1, <3>2, <3>3, CompleteIntact DEF Complete
    <3>5. 1 \in DOMAIN d.encap.data
      <4>1. d.encap.data \in Seq(Bin) /\ d.encap.data # <<>>
        BY <2>2, <3>1 DEF Complete, EncapType
      <4> QED
        BY <4>1, EmptySeq
    <3> DEFINE x == EncapCall(d)
               o == d.encap.data[1][1]
    <3>6. x \in Delivered /\ Origin(x) = o /\ o = h
      BY <1>2, <3>4, <3>5, SMTT(30) DEF EncapCall, Delivered, ClientType, Origin
    <3>7. c.calls \in Seq(Delivered) /\ d.calls = Append(c.calls, x)
      BY <1>7, <2>2 DEF Copied, ClientType
    <3> HIDE DEF x, o
    <3>8. \A i \in DOMAIN c.calls : Origin(c.calls[i]) \in 0..(p + 1)
      BY DEF OrderOf
    <3>9. /\ InOrder(d.calls)
          /\ \A i \in DOMAIN d.calls : Origin(d.calls[i]) \in 0..(p + 1)
      BY <3>6, <3>7, <3>8, InOrderAppend
    <3>10. Len(c.calls) + 1 \in DOMAIN d.calls /\ d.calls[Len(c.calls) + 1] = x
      BY <3>7
    <3>11. \E i \in DOMAIN d.calls : Origin(d.calls[i]) = o
      BY <3>6, <3>10
    <3> QED
      BY <1>2, <3>9, <3>11 DEF OrderOf, o
  <2> QED
    BY <2>1, <2>2
<1> QED
  BY <1>2, <1>4, <1>5, <1>6, <1>7 DEF d

\* A fragment of a spectrum that is the current superframe or the next.
LEMMA OrderPsd ==
  ASSUME NEW c \in ClientType, NEW f \in Fragment, c.proc.impl = "PSD",
         NEW p \in Nat, OrderOf(c, p), InOrder(c.calls), f.header \in {p, p + 1}
  PROVE  LET d == psd_on_fragment(c, f) IN OrderOf(d, p) /\ InOrder(d.calls)
<1> DEFINE d == psd_on_fragment(c, f)
<1>1. d \in ClientType
  BY PsdFragmentFacts
<1>2. PICK a \in ClientType : Retuned(c, f, a) /\ (d = a \/ Written(a, f, d))
  BY PsdFragmentFacts
<1> HIDE DEF d
<1>3. OrderOf(a, p) /\ InOrder(a.calls) /\ a.proc.impl = "PSD"
  <2>1. a.proc = c.proc /\ a.encap = c.encap
    BY <1>2 DEF Retuned
  <2>2. CASE a = c
    BY <2>2
  <2>3. CASE a.calls = trigger_on_call(c).calls /\ a.psd.updates = 0
    <3>1. /\ InOrder(a.calls)
          /\ \A i \in DOMAIN a.calls : Origin(a.calls[i]) \in 0..(p + 1)
          /\ Complete(a.encap) =>
               \E i \in DOMAIN a.calls : Origin(a.calls[i]) = a.encap.data[1][1]
      BY <2>1, <2>3, OrderTrigger
    <3> QED
      BY <2>1, <2>3, <3>1 DEF OrderOf, Complete
  <2> QED
    BY <1>2, <2>2, <2>3 DEF Retuned
<1>4. ASSUME Written(a, f, d)
      PROVE  OrderOf(d, p) /\ InOrder(d.calls)
  <2>1. d.proc = a.proc /\ d.encap = a.encap /\ d.calls = a.calls
    BY <1>4 DEF Written
  <2>2. d.psd.header \in {p, p + 1}
    <3>1. a.psd.updates \in Nat
      BY DEF ClientType
    <3> QED
      BY <1>3, <1>4, <3>1 DEF Written, OrderOf
  <2> QED
    BY <1>3, <2>1, <2>2 DEF OrderOf
<1> QED
  BY <1>2, <1>3, <1>4 DEF d

\* Whatever arrives, the calls come in order.
LEMMA OrderProcess ==
  ASSUME NEW c \in ClientType, NEW s, NEW fl, NEW f \in fl, fl \subseteq Fragment,
         ProcOK(c), EncapOK(c, s, fl), OrderOK(c, s), DeltaOK(s),
         f.type = "ANNOUNCE" \/ OfCall(f, s),
         DOMAIN s \subseteq Nat \ {0},
         \A k, l \in DOMAIN s : s[k].id = s[l].id => k = l,
         f.type # "ANNOUNCE" => \A g \in fl \ {f} : g.type # "ANNOUNCE" => Apart(f, g)
  PROVE  OrderOK(suscli_multicast_processor_process(c, f), s)
<1> DEFINE r == suscli_multicast_processor_process(c, f)
<1>1. f \in Fragment
  OBVIOUS
<1>2. CASE r = c
  BY <1>2
<1>3. ASSUME NEW b \in ClientType, f.type \in FragmentKinds, Current(c, f, b),
             r = IF f.type = "ENCAP" THEN encap_on_fragment(b, f) ELSE psd_on_fragment(b, f)
      PROVE  OrderOK(r, s)
  <2> HIDE DEF r
  <2>1. OfCall(f, s) /\ f.type # "ANNOUNCE" /\ b.proc.impl = f.type
    BY <1>3 DEF FragmentKinds, Current
  <2>2. EncapOK(b, s, fl)
    BY <1>3, EncapTrigger DEF Current
  <2>3. PICK p \in DOMAIN s : /\ s[p].id = b.proc.id /\ OrderOf(b, p) /\ InOrder(b.calls)
                              /\ f.header \in {p, p + 1}
    BY <1>1, <1>3, <2>1, OrderCurrent
  <2>4. p \in Nat
    OBVIOUS
  <2>5. CASE f.type = "ENCAP"
    <3>1. r = encap_on_fragment(b, f) /\ b.proc.impl = "ENCAP"
      BY <1>3, <2>1, <2>5
    <3>2. OrderOf(r, p) /\ InOrder(r.calls)
      BY <2>1, <2>2, <2>3, <2>4, <2>5, <3>1, OrderEncap
    <3>3. r.proc = b.proc
      BY <1>1, <3>1, EncapFragmentFacts
    <3> QED
      BY <2>3, <3>2, <3>3 DEF OrderOK
  <2>6. CASE f.type = "PSD"
    <3>1. r = psd_on_fragment(b, f) /\ b.proc.impl = "PSD"
      BY <1>3, <2>1, <2>6
    <3>2. OrderOf(r, p) /\ InOrder(r.calls)
      BY <1>1, <2>3, <2>4, <3>1, OrderPsd
    <3>3. PICK a \in ClientType : Retuned(b, f, a) /\ (r = a \/ Written(a, f, r))
      BY <1>1, <3>1, PsdFragmentFacts
    <3>4. r.proc = b.proc
      BY <3>3 DEF Retuned, Written
    <3> QED
      BY <2>3, <3>2, <3>4 DEF OrderOK
  <2> QED
    BY <1>3, <2>5, <2>6 DEF FragmentKinds
<1> QED
  BY <1>1, <1>2, <1>3, ProcessFacts

LEMMA OrderGrows ==
  ASSUME NEW s, NEW t, Grows(s, t), NEW c, OrderOK(c, s)
  PROVE  OrderOK(c, t)
BY DEF Grows, OrderOK

\* Only datagrams reach the client.
LEMMA OrderServer ==
  ASSUME Inv, OrderInv,
         \/ \E call \in Calls : suscli_multicast_manager_deliver_call(call)
         \/ suscli_multicast_manager_tx_cb \/ AnnounceRead \/ AnnounceWrite
         \/ suscli_multicast_manager_destroy \/ UNCHANGED vars
  PROVE  OrderInv'
<1>1. Client' = Client
  BY ClientStays
  DEF suscli_multicast_manager_deliver_call, suscli_multicast_manager_tx_cb, AnnounceRead,
      AnnounceWrite, suscli_multicast_manager_destroy, vars
<1>2. Grows(sent, sent')
  <2>1. CASE \E call \in Calls : suscli_multicast_manager_deliver_call(call)
    BY <2>1, DeliverFacts DEF Inv
  <2>2. CASE sent' = sent
    BY <2>2 DEF Grows
  <2> QED
    BY <2>1, <2>2
    DEF suscli_multicast_manager_tx_cb, AnnounceRead, AnnounceWrite,
        suscli_multicast_manager_destroy, vars, server
<1> QED
  BY <1>1, <1>2, OrderGrows DEF OrderInv

\* A datagram arrives.
LEMMA OrderDatagram ==
  ASSUME Short, Inv, EncapInv, OrderInv, suscli_multicast_processor_process_datagram
  PROVE  OrderInv'
<1>1. PICK f \in net :
        /\ proc' = suscli_multicast_processor_process(Client, f).proc
        /\ encap' = suscli_multicast_processor_process(Client, f).encap
        /\ psd' = suscli_multicast_processor_process(Client, f).psd
        /\ calls' = suscli_multicast_processor_process(Client, f).calls
        /\ UNCHANGED server
  BY DEF suscli_multicast_processor_process_datagram
<1> DEFINE r == suscli_multicast_processor_process(Client, f)
<1>2. /\ f \in Fragment /\ Client \in ClientType /\ ProcOK(Client) /\ PsdOK(Client, sent)
      /\ f.type = "ANNOUNCE" \/ OfCall(f, sent)
      /\ net \subseteq Fragment /\ queue \in Seq(Fragment) /\ sent \in Sent
  BY <1>1 DEF Inv, TypeParts, FlightInv
<1>3. r \in ClientType
  BY <1>2, PsdProcess
<1>4. OrderOK(r, sent)
  <2>1. Flight \subseteq Fragment /\ f \in Flight
    <3>1. \A g \in ToSet(queue) : g \in Fragment
      BY <1>2, ToSetFacts
    <3> QED
      BY <1>1, <1>2, <3>1 DEF Flight
  <2>2. f.type # "ANNOUNCE" =>
          \A g \in Flight \ {f} : g.type # "ANNOUNCE" => Apart(f, g)
    BY <1>1, FlightApart
  <2>3. \A k, l \in DOMAIN sent : sent[k].id = sent[l].id => k = l
    BY IdsDiffer DEF Inv, EncapInv, Short
  <2>4. DOMAIN sent \subseteq Nat \ {0}
    BY <1>2, SentFacts
  <2>5. DeltaOK(sent)
    BY DeltaHolds DEF Inv, EncapInv
  <2>6. EncapOK(Client, sent, Flight) /\ OrderOK(Client, sent)
    BY DEF EncapInv, OrderInv
  <2> QED
    BY <1>2, <2>1, <2>2, <2>3, <2>4, <2>5, <2>6, OrderProcess
<1> HIDE DEF r
<1>5. Client' = r
  BY <1>1, <1>3, ClientIs DEF r
<1> QED
  BY <1>1, <1>4, <1>5 DEF OrderInv, server

LEMMA OrderInit == Init => OrderInv
<1> SUFFICES ASSUME Init PROVE OrderInv
  OBVIOUS
<1>1. Client.calls = <<>> /\ Fresh(Client)
  BY DEF Init, Client, Fresh
<1> QED
  BY <1>1 DEF OrderInv, OrderOK, InOrder

LEMMA OrderStep == Short /\ Inv /\ EncapInv /\ OrderInv /\ [Next]_vars => OrderInv'
BY OrderServer, OrderDatagram DEF Next, Deliver

\* Once a superframe has arrived, nothing that was sent more than one
\* superframe before it is delivered for the first time, as long as at most
\* half of the identifiers are in use: the processor takes the distance between
\* two identifiers for a signed number (suscli_multicast_processor_process).
THEOREM OldCallsDropped ==
  ASSUME Short
  PROVE  Spec => []NoOldCalls
<1>1. OrderInv => NoOldCalls
  BY DEF OrderInv, OrderOK, InOrder, NoOldCalls, Client
<1>2. Inv /\ EncapInv /\ OrderInv /\ [Next]_vars => OrderInv'
  BY OrderStep
<1>3. Spec => []EncapInv
  BY EncapHolds DEF Short
<1> QED
  BY <1>1, <1>2, <1>3, OrderInit, InvHolds, PTL DEF Spec

-----------------------------------------------------------------------------
(***************************************************************************)
(* The analyzer around the inspectors (Local.tla): the sweep that is       *)
(* applied is the one the program asked for, and only inspectors that are  *)
(* registered have requests.                                               *)
(***************************************************************************)
\* Where the program changes a copy of the sweep that it has not requested.
Changing == {"store", "store_max", "request"}

\* What is pending is what was wanted, up to what the call has changed yet.
WantedInv ==
  /\ main.at \notin Changing =>
       IF sweep.requested THEN sweep.pending = wanted ELSE sweep.current = wanted
  /\ main.at = "store" => sweep.pending = wanted
  /\ main.at = "store_max" =>
       /\ main.call.type = "SET_HOP_RANGE"
       /\ sweep.pending = [wanted EXCEPT !.min = main.call.min]
  /\ main.at = "request" =>
       sweep.pending = IF main.call.type = "SET_HOP_RANGE"
                       THEN [wanted EXCEPT !.min = main.call.min, !.max = main.call.max]
                       ELSE Changed(wanted, main.call)
  /\ main.at \in Changing => main.call.type \in SweepCalls

SweepInv ==
  /\ sweep \in [current : {sweep.current}, pending : {sweep.pending}, requested : BOOLEAN]
  /\ main \in [at : {main.at}, call : {main.call}, insp : {main.insp}]
  /\ Wide /\ ~raced => WantedInv

LEMMA SweepUntouched ==
  ASSUME SweepInv, UNCHANGED <<mode, main, sweep, wanted, raced>>
  PROVE  SweepInv'
BY DEF SweepInv, WantedInv, Wide, Changed,
  suscan_local_analyzer_set_sweep_strategy,
  suscan_local_analyzer_set_spectrum_partitioning,
  suscan_local_analyzer_set_buffering_size,
  suscan_local_analyzer_set_hop_range

LEMMA SweepStep ==
  ASSUME SweepInv, LocalNext
  PROVE  SweepInv'
<1>1. CASE UNCHANGED <<mode, main, sweep, wanted, raced>>
  BY <1>1, SweepUntouched
<1>2. CASE CopySweep
  <2>1. CASE UNCHANGED <<sweep, main>>
    BY <1>2, <1>1, <2>1 DEF CopySweep, hist
  <2>2. CASE /\ Wide /\ sweep' = [sweep EXCEPT !.pending = Base(sweep)]
             /\ main' = [main EXCEPT !.at = "store", !.call = Call]
    <3>1. /\ main.at \notin Changing /\ UNCHANGED <<mode, wanted, raced>>
          /\ Call.type \in SweepCalls
      BY <1>2 DEF CopySweep, Calling, Idle, Changing, hist,
                  Call
    <3> QED
      BY <2>2, <3>1 DEF SweepInv, WantedInv, Wide, Base, Changing
  <2> QED
    BY <1>2, <2>1, <2>2 DEF CopySweep
<1>3. CASE StoreSweep
  <2>1. /\ main.at \in {"store", "store_max"} /\ UNCHANGED <<mode, wanted, raced>>
        /\ sweep' = [sweep EXCEPT !.pending = Changed(@, main.call)]
        /\ main' = [main EXCEPT !.at =
             IF main.at = "store" /\ main.call.type = "SET_HOP_RANGE" THEN "store_max"
             ELSE "request"]
    BY <1>3 DEF StoreSweep, At, hist
  <2>2. CASE main.at = "store" /\ main.call.type = "SET_HOP_RANGE"
    BY <2>1, <2>2 DEF SweepInv, WantedInv, Wide, Changed, Changing,
       suscan_local_analyzer_set_hop_range, SweepCalls
  <2>3. CASE main.at = "store" /\ main.call.type # "SET_HOP_RANGE"
    BY <2>1, <2>3 DEF SweepInv, WantedInv, Wide, Changed, Changing,
       suscan_local_analyzer_set_sweep_strategy, SweepCalls,
       suscan_local_analyzer_set_spectrum_partitioning,
       suscan_local_analyzer_set_buffering_size
  <2>4. CASE main.at = "store_max"
    BY <2>1, <2>4 DEF SweepInv, WantedInv, Wide, Changed, Changing,
       suscan_local_analyzer_set_hop_range, SweepCalls
  <2> QED
    BY <2>1, <2>2, <2>3, <2>4
<1>4. CASE RequestSweep
  <2>1. /\ main.at = "request" /\ UNCHANGED <<mode, raced>>
        /\ sweep' = [sweep EXCEPT !.requested = TRUE]
        /\ wanted' = CASE main.call.type # "SET_HOP_RANGE" -> Changed(wanted, main.call)
                       [] main.call.type = "SET_HOP_RANGE" ->
                            [wanted EXCEPT !.min = main.call.min, !.max = main.call.max]
        /\ main' = [main EXCEPT !.at = "idle", !.call = [type |-> "NONE"]]
    BY <1>4 DEF RequestSweep
  <2> QED
    BY <2>1 DEF SweepInv, WantedInv, Wide, Changing
<1>5. CASE TakeSweep
  <2>1. /\ UNCHANGED <<mode, main, wanted, raced>>
        /\ UNCHANGED sweep \/ (sweep.requested /\ sweep' = [sweep EXCEPT !.current = sweep.pending])
    BY <1>5 DEF TakeSweep, hist
  <2> QED
    BY <2>1, <1>1 DEF SweepInv, WantedInv, Wide, Changing, Changed,
     suscan_local_analyzer_set_sweep_strategy,
     suscan_local_analyzer_set_spectrum_partitioning,
     suscan_local_analyzer_set_buffering_size,
     suscan_local_analyzer_set_hop_range
<1>6. CASE ClearSweep
  <2>1. /\ UNCHANGED <<mode, main, wanted>>
        /\ sweep' = [sweep EXCEPT !.requested = FALSE]
        /\ raced' = (raced \/ (sweep.pending # sweep.current /\ main.at \notin Changing))
    BY <1>6 DEF ClearSweep, Changing
  <2> QED
    BY <2>1 DEF SweepInv, WantedInv, Wide, Changing, Changed,
     suscan_local_analyzer_set_sweep_strategy,
     suscan_local_analyzer_set_spectrum_partitioning,
     suscan_local_analyzer_set_buffering_size,
     suscan_local_analyzer_set_hop_range
<1>7. CASE /\ UNCHANGED <<mode, sweep, wanted, raced>>
           /\ main.at \notin Changing /\ main'.at \notin Changing
           /\ main' \in [at : {main'.at}, call : {main'.call}, insp : {main'.insp}]
  <2>1. (Wide /\ ~raced => WantedInv)'
    BY <1>7 DEF SweepInv, WantedInv, Wide, Changing
  <2> QED
    BY <1>7, <2>1 DEF SweepInv
<1>8. ASSUME \/ suscan_local_analyzer_write \/ SlowCall
             \/ suscan_local_analyzer_set_iq_reverse
             \/ suscan_analyzer_req_halt \/ suscan_analyzer_read
      PROVE SweepInv'
  BY <1>8, <1>1 DEF suscan_local_analyzer_write, SlowCall,
     suscan_local_analyzer_set_iq_reverse, suscan_analyzer_req_halt,
     suscan_analyzer_read, sweeps, hist
<1>9. ASSUME AcquireInspector \/ SubmitRequest PROVE SweepInv'
  BY <1>9, <1>7 DEF AcquireInspector, SubmitRequest, Calling,
     Idle, sweeps, hist, Changing, SweepInv
<1>10. ASSUME suscan_analyzer_destroy \/ Destroying PROVE SweepInv'
  <2>1. UNCHANGED <<mode, sweep, wanted, raced>>
    BY <1>10 DEF suscan_analyzer_destroy, Destroying, AwaitHalt,
       JoinThread, suscan_analyzer_halt_worker, ConsumeUntilHalt,
       DestroyWorker, sweeps, hist
  <2>2. CASE suscan_analyzer_destroy
    BY <2>1, <2>2, <1>7 DEF suscan_analyzer_destroy, Idle, At, Changing,
       SweepInv
  <2>3. CASE AwaitHalt \/ ConsumeUntilHalt
    BY <2>1, <2>3, <1>7 DEF AwaitHalt, ConsumeUntilHalt, At, Changing,
       SweepInv
  <2>4. CASE JoinThread \/ suscan_analyzer_halt_worker
    BY <2>1, <2>4, <1>7 DEF JoinThread, suscan_analyzer_halt_worker,
       At, Changing, SweepInv
  <2>5. CASE DestroyWorker
    <3>1. /\ main.at = "destroy"
          /\ \/ main' = [main EXCEPT !.at = "gone"]
             \/ main' = [main EXCEPT !.at = "halt", !.insp = "slow"]
      BY <2>5 DEF DestroyWorker, At
    <3> QED
      BY <2>1, <3>1, <1>7 DEF Changing, SweepInv
  <2> QED
    BY <1>10, <2>2, <2>3, <2>4, <2>5 DEF Destroying
<1>11. ASSUME Thread PROVE SweepInv'
  BY <1>11, <1>1 DEF Thread, PushSource, Greet, ServeHalt,
     ServeInspector, ServeSeek, ServeThrottle, ServeParams,
     ServeGetParams, suscan_local_analyzer_wait_for_halt, EndThread,
     sweeps, hist
<1>12. ASSUME \/ ReadWide \/ EndWide \/ EndChannel
              \/ ReadChannel \/ SlowCallback
              \/ \E w \in DOMAIN wk : HaltWorker(w) \/ AckHalt(w)
       PROVE SweepInv'
  BY <1>12, <1>1 DEF ReadWide, EndWide, EndChannel,
     EndOfStream, ReadChannel, SlowCallback, HaltWorker,
     AckHalt, sweeps, hist
<1> QED
  BY <1>2, <1>3, <1>4, <1>5, <1>6, <1>8, <1>9, <1>10, <1>11, <1>12
     DEF LocalNext, Program, GoOn, Sweeping

\* Between calls of the program that change the sweep, and with no request left to
\* take, the sweep in force has every change that was asked for, unless one was
\* asked for while suscan_source_wide_wk_cb was between its copy and the reset
\* of the flag.
THEOREM SweepIsTheWanted == LocalSpec => []SweepApplied
<1>1. LocalInit => SweepInv
  BY DEF LocalInit, SweepInv, WantedInv, Changing
<1>2. SweepInv /\ [LocalNext]_local_vars => SweepInv'
  <2>1. SweepInv /\ UNCHANGED local_vars => SweepInv'
    BY SweepUntouched DEF local_vars, sweeps, hist
  <2> QED
    BY <2>1, SweepStep
<1>3. SweepInv => SweepApplied
  BY DEF SweepInv, WantedInv, SweepApplied, Changing
<1> QED
  BY <1>1, <1>2, <1>3, PTL DEF LocalSpec

----------------------------------------------------------------------------
\* What the analyzer thread does to the inspectors

\* As far as requests go: which there are, and who is registered.
IsInspector(x) == {"state", "handle"} \subseteq DOMAIN x

Fields(s) ==
  /\ s = [insp |-> s.insp, table |-> s.table, requests |-> s.requests, sent |-> s.sent]
  /\ \E S : s.insp \in Seq(S)
  /\ \A n \in DOMAIN s.insp : IsInspector(s.insp[n])

ServerOK(s) ==
  /\ Fields(s)
  /\ s.table \in [Handles -> {None} \cup DOMAIN s.insp]
  /\ \A n \in DOMAIN s.insp :
       s.insp[n].state = "running" => s.insp[n].handle # NoHandle
  /\ \A r \in s.requests : r.insp \in DOMAIN s.insp /\ s.insp[r.insp].handle # NoHandle

\* What settings, and an inspector that fails, leave alone.
Set(s, t) ==
  /\ t = [insp |-> t.insp, table |-> s.table, requests |-> s.requests, sent |-> t.sent]
  /\ t.insp = [n \in DOMAIN s.insp |-> t.insp[n]]
  /\ \A n \in DOMAIN s.insp : /\ IsInspector(t.insp[n])
                              /\ t.insp[n].state = "running" => s.insp[n].state = "running"
                              /\ t.insp[n].handle = s.insp[n].handle
  /\ t.insp = [n \in DOMAIN t.insp |-> t.insp[n]]

LEMMA SeqOfDomain ==
  ASSUME NEW S, NEW s \in Seq(S), NEW t, t = [n \in DOMAIN s |-> t[n]]
  PROVE  \E T : t \in Seq(T)
<1> DEFINE T == {t[n] : n \in DOMAIN s}
<1>1. Len(s) \in Nat /\ DOMAIN s = 1 .. Len(s)
  OBVIOUS
<1>2. t \in [1 .. Len(s) -> T]
  BY <1>1
<1>3. t \in Seq(T)
  BY <1>1, <1>2, SeqDef
<1> QED
  BY <1>3

LEMMA SetOK ==
  ASSUME NEW s, NEW t, ServerOK(s), Set(s, t)
  PROVE  ServerOK(t) /\ DOMAIN s.insp \subseteq DOMAIN t.insp
<1>1. \E T : t.insp \in Seq(T)
  BY SeqOfDomain DEF ServerOK, Fields, Set
<1>2. DOMAIN t.insp = DOMAIN s.insp
  BY DEF Set
<1>3. t.table = s.table /\ t.requests = s.requests
  BY DEF Set
<1>4. Fields(t)
  BY <1>1, <1>2 DEF Fields, Set
<1>5. \A n \in DOMAIN t.insp : /\ t.insp[n].state = "running" => s.insp[n].state = "running"
                               /\ t.insp[n].handle = s.insp[n].handle
  BY <1>2 DEF Set
<1> QED
  BY <1>2, <1>3, <1>4, <1>5 DEF ServerOK

LEMMA SetOne ==
  ASSUME NEW s, ServerOK(s), NEW n \in DOMAIN s.insp, NEW x, IsInspector(x),
         x.state = "running" => s.insp[n].state = "running", x.handle = s.insp[n].handle
  PROVE  Set(s, [s EXCEPT !.insp[n] = x])
<1> DEFINE t == [s EXCEPT !.insp[n] = x]
<1>1. s = [insp |-> s.insp, table |-> s.table, requests |-> s.requests, sent |-> s.sent]
  BY DEF ServerOK, Fields
<1>2. /\ t = [insp |-> t.insp, table |-> s.table, requests |-> s.requests, sent |-> s.sent]
      /\ t.insp = [s.insp EXCEPT ![n] = x]
  BY <1>1
<1> HIDE DEF t
<1>3. s.insp = [m \in DOMAIN s.insp |-> s.insp[m]]
  BY DEF ServerOK, Fields
<1>4. /\ t.insp = [m \in DOMAIN s.insp |-> t.insp[m]] /\ t.insp[n] = x
      /\ \A m \in DOMAIN s.insp : m # n => t.insp[m] = s.insp[m]
  BY <1>2, <1>3
<1>5. t = [insp |-> t.insp, table |-> s.table, requests |-> s.requests, sent |-> t.sent]
  BY <1>2
<1>6. \A m \in DOMAIN s.insp : IsInspector(s.insp[m])
  BY DEF ServerOK, Fields
<1> QED
  BY <1>4, <1>5, <1>6 DEF Set, t

LEMMA TableLeadsThere ==
  ASSUME NEW s, ServerOK(s), NEW h
  PROVE  suscan_local_analyzer_acquire_inspector(s, h) \in
           {None} \cup DOMAIN s.insp
BY DEF suscan_local_analyzer_acquire_inspector, ServerOK, None

Kept(s, t) == ServerOK(t) /\ DOMAIN s.insp \subseteq DOMAIN t.insp

LEMMA KeptOne ==
  ASSUME NEW s, ServerOK(s), NEW n \in DOMAIN s.insp, NEW x, IsInspector(x),
         x.state = "running" => s.insp[n].state = "running", x.handle = s.insp[n].handle
  PROVE  Kept(s, [s EXCEPT !.insp[n] = x])
BY SetOne, SetOK DEF Kept

LEMMA Answers ==
  ASSUME NEW s, NEW m, NEW k
  PROVE  /\ Refused(s, m, k).srv = s /\ Failed(s, m).srv = s
         /\ Served(s, m).srv = s
BY DEF Refused, Failed, Served

LEMMA SettingKept ==
  ASSUME NEW s, ServerOK(s), NEW n \in DOMAIN s.insp, NEW v
  PROVE  /\ Kept(s, [s EXCEPT !.insp[n].inspector_id = v])
         /\ Kept(s, [s EXCEPT !.insp[n].estimators = v])
         /\ Kept(s, [s EXCEPT !.insp[n].spectsrc_index = v])
         /\ Kept(s, [s EXCEPT !.insp[n].config = v])
         /\ Kept(s, [s EXCEPT !.insp[n].corrector = v])
         /\ Kept(s, [s EXCEPT !.insp[n].watermark = v])
<1>1. IsInspector(s.insp[n])
  BY DEF ServerOK, Fields
<1>2. Kept(s, [s EXCEPT !.insp[n].inspector_id = v])
  <2> DEFINE x == [s.insp[n] EXCEPT !.inspector_id = v]
  <2>1. IsInspector(x) /\ x.state = s.insp[n].state /\ x.handle = s.insp[n].handle
    BY <1>1 DEF IsInspector
  <2>2. [s EXCEPT !.insp[n].inspector_id = v] = [s EXCEPT !.insp[n] = x]
    OBVIOUS
  <2> HIDE DEF x
  <2> QED
    BY <2>1, <2>2, KeptOne
<1>3. Kept(s, [s EXCEPT !.insp[n].estimators = v])
  <2> DEFINE x == [s.insp[n] EXCEPT !.estimators = v]
  <2>1. IsInspector(x) /\ x.state = s.insp[n].state /\ x.handle = s.insp[n].handle
    BY <1>1 DEF IsInspector
  <2>2. [s EXCEPT !.insp[n].estimators = v] = [s EXCEPT !.insp[n] = x]
    OBVIOUS
  <2> HIDE DEF x
  <2> QED
    BY <2>1, <2>2, KeptOne
<1>4. Kept(s, [s EXCEPT !.insp[n].spectsrc_index = v])
  <2> DEFINE x == [s.insp[n] EXCEPT !.spectsrc_index = v]
  <2>1. IsInspector(x) /\ x.state = s.insp[n].state /\ x.handle = s.insp[n].handle
    BY <1>1 DEF IsInspector
  <2>2. [s EXCEPT !.insp[n].spectsrc_index = v] = [s EXCEPT !.insp[n] = x]
    OBVIOUS
  <2> HIDE DEF x
  <2> QED
    BY <2>1, <2>2, KeptOne
<1>5. Kept(s, [s EXCEPT !.insp[n].config = v])
  <2> DEFINE x == [s.insp[n] EXCEPT !.config = v]
  <2>1. IsInspector(x) /\ x.state = s.insp[n].state /\ x.handle = s.insp[n].handle
    BY <1>1 DEF IsInspector
  <2>2. [s EXCEPT !.insp[n].config = v] = [s EXCEPT !.insp[n] = x]
    OBVIOUS
  <2> HIDE DEF x
  <2> QED
    BY <2>1, <2>2, KeptOne
<1>6. Kept(s, [s EXCEPT !.insp[n].corrector = v])
  <2> DEFINE x == [s.insp[n] EXCEPT !.corrector = v]
  <2>1. IsInspector(x) /\ x.state = s.insp[n].state /\ x.handle = s.insp[n].handle
    BY <1>1 DEF IsInspector
  <2>2. [s EXCEPT !.insp[n].corrector = v] = [s EXCEPT !.insp[n] = x]
    OBVIOUS
  <2> HIDE DEF x
  <2> QED
    BY <2>1, <2>2, KeptOne
<1>7. Kept(s, [s EXCEPT !.insp[n].watermark = v])
  <2> DEFINE x == [s.insp[n] EXCEPT !.watermark = v]
  <2>1. IsInspector(x) /\ x.state = s.insp[n].state /\ x.handle = s.insp[n].handle
    BY <1>1 DEF IsInspector
  <2>2. [s EXCEPT !.insp[n].watermark = v] = [s EXCEPT !.insp[n] = x]
    OBVIOUS
  <2> HIDE DEF x
  <2> QED
    BY <2>1, <2>2, KeptOne
<1> QED
  BY <1>2, <1>3, <1>4, <1>5, <1>6, <1>7

\* What the settings come to.
SETTINGS(s, m) ==
  {cb_NOOP(s, m), cb_SET_ID(s, m), cb_ESTIMATOR(s, m),
   cb_SPECTRUM(s, m), cb_GET_CONFIG(s, m), cb_SET_CONFIG(s, m),
   cb_SET_TLE(s, m), cb_RESET_EQUALIZER(s, m), cb_SET_WATERMARK(s, m)}

LEMMA SettingsKept ==
  ASSUME NEW s, NEW m, ServerOK(s), NEW served \in SETTINGS(s, m)
  PROVE  Kept(s, served.srv)
<1> DEFINE n == suscan_local_analyzer_acquire_inspector(s, m.handle)
<1>0. Kept(s, s)
  BY DEF Kept
<1>1. n = None \/ n \in DOMAIN s.insp
  BY TableLeadsThere
<1>2. CASE served = cb_NOOP(s, m)
  BY <1>0, <1>2, Answers DEF cb_NOOP
<1>3. CASE served = cb_SET_ID(s, m)
  <2> DEFINE v == m.args.inspector_id
  <2>1. served.srv = s \/ (n # None /\ served.srv = [s EXCEPT !.insp[n].inspector_id = v])
    BY <1>3, Answers DEF cb_SET_ID
  <2> HIDE DEF n, v
  <2>2. n # None => Kept(s, [s EXCEPT !.insp[n].inspector_id = v])
    BY <1>1, SettingKept
  <2> QED
    BY <1>0, <2>1, <2>2
<1>4. CASE served = cb_ESTIMATOR(s, m)
  <2> DEFINE v == {e \in s.insp[n].estimators : e # m.args.estimator_id}
                  \cup {e \in {m.args.estimator_id} : m.args.enabled}
  <2>1. served.srv = s \/ (n # None /\ served.srv = [s EXCEPT !.insp[n].estimators = v])
    BY <1>4, Answers DEF cb_ESTIMATOR, suscan_local_analyzer_insp_from_msg
  <2> HIDE DEF n, v
  <2>2. n # None => Kept(s, [s EXCEPT !.insp[n].estimators = v])
    BY <1>1, SettingKept
  <2> QED
    BY <1>0, <2>1, <2>2
<1>5. CASE served = cb_SPECTRUM(s, m)
  <2> DEFINE v == m.args.spectsrc_id
  <2>1. served.srv = s \/ (n # None /\ served.srv = [s EXCEPT !.insp[n].spectsrc_index = v])
    BY <1>5, Answers DEF cb_SPECTRUM, suscan_local_analyzer_insp_from_msg
  <2> HIDE DEF n, v
  <2>2. n # None => Kept(s, [s EXCEPT !.insp[n].spectsrc_index = v])
    BY <1>1, SettingKept
  <2> QED
    BY <1>0, <2>1, <2>2
<1>6. CASE served = cb_GET_CONFIG(s, m)
  <2>1. served.srv = s
    BY <1>6, Answers DEF cb_GET_CONFIG, suscan_local_analyzer_insp_from_msg
  <2> QED
    BY <1>0, <2>1
<1>7. CASE served = cb_SET_CONFIG(s, m)
  <2> DEFINE v == m.args.config
  <2>1. served.srv = s \/ (n # None /\ served.srv = [s EXCEPT !.insp[n].config = v])
    BY <1>7, Answers DEF cb_SET_CONFIG, suscan_local_analyzer_insp_from_msg
  <2> HIDE DEF n, v
  <2>2. n # None => Kept(s, [s EXCEPT !.insp[n].config = v])
    BY <1>1, SettingKept
  <2> QED
    BY <1>0, <2>1, <2>2
<1>8. CASE served = cb_SET_TLE(s, m)
  <2> DEFINE v == m.args.tle_enable
  <2>1. served.srv = s \/ (n # None /\ served.srv = [s EXCEPT !.insp[n].corrector = v])
    BY <1>8, Answers DEF cb_SET_TLE, suscan_local_analyzer_insp_from_msg
  <2> HIDE DEF n, v
  <2>2. n # None => Kept(s, [s EXCEPT !.insp[n].corrector = v])
    BY <1>1, SettingKept
  <2> QED
    BY <1>0, <2>1, <2>2
<1>9. CASE served = cb_RESET_EQUALIZER(s, m)
  <2>1. served.srv = s
    BY <1>9, Answers DEF cb_RESET_EQUALIZER, suscan_local_analyzer_insp_from_msg
  <2> QED
    BY <1>0, <2>1
<1>10. CASE served = cb_SET_WATERMARK(s, m)
  <2> DEFINE v == m.args.watermark
  <2>1. served.srv = s \/ (n # None /\ served.srv = [s EXCEPT !.insp[n].watermark = v])
    BY <1>10, Answers DEF cb_SET_WATERMARK, suscan_local_analyzer_insp_from_msg
  <2> HIDE DEF n, v
  <2>2. n # None => Kept(s, [s EXCEPT !.insp[n].watermark = v])
    BY <1>1, SettingKept
  <2> QED
    BY <1>0, <2>1, <2>2
<1> QED
  BY <1>2, <1>3, <1>4, <1>5, <1>6, <1>7, <1>8, <1>9, <1>10 DEF SETTINGS

LEMMA SubmitKept ==
  ASSUME NEW s, ServerOK(s), NEW n \in DOMAIN s.insp, NEW f, NEW v
  PROVE  Kept(s, Submit(s, n, f, v))
<1>1. CASE s.insp[n].state # "running"
  BY <1>1 DEF Submit, Kept
<1>2. CASE s.insp[n].state = "running"
  <2> DEFINE q == {r \in s.requests : ~(r.insp = n /\ r.field = f)}
                    \cup {[insp |-> n, field |-> f, value |-> v]}
  <2>1. Submit(s, n, f, v) = [s EXCEPT !.requests = q]
    BY <1>2 DEF Submit
  <2>2. s.insp[n].handle # NoHandle
    BY <1>2 DEF ServerOK
  <2>3. \A r \in q : r.insp \in DOMAIN s.insp /\ s.insp[r.insp].handle # NoHandle
    BY <2>2 DEF ServerOK
  <2> HIDE DEF q
  <2>4. s = [insp |-> s.insp, table |-> s.table, requests |-> s.requests, sent |-> s.sent]
    BY DEF ServerOK, Fields
  <2> DEFINE t == [s EXCEPT !.requests = q]
  <2>5. /\ t = [insp |-> t.insp, table |-> t.table, requests |-> t.requests, sent |-> t.sent]
        /\ t.insp = s.insp /\ t.table = s.table /\ t.requests = q
    BY <2>4
  <2> HIDE DEF t
  <2>6. Kept(s, t)
    BY <2>3, <2>5 DEF Kept, ServerOK, Fields
  <2> QED
    BY <2>1, <2>6 DEF t
<1> QED
  BY <1>1, <1>2

LEMMA RequestsKept ==
  ASSUME NEW s, NEW m, ServerOK(s),
         NEW served \in {cb_SET_FREQ(s, m), cb_SET_BANDWIDTH(s, m)}
  PROVE  Kept(s, served.srv)
<1> DEFINE n == suscan_local_analyzer_acquire_inspector(s, m.handle)
<1>0. Kept(s, s)
  BY DEF Kept
<1>1. n = None \/ n \in DOMAIN s.insp
  BY TableLeadsThere
<1>2. \/ served.srv = s
      \/ n # None /\ served.srv = Submit(s, n, "freq", m.args.fc - m.args.ft)
      \/ n # None /\ served.srv = Submit(s, n, "bandwidth", m.args.bw)
  BY Answers DEF cb_SET_FREQ, cb_SET_BANDWIDTH,
                 suscan_local_analyzer_insp_from_msg
<1> HIDE DEF n
<1> QED
  BY <1>0, <1>1, <1>2, SubmitKept

LEMMA ClosedKept ==
  ASSUME NEW s, ServerOK(s), NEW I
  PROVE  Kept(s, Closed(s, I))
<1> DEFINE t == Closed(s, I)
           closed(x) == [suscan_inspector_factory_halt_inspector(x)
                           EXCEPT !.handle = NoHandle]
<1>0. /\ s = [insp |-> s.insp, table |-> s.table, requests |-> s.requests, sent |-> s.sent]
      /\ s.table = [h \in Handles |-> s.table[h]]
  BY DEF ServerOK, Fields
<1>1. /\ t = [insp |-> t.insp, table |-> t.table, requests |-> t.requests, sent |-> t.sent]
      /\ t.insp = [n \in DOMAIN s.insp |-> IF n \in I THEN closed(s.insp[n]) ELSE s.insp[n]]
      /\ t.table = [h \in Handles |-> IF s.table[h] \in I THEN None ELSE s.table[h]]
      /\ t.requests = {r \in s.requests : r.insp \notin I}
  <2> DEFINE i == [n \in DOMAIN s.insp |-> IF n \in I THEN closed(s.insp[n]) ELSE s.insp[n]]
             h == [x \in Handles |-> IF s.table[x] \in I THEN None ELSE s.table[x]]
             q == {r \in s.requests : r.insp \notin I}
  <2>1. t = [s EXCEPT !.insp = i, !.table = h, !.requests = q]
    BY DEF Closed
  <2>2. i = [n \in DOMAIN s.insp |-> IF n \in I THEN closed(s.insp[n]) ELSE s.insp[n]]
    OBVIOUS
  <2>3. h = [x \in Handles |-> IF s.table[x] \in I THEN None ELSE s.table[x]]
    OBVIOUS
  <2>4. q = {r \in s.requests : r.insp \notin I}
    OBVIOUS
  <2> HIDE DEF i, h, q, t, closed
  <2>5. /\ t = [insp |-> t.insp, table |-> t.table, requests |-> t.requests, sent |-> t.sent]
        /\ t.insp = i /\ t.table = h /\ t.requests = q
    BY <1>0, <2>1
  <2> QED
    BY <2>2, <2>3, <2>4, <2>5
<1>2. ASSUME NEW x, IsInspector(x)
      PROVE  IsInspector(closed(x)) /\ closed(x).state # "running"
  BY <1>2 DEF IsInspector, suscan_inspector_factory_halt_inspector
<1> HIDE DEF t, closed
<1>3. /\ t.insp = [n \in DOMAIN s.insp |-> t.insp[n]] /\ DOMAIN t.insp = DOMAIN s.insp
      /\ \A n \in DOMAIN s.insp : t.insp[n] = IF n \in I THEN closed(s.insp[n]) ELSE s.insp[n]
  BY <1>1
<1>4. \A n \in DOMAIN s.insp : IsInspector(s.insp[n])
  BY DEF ServerOK, Fields
<1>5. \E T : t.insp \in Seq(T)
  BY <1>3, SeqOfDomain DEF ServerOK, Fields
<1>6. Fields(t)
  BY <1>1, <1>2, <1>3, <1>4, <1>5 DEF Fields
<1>7. t.table \in [Handles -> {None} \cup DOMAIN t.insp]
  BY <1>1, <1>3 DEF ServerOK
<1>8. \A n \in DOMAIN t.insp :
        t.insp[n].state = "running" => t.insp[n].handle # NoHandle
  BY <1>2, <1>3, <1>4 DEF ServerOK
<1>9. \A r \in t.requests : r.insp \in DOMAIN t.insp /\ t.insp[r.insp].handle # NoHandle
  BY <1>1, <1>3 DEF ServerOK
<1> QED
  BY <1>3, <1>6, <1>7, <1>8, <1>9 DEF Kept, ServerOK, t

\* What is sent is of no account here.
LEMMA SentKept ==
  ASSUME NEW s, ServerOK(s), NEW q
  PROVE  Kept(s, [s EXCEPT !.sent = q])
<1> DEFINE t == [s EXCEPT !.sent = q]
<1>1. s = [insp |-> s.insp, table |-> s.table, requests |-> s.requests, sent |-> s.sent]
  BY DEF ServerOK, Fields
<1>2. /\ t = [insp |-> t.insp, table |-> t.table, requests |-> t.requests, sent |-> t.sent]
      /\ t.insp = s.insp /\ t.table = s.table /\ t.requests = s.requests
  BY <1>1
<1> HIDE DEF t
<1>3. Kept(s, t)
  BY <1>2 DEF Kept, ServerOK, Fields
<1> QED
  BY <1>3 DEF t

LEMMA CLOSE_Kept ==
  ASSUME NEW s, NEW m, ServerOK(s)
  PROVE  Kept(s, cb_CLOSE(s, m).srv)
<1> DEFINE n == suscan_local_analyzer_acquire_inspector(s, m.handle)
           inside == suscan_inspector_walk_inspectors(s, n)
           t == suscan_local_analyzer_cascade_close(s, inside)
<1>0. Kept(s, s)
  BY DEF Kept
<1>1. cb_CLOSE(s, m).srv \in {s, Closed(t, {n})}
  BY Answers DEF cb_CLOSE, suscan_local_analyzer_insp_from_msg
<1>2. Kept(s, t)
  <2> DEFINE c == Closed(s, ToSet(inside))
  <2>1. Kept(s, c)
    BY ClosedKept
  <2>2. \E q : t = [c EXCEPT !.sent = q]
    BY DEF suscan_local_analyzer_cascade_close
  <2> HIDE DEF c, t
  <2> QED
    BY <2>1, <2>2, SentKept DEF Kept
<1> HIDE DEF t, n
<1>3. Kept(s, Closed(t, {n}))
  BY <1>2, ClosedKept DEF Kept
<1> QED
  BY <1>0, <1>1, <1>3

LEMMA OpenedKept ==
  ASSUME NEW s, ServerOK(s), NEW p, NEW c, NEW h \in Handles
  PROVE  Kept(s, suscan_local_analyzer_register_inspector(
                   suscan_inspector_factory_open(s, p, c), Len(s.insp) + 1, h))
<1> DEFINE k == Len(s.insp) + 1
           x == [state |-> "running", parent |-> p, listed |-> TRUE, class |-> c,
                 handle |-> NoHandle, inspector_id |-> 0, estimators |-> {},
                 spectsrc_index |-> 0, config |-> "default", corrector |-> FALSE, watermark |-> 0]
           y == [x EXCEPT !.handle = h]
           old == [m \in DOMAIN s.insp |->
                     IF s.insp[m].parent = p /\ s.insp[m].state = "halted"
                     THEN [s.insp[m] EXCEPT !.listed = FALSE] ELSE s.insp[m]]
           o == [s EXCEPT !.insp = Append(old, x)]
           i == [Append(old, x) EXCEPT ![k] = y]
           t == [o EXCEPT !.table[h] = k, !.insp[k].handle = h]
<1>0. /\ s = [insp |-> s.insp, table |-> s.table, requests |-> s.requests, sent |-> s.sent]
      /\ \A n \in DOMAIN s.insp : IsInspector(s.insp[n])
  BY DEF ServerOK, Fields
<1>1. PICK S : s.insp \in Seq(S)
  BY DEF ServerOK, Fields
<1>2. DOMAIN s.insp = 1 .. Len(s.insp) /\ Len(s.insp) \in Nat
  BY <1>1
<1>3. /\ old = [m \in DOMAIN s.insp |-> old[m]]
      /\ \A m \in DOMAIN s.insp : /\ IsInspector(old[m]) /\ old[m].state = s.insp[m].state
                                  /\ old[m].handle = s.insp[m].handle
  BY <1>0 DEF IsInspector
<1>4. PICK T : old \in Seq(T)
  BY <1>1, <1>3, SeqOfDomain
<1>5. Len(old) = Len(s.insp)
  BY <1>2, <1>3, <1>4
<1>6. IsInspector(x) /\ IsInspector(y) /\ y.handle = h /\ y.state = "running" /\ y = [x EXCEPT !.handle = h]
  BY DEF IsInspector
<1> HIDE DEF old, x, y
<1>7. /\ Append(old, x) \in Seq(T \cup {x})
      /\ Append(old, x)[k] = x /\ Len(Append(old, x)) = k
      /\ \A m \in DOMAIN s.insp : Append(old, x)[m] = old[m]
  <2>1. old \in Seq(T \cup {x})
    BY <1>4, SeqMonotonic
  <2> QED
    BY <2>1, <1>2, <1>5, AppendFacts
<1>8. /\ i = [m \in 1 .. k |-> i[m]] /\ i[k] = y /\ \A m \in DOMAIN s.insp : i[m] = old[m]
      /\ DOMAIN Append(old, x) = 1 .. k
  <2> DEFINE a == Append(old, x)
  <2>1. a \in Seq(T \cup {x}) /\ Len(a) = k /\ \A m \in DOMAIN s.insp : a[m] = old[m]
    BY <1>7
  <2>2. i = [a EXCEPT ![k] = y]
    OBVIOUS
  <2> HIDE DEF a, i
  <2>3. DOMAIN a = 1 .. k /\ a = [m \in 1 .. k |-> a[m]]
    BY <2>1
  <2>4. k \in 1 .. k /\ \A m \in DOMAIN s.insp : m \in 1 .. k /\ m # k
    BY <1>2
  <2> HIDE DEF k
  <2>5. /\ i = [m \in 1 .. k |-> i[m]] /\ i[k] = y /\ \A m \in DOMAIN s.insp : i[m] = old[m]
    BY <2>1, <2>2, <2>3, <2>4
  <2> QED
    BY <2>3, <2>5 DEF a
<1>9. \E U : i \in Seq(U)
  BY <1>7, <1>8, SeqOfDomain
<1>10. /\ t = [insp |-> i, table |-> [s.table EXCEPT ![h] = k], requests |-> s.requests, sent |-> s.sent]
  <2> DEFINE a == Append(old, x)
  <2>1. a[k] = x
    BY <1>7
  <2>0. o = [s EXCEPT !.insp = a]
    OBVIOUS
  <2> DEFINE r == [o EXCEPT !.table[h] = k]
  <2> HIDE DEF a, o, k
  <2>2. o = [insp |-> a, table |-> s.table, requests |-> s.requests, sent |-> s.sent]
    BY <1>0, <2>0
  <2>3. r = [insp |-> a, table |-> [s.table EXCEPT ![h] = k], requests |-> s.requests,
             sent |-> s.sent]
    BY <2>2
  <2>4. t = [r EXCEPT !.insp[k].handle = h]
    OBVIOUS
  <2> HIDE DEF r, t
  <2>5. t = [insp |-> [a EXCEPT ![k] = [a[k] EXCEPT !.handle = h]],
             table |-> [s.table EXCEPT ![h] = k], requests |-> s.requests, sent |-> s.sent]
    BY <2>3, <2>4
  <2>6. t = [insp |-> [a EXCEPT ![k] = y],
             table |-> [s.table EXCEPT ![h] = k], requests |-> s.requests, sent |-> s.sent]
    BY <2>1, <2>5, <1>6
  <2> QED
    BY <2>6 DEF a
<1> HIDE DEF i, o
<1>11. h # NoHandle
  BY InspServerAssumption DEF NoHandle
<1>12. \A m \in DOMAIN s.insp : m \in 1 .. k /\ m # k
  BY <1>2
<1>13. DOMAIN i = 1 .. k /\ \A m \in 1 .. k : m = k \/ m \in DOMAIN s.insp
  BY <1>2, <1>8
<1> HIDE DEF k
<1>14. \A m \in 1 .. k :
         IsInspector(i[m]) /\ (i[m].state = "running" => i[m].handle # NoHandle)
  <2>1. ASSUME NEW m \in DOMAIN s.insp
        PROVE  IsInspector(i[m]) /\ (i[m].state = "running" => i[m].handle # NoHandle)
    <3>1. i[m] = old[m] /\ IsInspector(old[m]) /\ old[m].state = s.insp[m].state
          /\ old[m].handle = s.insp[m].handle
      BY <2>1, <1>3, <1>8
    <3>2. s.insp[m].state = "running" => s.insp[m].handle # NoHandle
      BY <2>1 DEF ServerOK
    <3> QED
      BY <3>1, <3>2
  <2>2. IsInspector(i[k]) /\ (i[k].state = "running" => i[k].handle # NoHandle)
    BY <1>6, <1>8, <1>11
  <2> QED
    BY <2>1, <2>2, <1>13
<1>15. k \in 1 .. k
  BY <1>2 DEF k
<1>16. [s.table EXCEPT ![h] = k] \in [Handles -> {None} \cup DOMAIN i]
  BY <1>12, <1>13, <1>15 DEF ServerOK
<1>17. \A r \in s.requests : r.insp \in DOMAIN i /\ i[r.insp].handle # NoHandle
  BY <1>3, <1>8, <1>12, <1>13 DEF ServerOK
<1>18. Kept(s, [insp |-> i, table |-> [s.table EXCEPT ![h] = k], requests |-> s.requests, sent |-> s.sent])
  BY <1>9, <1>12, <1>13, <1>14, <1>16, <1>17 DEF Kept, ServerOK, Fields
<1> QED
  BY <1>10, <1>18
     DEF suscan_local_analyzer_register_inspector, suscan_inspector_factory_open,
         o, x, old, k

LEMMA OPEN_Kept ==
  ASSUME NEW s, NEW m, ServerOK(s), NEW h \in Handles
  PROVE  Kept(s, cb_OPEN(s, m, h).srv)
<1> DEFINE parent == suscan_local_analyzer_acquire_inspector(s, m.handle)
           opened == suscan_local_analyzer_register_inspector(
              suscan_inspector_factory_open(s, parent, m.args.class_name),
              Len(s.insp) + 1, h)
<1>1. cb_OPEN(s, m, h).srv \in {s, opened}
  BY Answers DEF cb_OPEN
<1>2. Kept(s, opened)
  BY OpenedKept
<1> HIDE DEF opened
<1> QED
  BY <1>1, <1>2 DEF Kept

LEMMA OutputKept ==
  ASSUME NEW s, NEW t, Kept(s, t), NEW m
  PROVE  Kept(s, Output(t, m))
<1>1. \E q : Output(t, m) = [t EXCEPT !.sent = q]
  BY DEF Output
<1> QED
  BY <1>1, SentKept DEF Kept

LEMMA MessageKept ==
  ASSUME NEW s, NEW m, ServerOK(s), NEW h,
         m.kind = "OPEN" => h \in Handles
  PROVE  Kept(s, suscan_local_analyzer_parse_inspector_msg(s, m, h).srv)
<1> DEFINE served == IF m.kind \in Kinds THEN suscan_insp_server_init(s, m, h)
                     ELSE Refused(s, m, "WRONG_KIND")
<1>1. Kept(s, served.srv)
  <2>1. CASE m.kind \notin Kinds
    BY <2>1, Answers DEF Kept
  <2>2. CASE m.kind \in Kinds
    <3>1. \/ served \in SETTINGS(s, m)
          \/ served \in {cb_SET_FREQ(s, m), cb_SET_BANDWIDTH(s, m)}
          \/ served = cb_CLOSE(s, m)
          \/ m.kind = "OPEN" /\ served = cb_OPEN(s, m, h)
      BY <2>2 DEF Kinds, suscan_insp_server_init, SETTINGS
    <3> HIDE DEF served
    <3> QED
      BY <3>1, SettingsKept, RequestsKept, CLOSE_Kept, OPEN_Kept
  <2> QED
    BY <2>1, <2>2
<1>2. \/ suscan_local_analyzer_parse_inspector_msg(s, m, h).srv = served.srv
      \/ suscan_local_analyzer_parse_inspector_msg(s, m, h).srv
           = Output(served.srv, served.msg)
  BY DEF suscan_local_analyzer_parse_inspector_msg
<1> HIDE DEF served
<1> QED
  BY <1>1, <1>2, OutputKept

\* The program holds an inspector only between acquiring it and its request.
RequestInv ==
  /\ ServerOK(srv)
  /\ main.at = "submit" => main.insp \in DOMAIN srv.insp
  /\ main \in [at : {main.at}, call : {main.call}, insp : {main.insp}]

LEMMA RequestStep ==
  ASSUME RequestInv, LocalNext
  PROVE  RequestInv'
<1>1. ASSUME Kept(srv, srv'), UNCHANGED main PROVE RequestInv'
  BY <1>1 DEF RequestInv, Kept
<1>2. ASSUME UNCHANGED srv, main'.at # "submit",
             main' \in [at : {main'.at}, call : {main'.call}, insp : {main'.insp}]
      PROVE RequestInv'
  BY <1>2 DEF RequestInv
<1>3. CASE UNCHANGED <<srv, main>>
  BY <1>3 DEF RequestInv
<1>4. CASE AcquireInspector
  <2> DEFINE n == suscan_local_analyzer_acquire_inspector(srv, Call.handle)
  <2>1. /\ UNCHANGED srv
        /\ main' = IF n = None THEN main
                   ELSE [at |-> "submit", call |-> Call, insp |-> n]
    BY <1>4 DEF AcquireInspector
  <2>2. n \in {None} \cup DOMAIN srv.insp
    BY TableLeadsThere DEF RequestInv
  <2> HIDE DEF n
  <2> QED
    BY <2>1, <2>2 DEF RequestInv
<1>5. CASE SubmitRequest
  <2>1. /\ main.insp \in DOMAIN srv.insp
        /\ srv' = Submit(srv, main.insp, main.call.type, main.call.value)
        /\ main' = [at |-> "idle", call |-> [type |-> "NONE"], insp |-> None]
    BY <1>5 DEF SubmitRequest, RequestInv
  <2>2. Kept(srv, srv')
    BY <2>1, SubmitKept DEF RequestInv
  <2> QED
    BY <2>1, <2>2 DEF RequestInv, Kept
<1>6. CASE ServeInspector
  <2> DEFINE m == Received(Head(mq_in).msg)
  <2>1. PICK h \in IF m.kind = "OPEN" THEN FreeHandles(srv) ELSE {NoHandle} :
          srv' = suscan_local_analyzer_parse_inspector_msg(srv, m, h).srv
    BY <1>6 DEF ServeInspector
  <2>2. m.kind = "OPEN" => h \in Handles
    BY DEF FreeHandles
  <2>3. UNCHANGED main
    BY <1>6 DEF ServeInspector
  <2> HIDE DEF m
  <2> QED
    BY <2>1, <2>2, <2>3, <1>1, MessageKept DEF RequestInv
<1>7. CASE ReadChannel
  <2>0. UNCHANGED main /\ ServerOK(srv)
    BY <1>7 DEF ReadChannel, RequestInv
  <2>1. CASE srv' = [srv EXCEPT !.requests = {}]
    <3>1. /\ srv'.insp = srv.insp /\ srv'.table = srv.table /\ srv'.requests = {}
          /\ srv' = [insp |-> srv.insp, table |-> srv.table, requests |-> {}, sent |-> srv.sent]
      BY <2>0, <2>1 DEF ServerOK, Fields
    <3>2. Kept(srv, srv')
      BY <2>0, <3>1 DEF Kept, ServerOK, Fields
    <3> QED
      BY <2>0, <3>2, <1>1
  <2>2. ASSUME NEW n \in DOMAIN srv.insp, NEW st \in {"halting", "halted"},
               srv' = [srv EXCEPT !.insp[n].state = st]
        PROVE  RequestInv'
    <3> DEFINE x == [srv.insp[n] EXCEPT !.state = st]
    <3>1. IsInspector(x) /\ x.state = st /\ x.handle = srv.insp[n].handle
      BY <2>0, <2>2 DEF IsInspector, ServerOK, Fields
    <3>2. srv' = [srv EXCEPT !.insp[n] = x]
      BY <2>2
    <3> HIDE DEF x
    <3>3. Kept(srv, srv')
      BY <2>0, <2>2, <3>1, <3>2, KeptOne
    <3> QED
      BY <2>0, <3>3, <1>1
  <2> QED
    BY <1>7, <2>1, <2>2 DEF ReadChannel
<1>8. ASSUME \/ suscan_local_analyzer_write \/ SlowCall
             \/ suscan_local_analyzer_set_iq_reverse
             \/ suscan_analyzer_req_halt \/ suscan_analyzer_read
      PROVE RequestInv'
  BY <1>8, <1>3 DEF suscan_local_analyzer_write, SlowCall,
     suscan_local_analyzer_set_iq_reverse, suscan_analyzer_req_halt,
     suscan_analyzer_read
<1>9. ASSUME CopySweep \/ StoreSweep \/ RequestSweep PROVE RequestInv'
  BY <1>9, <1>2, <1>3 DEF CopySweep, StoreSweep, RequestSweep,
     At, RequestInv
<1>10. ASSUME suscan_analyzer_destroy \/ Destroying PROVE RequestInv'
  <2>1. UNCHANGED srv
    BY <1>10 DEF suscan_analyzer_destroy, Destroying, AwaitHalt,
       JoinThread, suscan_analyzer_halt_worker, ConsumeUntilHalt,
       DestroyWorker
  <2>2. CASE suscan_analyzer_destroy
    BY <2>1, <2>2, <1>2 DEF suscan_analyzer_destroy, At, RequestInv
  <2>3. CASE AwaitHalt \/ ConsumeUntilHalt
    BY <2>1, <2>3, <1>2 DEF AwaitHalt, ConsumeUntilHalt, At, RequestInv
  <2>4. CASE JoinThread \/ suscan_analyzer_halt_worker
    BY <2>1, <2>4, <1>2 DEF JoinThread, suscan_analyzer_halt_worker,
       At, RequestInv
  <2>5. CASE DestroyWorker
    <3>1. \/ main' = [main EXCEPT !.at = "gone"]
          \/ main' = [main EXCEPT !.at = "halt", !.insp = "slow"]
      BY <2>5 DEF DestroyWorker, At
    <3> QED
      BY <2>1, <3>1, <1>2 DEF RequestInv
  <2> QED
    BY <1>10, <2>2, <2>3, <2>4, <2>5 DEF Destroying
<1>11. ASSUME \/ PushSource \/ Greet \/ ServeHalt \/ ServeSeek
              \/ ServeThrottle \/ ServeParams \/ ServeGetParams
              \/ suscan_local_analyzer_wait_for_halt \/ EndThread
       PROVE RequestInv'
  BY <1>11, <1>3 DEF PushSource, Greet, ServeHalt,
     ServeSeek, ServeThrottle, ServeParams,
     ServeGetParams, suscan_local_analyzer_wait_for_halt, EndThread
<1>12. ASSUME \/ Sweeping \/ EndWide \/ EndChannel
              \/ SlowCallback
              \/ \E w \in DOMAIN wk : HaltWorker(w) \/ AckHalt(w)
       PROVE RequestInv'
  BY <1>12, <1>3 DEF Sweeping, TakeSweep, ClearSweep,
     ReadWide, EndWide, EndChannel,
     EndOfStream, SlowCallback, HaltWorker, AckHalt
<1> QED
  BY <1>4, <1>5, <1>6, <1>7, <1>8, <1>9, <1>10, <1>11, <1>12
     DEF LocalNext, Program, GoOn, Thread

\* No request waits for an inspector that the analyzer thread has closed, although
\* suscan_local_analyzer_set_inspector_freq_slow acquires the inspector first and
\* submits later, with CLOSE in between.
THEOREM RequestsAreOfOpenInspectors ==
  LocalSpec => []NoLateRequest
<1>1. LocalInit => RequestInv
  BY EmptySeq DEF LocalInit, RequestInv, ServerOK, Fields, NoInspectors
<1>2. RequestInv /\ [LocalNext]_local_vars => RequestInv'
  <2>1. RequestInv /\ UNCHANGED local_vars => RequestInv'
    BY DEF local_vars, RequestInv
  <2> QED
    BY <2>1, RequestStep
<1>3. RequestInv => NoLateRequest
  BY DEF RequestInv, ServerOK, NoLateRequest, Registered
<1> QED
  BY <1>1, <1>2, <1>3, PTL DEF LocalSpec

=============================================================================
