-------------------------------- MODULE Cbor --------------------------------
(***************************************************************************)
(* The CBOR coder of util/cbor.c and the compact arrays of                 *)
(* analyzer/serialize.c.  A buffer is a sequence of bytes.  A header byte  *)
(* is type * 32 + additional, as MKTYPE builds it; a data byte holds a     *)
(* digit in base Byte.  Byte is 256 in the program: a smaller base makes   *)
(* the wide encodings appear at numbers TLC can hold, and changes nothing  *)
(* else.  An unpacker takes a buffer and the bytes already consumed, and   *)
(* returns whether it succeeded, the value and the bytes consumed then.    *)
(* A float is the integer its bits stand for.                              *)
(***************************************************************************)
EXTENDS Integers, Sequences, SequencesExt, TLC

CONSTANT Byte        \* values of a data byte

\* A byte can hold every small number that does not fit in the header byte.
ASSUME ByteAssumption == Byte \in Nat /\ Byte > 24

\* Major types and additional information.
CMT_UINT  == 0
CMT_NINT  == 1
CMT_BYTE  == 2
CMT_TEXT  == 3
CMT_ARRAY == 4
CMT_MAP   == 5
CMT_FLOAT == 7

ADDL_UINT8  == 24
ADDL_UINT16 == 25
ADDL_UINT32 == 26
ADDL_UINT64 == 27
ADDL_INDEF  == 31
ADDL_NO     == 20
ADDL_YES    == 21

\* An array or map whose end is marked by a break.
UNKNOWN_NELEM == -1

\* The absent string (a null pointer), which no buffer holds.
NullStr == <<-1>>

----------------------------------------------------------------------------
(***************************************************************************)
(* Packing.                                                                *)
(***************************************************************************)

\* op(v); TLC evaluates v only once.
Applied(op(_), v) == CHOOSE r \in {op(x) : x \in {v}} : TRUE

\* op over the elements of a sequence from the left, linear in its length.
Reduce(op(_, _), base, s) ==
  Applied(LAMBDA l : LET f[i \in 0..Len(l)] ==
                           IF i = 0 THEN base ELSE Applied(LAMBDA r : op(r, l[i]), f[i - 1])
                     IN f[Len(l)],
          s)

\* The n bytes of v, the most significant first.
cpu_to_be(v, n) ==
  LET rest[k \in 0..n] == IF k = 0 THEN v ELSE rest[k - 1] \div Byte
  IN [i \in 1..n |-> rest[n - i] % Byte]

MKTYPE(type, additional) == type * 32 + additional

\* The additional information that announces so many bytes.
Addl == (1 :> ADDL_UINT8 @@ 2 :> ADDL_UINT16 @@ 4 :> ADDL_UINT32 @@ 8 :> ADDL_UINT64)

\* Mutant: the first number that needs a byte of its own does not get it.
PackTypeOffByOne(type, n) ==
  LET size == CASE n < Byte   -> 1 [] n < Byte^2 -> 2
                [] n < Byte^4 -> 4 [] OTHER      -> 8
  IN IF n <= 24 THEN <<MKTYPE(type, n)>>
                ELSE <<MKTYPE(type, Addl[size])>> \o cpu_to_be(n, size)

pack_cbor_type(type, n) ==
  LET size == CASE n < Byte   -> 1 [] n < Byte^2 -> 2
                [] n < Byte^4 -> 4 [] OTHER      -> 8
  IN IF n <= 23 THEN <<MKTYPE(type, n)>>
       ELSE Applied(LAMBDA k : <<MKTYPE(type, Addl[k])>> \o cpu_to_be(n, k), size)

cbor_pack_single(v) == <<MKTYPE(CMT_FLOAT, ADDL_UINT32)>> \o cpu_to_be(v, 4)

cbor_pack_double(v) == <<MKTYPE(CMT_FLOAT, ADDL_UINT64)>> \o cpu_to_be(v, 8)

cbor_pack_uint(v) == pack_cbor_type(CMT_UINT, v)

\* A negative number carries its magnitude, not -1 - v as in the standard.
cbor_pack_int(v) ==
  IF v < 0 THEN pack_cbor_type(CMT_NINT, -v) ELSE cbor_pack_uint(v)

cbor_pack_blob(data) == pack_cbor_type(CMT_BYTE, Len(data)) \o data

cbor_pack_str(str) ==
  IF str = NullStr THEN pack_cbor_type(CMT_TEXT, 0)
                   ELSE pack_cbor_type(CMT_TEXT, Len(str)) \o str

cbor_pack_bool(b) ==
  pack_cbor_type(CMT_FLOAT, IF b THEN ADDL_YES ELSE ADDL_NO)

cbor_pack_array_start(nelem) ==
  IF nelem = UNKNOWN_NELEM THEN <<MKTYPE(CMT_ARRAY, ADDL_INDEF)>>
                           ELSE pack_cbor_type(CMT_ARRAY, nelem)

cbor_pack_map_start(npairs) ==
  IF npairs = UNKNOWN_NELEM THEN <<MKTYPE(CMT_MAP, ADDL_INDEF)>>
                            ELSE pack_cbor_type(CMT_MAP, npairs)

\* The size first; the bytes only when there are any.
suscan_pack_compact_single_array(array) ==
  cbor_pack_uint(Len(array))
    \o IF array = <<>> THEN <<>>
       ELSE cbor_pack_blob(FlattenSeq([i \in DOMAIN array |->
                                         cpu_to_be(array[i], 4)]))

\* A complex array is the array of its components.
suscan_pack_compact_complex_array(array) ==
  suscan_pack_compact_single_array(FlattenSeq(array))

----------------------------------------------------------------------------
(***************************************************************************)
(* Unpacking.  A failure consumes nothing.                                 *)
(***************************************************************************)

Failure == [ok |-> FALSE, v |-> 0, at |-> 0]

Success(v, at) == [ok |-> TRUE, v |-> v, at |-> at]

\* The unpacker goes on with what it read, unless it failed.
Then(r, next(_)) == Applied(LAMBDA x : IF x.ok THEN next(x) ELSE Failure, r)

\* The next n bytes.
Bytes(b, at, n) == SubSeq(b, at + 1, at + n)

be_to_cpu(bytes) == Reduce(LAMBDA a, d : a * Byte + d, 0, bytes)

\* The type byte, without consuming it.
cbor_peek_type(b, at) ==
  IF at < Len(b)
    THEN [ok |-> TRUE, type |-> b[at + 1] \div 32, extra |-> b[at + 1] % 32]
    ELSE [ok |-> FALSE, type |-> 8, extra |-> 0]

Number(b, at, size) ==
  IF Len(b) - at < size THEN Failure
    ELSE Success(be_to_cpu(Bytes(b, at, size)), at + size)

\* 1, 2, 4 or 8 bytes from UINT8 to UINT64.
get_addl_bytes(b, at, extra) ==
  CASE extra < ADDL_UINT8  -> Success(extra, at)
    [] extra > ADDL_UINT64 -> Failure
    [] OTHER               -> Number(b, at, 2 ^ (extra - ADDL_UINT8))

unpack_cbor_int(b, at, type) ==
  Applied(LAMBDA h : IF h.ok /\ h.type = type THEN get_addl_bytes(b, at + 1, h.extra)
                                              ELSE Failure,
          cbor_peek_type(b, at))

cbor_unpack_uint(b, at) == unpack_cbor_int(b, at, CMT_UINT)

\* A positive number, or else a negative one.
cbor_unpack_int(b, at) ==
  LET negative == cbor_peek_type(b, at).type = CMT_NINT
  IN Then(unpack_cbor_int(b, at, IF negative THEN CMT_NINT ELSE CMT_UINT),
          LAMBDA n : Success(IF negative THEN -n.v ELSE n.v, n.at))

\* An empty blob succeeds without moving on.
cbor_unpack_blob(b, at) ==
  Then(unpack_cbor_int(b, at, CMT_BYTE),
       LAMBDA n : CASE n.v > Len(b) - n.at -> Failure
                    [] n.v = 0 -> Success(<<>>, at)
                    [] OTHER   -> Success(Bytes(b, n.at, n.v), n.at + n.v))

\* Mutant: the length is not checked against what the buffer holds.
UnpackStrUnbounded(b, at) ==
  Then(unpack_cbor_int(b, at, CMT_TEXT),
       LAMBDA n : LET end == IF n.at + n.v < Len(b) THEN n.at + n.v ELSE Len(b)
                  IN Success(SubSeq(b, n.at + 1, end), end))

cbor_unpack_str(b, at) ==
  Then(unpack_cbor_int(b, at, CMT_TEXT),
       LAMBDA n : IF n.v > Len(b) - n.at THEN Failure
                    ELSE Success(Bytes(b, n.at, n.v), n.at + n.v))

\* The type byte of a float that has one of these sizes.
unpack_cbor_float(b, at, sizes) ==
  Applied(LAMBDA h : IF h.ok /\ h.type = CMT_FLOAT /\ h.extra \in sizes
                       THEN Success(h.extra, at + 1) ELSE Failure,
          cbor_peek_type(b, at))

\* cbor_unpack_single and cbor_unpack_double, by the type of the number.
cbor_unpack_number(t, b, at) ==
  LET size == IF t = "float" THEN 4 ELSE 8
  IN Then(unpack_cbor_float(b, at, {Addl[size]}), LAMBDA h : Number(b, h.at, size))

cbor_unpack_bool(b, at) ==
  Then(unpack_cbor_float(b, at, {ADDL_NO, ADDL_YES}),
       LAMBDA h : Success(h.v = ADDL_YES, h.at))

\* The callers refuse arrays and maps of indefinite length, for which the
\* end would be required.
unpack_cbor_arraymap_start(b, at, type) ==
  IF cbor_peek_type(b, at).extra # ADDL_INDEF THEN unpack_cbor_int(b, at, type)
                                              ELSE Failure

cbor_unpack_array_start(b, at) == unpack_cbor_arraymap_start(b, at, CMT_ARRAY)

cbor_unpack_map_start(b, at) == unpack_cbor_arraymap_start(b, at, CMT_MAP)

Singles(d, n) ==
  IF Len(d.v) # n * 4 THEN Failure
    ELSE Success([i \in 1..n |-> be_to_cpu(SubSeq(d.v, 4 * i - 3, 4 * i))], d.at)

\* The blob must hold exactly the announced number of singles.
suscan_unpack_compact_single_array(b, at) ==
  Then(cbor_unpack_uint(b, at),
       LAMBDA n : IF n.v = 0 THEN Success(<<>>, n.at)
                    ELSE Then(cbor_unpack_blob(b, n.at), LAMBDA d : Singles(d, n.v)))

\* suscan_unpack_compact_complex_array, of an array of singles: an odd
\* number of components is an error.
Complexes(a) ==
  IF Len(a.v) % 2 # 0 THEN Failure
    ELSE Success([i \in 1..(Len(a.v) \div 2) |-> SubSeq(a.v, 2 * i - 1, 2 * i)], a.at)

----------------------------------------------------------------------------
(***************************************************************************)
(* The coders the macros SUSCAN_PACK and SUSCAN_UNPACK name by type, and   *)
(* the narrowing of an integer to the type of its destination.             *)
(***************************************************************************)

Widths == [uint8 |-> 1, uint16 |-> 2, uint32 |-> 4, uint64 |-> 8, int32 |-> 4, int64 |-> 8]

\* Nothing is read that is wider than 64 bits.
Unsigned(r, n) == IF r.ok /\ n < 8 THEN [r EXCEPT !.v = @ % (Byte^n)] ELSE r

Signed(r, n) ==
  LET half == Byte^n \div 2
  IN IF r.ok /\ n < 8 THEN [r EXCEPT !.v = ((@ + half) % (Byte^n)) - half] ELSE r

CborPack(t, v) ==
  CASE t = "uint"    -> cbor_pack_uint(v)
    [] t = "int"     -> cbor_pack_int(v)
    [] t = "str"     -> cbor_pack_str(v)
    [] t = "blob"    -> cbor_pack_blob(v)
    [] t = "bool"    -> cbor_pack_bool(v)
    [] t = "float"   -> cbor_pack_single(v)
    [] t \in {"freq", "double"} -> cbor_pack_double(v)
    [] t = "singles" -> suscan_pack_compact_single_array(v)
    [] t = "complex" -> suscan_pack_compact_complex_array(v)

CborUnpack(t, b, at) ==
  CASE t \in {"uint8", "uint16", "uint32", "uint64"} ->
         Unsigned(cbor_unpack_uint(b, at), Widths[t])
    [] t \in {"int32", "int64"} -> Signed(cbor_unpack_int(b, at), Widths[t])
    [] t = "str"     -> cbor_unpack_str(b, at)
    [] t = "blob"    -> cbor_unpack_blob(b, at)
    [] t = "bool"    -> cbor_unpack_bool(b, at)
    [] t \in {"float", "freq", "double"} -> cbor_unpack_number(t, b, at)
    [] t \in {"singles", "complex"} ->
         Then(suscan_unpack_compact_single_array(b, at),
              LAMBDA a : IF t = "singles" THEN a ELSE Complexes(a))

----------------------------------------------------------------------------
(***************************************************************************)
(* Running a list of fields.  A serializer is the list of its SUSCAN_PACK  *)
(* lines, each <<type, field>>, and a deserializer the list of its         *)
(* SUSCAN_UNPACK lines.  A deserializer runs on a reader: the buffer, what *)
(* is consumed, the fields read so far, whether every step succeeded, and  *)
(* the descriptions of configurations the process has registered.          *)
(***************************************************************************)

\* SUSCAN_PACK, line after line.
Pack(m, fields) ==
  FlattenSeq([i \in DOMAIN fields |->
                CborPack(fields[i][1], m[fields[i][2]])])

\* A reader in front of a buffer.
Reader(b, descs) ==
  [b |-> b, at |-> 0, ok |-> TRUE, m |-> <<>>, descs |-> descs]

\* goto fail: what is left to do is skipped.
Fails(s) == [s EXCEPT !.ok = FALSE]

\* The reader after one unpacker's result r, kept under the name field.
Stores(s, r, field) ==
  IF r.ok THEN [s EXCEPT !.at = r.at, !.m = (field :> r.v) @@ @] ELSE Fails(s)

\* SUSCAN_UNPACK, line after line.
Unpack(s, fields) ==
  Reduce(LAMBDA r, f : IF r.ok THEN Stores(r, CborUnpack(f[1], r.b, r.at), f[2])
                                 ELSE r,
         s, fields)

\* The reader goes on with Read unless it failed.
ReadMore(s, Read(_)) == Applied(LAMBDA r : IF r.ok THEN Read(r) ELSE r, s)

\* SUSCAN_UNPACK with lines that depend on what was read before.
UnpackMore(s, fields(_)) ==
  ReadMore(s, LAMBDA r : Unpack(r, fields(r.m)))

\* A check of what was read.
Check(s, condition(_)) ==
  ReadMore(s, LAMBDA r : IF condition(r.m) THEN r ELSE Fails(r))

Gathered(t, field) == IF t.ok THEN [t EXCEPT !.m[field] = Append(@, t.m.elem)] ELSE t

\* A loop of n iterations over Step, which reads one element into the field
\* "elem"; the elements are gathered in a list.
UnpackMany(s, n, Step(_), field) ==
  Applied(LAMBDA all : [all EXCEPT !.m = [f \in DOMAIN @ \ {"elem"} |-> @[f]]],
    Reduce(LAMBDA r, i : ReadMore(r, LAMBDA q : Applied(LAMBDA t : Gathered(t, field), Step(q))),
           [s EXCEPT !.m = (field :> <<>>) @@ ("elem" :> 0) @@ @],
           [i \in 1..n |-> i]))

=============================================================================
