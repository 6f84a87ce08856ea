------------------------------- MODULE Config -------------------------------
(***************************************************************************)
(* Configurations (util/cfg.c): a description names its fields and their   *)
(* types, a configuration holds one value for each.  Descriptions with a   *)
(* name are registered in a list the process shares; a configuration that  *)
(* arrives from a peer is read with the registered description of that     *)
(* name or, when there is none, with one deduced from the data, which is   *)
(* registered afterwards.                                                  *)
(***************************************************************************)
EXTENDS Cbor

FIELD_TYPE == {"STRING", "INTEGER", "FLOAT", "FILE", "BOOLEAN"}

Field(type, name) == [type |-> type, name |-> name]

suscan_config_desc(global_name, fields) ==
  [global_name |-> global_name, fields |-> fields]

\* The fields of a configuration without a value: calloc'ed unions.
Zero(type) ==
  CASE type \in {"STRING", "FILE"} -> <<>>
    [] type \in {"INTEGER", "FLOAT"} -> 0
    [] type = "BOOLEAN" -> FALSE

suscan_config_new(desc) ==
  [desc |-> desc, values |-> [i \in DOMAIN desc.fields |->
                                [set |-> FALSE, v |-> Zero(desc.fields[i].type)]]]

----------------------------------------------------------------------------
(***************************************************************************)
(* Descriptions and the list of the registered ones.                       *)
(***************************************************************************)

suscan_config_desc_lookup(descs, global_name) ==
  {d \in descs : d.global_name = global_name}

\* A name is registered once: the second attempt fails with EEXIST.
suscan_config_desc_register(descs, desc) ==
  IF suscan_config_desc_lookup(descs, desc.global_name) = {}
    THEN [ok |-> TRUE,  descs |-> descs \union {desc}]
    ELSE [ok |-> FALSE, descs |-> descs]

\* The first field of that name; 0 when there is none.
suscan_config_desc_lookup_field_id(desc, name) ==
  LET ids == {i \in DOMAIN desc.fields : desc.fields[i].name = name}
  IN IF ids = {} THEN 0 ELSE CHOOSE i \in ids : \A j \in ids : i <= j

suscan_config_desc_has_prefix(desc, pfx) ==
  \E i \in DOMAIN desc.fields : IsPrefix(pfx, desc.fields[i].name)

suscan_config_desc_add_field(desc, type, name) ==
  IF suscan_config_desc_lookup_field_id(desc, name) = 0
    THEN [ok |-> TRUE,
          desc |-> [desc EXCEPT !.fields = Append(@, Field(type, name))]]
    ELSE [ok |-> FALSE, desc |-> desc]

----------------------------------------------------------------------------
(***************************************************************************)
(* Values.  Every setter wants the field to exist with exactly its type.   *)
(***************************************************************************)

SetField(cfg, type, name, value, marks) ==
  LET id == suscan_config_desc_lookup_field_id(cfg.desc, name)
  IN IF id # 0 /\ cfg.desc.fields[id].type = type
       THEN [ok |-> TRUE,
             cfg |-> [cfg EXCEPT !.values[id] =
                        [set |-> @.set \/ marks, v |-> value]]]
       ELSE [ok |-> FALSE, cfg |-> cfg]

suscan_config_set_integer(cfg, name, value) ==
  SetField(cfg, "INTEGER", name, value, TRUE)

suscan_config_set_bool(cfg, name, value) ==
  SetField(cfg, "BOOLEAN", name, value, TRUE)

\* The only setter that does not mark the value as set.
suscan_config_set_float(cfg, name, value) ==
  SetField(cfg, "FLOAT", name, value, FALSE)

suscan_config_set_string(cfg, name, value) ==
  SetField(cfg, "STRING", name, value, TRUE)

suscan_config_set_file(cfg, name, value) ==
  SetField(cfg, "FILE", name, value, TRUE)

suscan_config_get_value(cfg, name) ==
  cfg.values[suscan_config_desc_lookup_field_id(cfg.desc, name)]

\* A copy into a new configuration: the values, none marked as set.
suscan_config_dup(config) ==
  [config EXCEPT !.values = [i \in DOMAIN @ |-> [set |-> FALSE, v |-> @[i].v]]]

\* Every value through the setter of its type.
suscan_config_copy(dest, src) ==
  LET set(cfg, f, v) ==
        CASE f.type = "STRING"  -> suscan_config_set_string(cfg, f.name, v)
          [] f.type = "INTEGER" -> suscan_config_set_integer(cfg, f.name, v)
          [] f.type = "FLOAT"   -> suscan_config_set_float(cfg, f.name, v)
          [] f.type = "BOOLEAN" -> suscan_config_set_bool(cfg, f.name, v)
          [] f.type = "FILE"    -> suscan_config_set_file(cfg, f.name, v)
  IN IF dest.desc # src.desc THEN [ok |-> FALSE, cfg |-> dest]
     ELSE Reduce(LAMBDA r, i : IF r.ok THEN set(r.cfg, src.desc.fields[i],
                                                  src.values[i].v)
                                         ELSE r,
                   [ok |-> TRUE, cfg |-> dest],
                   [i \in DOMAIN src.desc.fields |-> i])

----------------------------------------------------------------------------
(***************************************************************************)
(* Configurations on the wire: the name of the description and a map from  *)
(* the names of the fields to their values.                                *)
(***************************************************************************)

WireType(type) ==
  CASE type = "BOOLEAN" -> "bool"
    [] type \in {"FILE", "STRING"} -> "str"
    [] type = "FLOAT"   -> "float"
    [] type = "INTEGER" -> "int"

suscan_config_serialize(self) ==
  cbor_pack_str(self.desc.global_name)
    \o cbor_pack_map_start(Len(self.desc.fields))
    \o FlattenSeq([i \in DOMAIN self.desc.fields |->
         cbor_pack_str(self.desc.fields[i].name)
           \o CborPack(WireType(self.desc.fields[i].type), self.values[i].v)])

\* The type of a field, and the coder of its value, from a type byte.
DeducedType(h) ==
  CASE h.type \in {CMT_NINT, CMT_UINT} -> "INTEGER"
    [] h.type = CMT_TEXT -> "STRING"
    [] h.type = CMT_FLOAT /\ h.extra \in {ADDL_NO, ADDL_YES} -> "BOOLEAN"
    [] h.type = CMT_FLOAT /\ h.extra = ADDL_UINT32 -> "FLOAT"
    [] OTHER -> "NONE"

Coder(type) == CASE type = "INTEGER" -> "int64" [] type = "BOOLEAN" -> "bool"
                 [] type = "FLOAT"   -> "float" [] OTHER            -> "str"

\* A field of the description r is deduced from a name k and what follows.
DeduceField(r, b, k, type) ==
  IF type = "NONE" THEN Failure
    ELSE Then(suscan_config_desc_add_field(r.desc, type, k.v),
              LAMBDA d : Then(CborUnpack(Coder(type), b, k.at),
                              LAMBDA v : [ok |-> TRUE, at |-> v.at, desc |-> d.desc]))

\* The description deduced from a map at position at of buffer b.
suscan_config_desc_populate_from_cbor(desc, b, at) ==
  Then(cbor_unpack_map_start(b, at), LAMBDA n :
    Reduce(LAMBDA r, i :
             Then(r, LAMBDA q :
               Then(cbor_unpack_str(b, q.at), LAMBDA k :
                 DeduceField(q, b, k, DeducedType(cbor_peek_type(b, k.at))))),
           [ok |-> TRUE, at |-> n.at, desc |-> desc], [i \in 1..n.v |-> i]))

\* A value through the setter of its type; a file goes to that of strings.
SetDeserialized(cfg, type, name, value) ==
  CASE type = "BOOLEAN" -> suscan_config_set_bool(cfg, name, value)
    [] type = "FLOAT"   -> suscan_config_set_float(cfg, name, value)
    [] type = "INTEGER" -> suscan_config_set_integer(cfg, name, value)
    [] OTHER            -> suscan_config_set_string(cfg, name, value)

TypeOf(desc, name) == desc.fields[suscan_config_desc_lookup_field_id(desc, name)].type

Stored(r, set) == IF set.ok THEN [r EXCEPT !.m.config = set.cfg] ELSE Fails(r)

\* One field: its name, then its value; a file of a known description is
\* refused by the setter of strings.
DeserializeField(s, desc) ==
  ReadMore(
    UnpackMore(
      Check(Unpack(s, << <<"str", "field_name">> >>),
            LAMBDA m : suscan_config_desc_lookup_field_id(desc, m.field_name) # 0),
      LAMBDA m : << <<Coder(TypeOf(desc, m.field_name)), "value">> >>),
    LAMBDA r : Stored(r, SetDeserialized(r.m.config, TypeOf(desc, r.m.field_name),
                                         r.m.field_name, r.m.value)))

\* The fields of a configuration, which n announces.
DeserializeFields(g, desc, n) ==
  IF ~n.ok THEN Fails(g)
    ELSE Reduce(LAMBDA r, i : ReadMore(r, LAMBDA q : DeserializeField(q, desc)),
                [g EXCEPT !.at = n.at, !.m = ("config" :> suscan_config_new(desc)) @@ @],
                [i \in 1..n.v |-> i])

\* A deduced description is registered at the end.
Registers(r, reg) == [r EXCEPT !.ok = reg.ok, !.descs = reg.descs]

\* A configuration with the description d, which is known or was deduced.
DeserializeBody(g, d, creative) ==
  IF ~d.ok THEN Fails(g)
    ELSE ReadMore(DeserializeFields(g, d.desc, cbor_unpack_map_start(g.b, g.at)),
           LAMBDA r : IF creative
                        THEN Registers(r, suscan_config_desc_register(r.descs, d.desc))
                        ELSE r)

DeserializeKnown(g, known) ==
  Applied(LAMBDA d : DeserializeBody(g, d, known = {}),
    IF known = {} THEN suscan_config_desc_populate_from_cbor(
                         suscan_config_desc(g.m.global_name, <<>>), g.b, g.at)
                  ELSE [ok |-> TRUE, desc |-> CHOOSE d \in known : TRUE])

\* Reads a configuration into the field "config" of the reader.
suscan_config_deserialize(s) ==
  ReadMore(
    ReadMore(
      Check(Unpack(s, << <<"str", "global_name">> >>), LAMBDA m : m.global_name # <<>>),
      LAMBDA g : DeserializeKnown(g, suscan_config_desc_lookup(g.descs, g.m.global_name))),
    LAMBDA r : [r EXCEPT !.m = [f \in DOMAIN @ \ {"global_name", "field_name",
                                                 "value"} |-> @[f]]])

=============================================================================
