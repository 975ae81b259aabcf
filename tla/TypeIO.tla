------------------------------- MODULE TypeIO -------------------------------
(***************************************************************************)
(* The conversions between a Datum and its transport form in the backend   *)
(* (plc_typeio.c): fill_type_info chooses them for a SQL type,             *)
(* plc_datum_as_* turn an argument into what the codec sends, and          *)
(* plc_datum_from_* turn a received result into a Datum.                   *)
(*                                                                         *)
(* A SQL type is [k |-> kind]; an array adds elem, a row type adds name    *)
(* and atts, the columns [name, dropped, type] with the dropped ones still *)
(* in place, as in a tuple descriptor; of those it still says whether a    *)
(* Datum holds the value (byval) or points to it.  A Datum is tagged like  *)
(* a transport value; <<"num", n, tail>> is a numeric whose tail no float8 *)
(* can hold, <<"array", dims, elements>> an array and <<"row", values>> a  *)
(* tuple.                                                                  *)
(***************************************************************************)
EXTENDS MessageCodec

\* The infunc of a dropped column: memset left a NULL pointer there, and
\* calling it takes the backend down.
Crash == <<"crash">>

KindOf == [bool |-> "INT1", int2 |-> "INT2", int4 |-> "INT4", int8 |-> "INT8",
           float4 |-> "FLOAT4", float8 |-> "FLOAT8", numeric |-> "FLOAT8",
           bytea |-> "BYTEA"]

\* plcTypeInfo.  ptr tells the _ptr variant of the infunc; k is what tells the
\* numeric and the text conversions apart.
Info(type, name, t, ptr, sub) ==
    [type |-> type, name |-> name, k |-> t, ptr |-> ptr, sub |-> sub,
     dropped |-> FALSE]
DroppedInfo(name, byval) ==
    [type |-> "INVALID", name |-> name, k |-> Null, ptr |-> FALSE, sub |-> <<>>,
     dropped |-> TRUE, byval |-> byval]

plc_get_datatype_from_oid(t) ==
    IF t.k \in DOMAIN KindOf THEN KindOf[t.k] ELSE "TEXT"

RECURSIVE fill_type_info_inner(_, _, _)
fill_type_info_inner(t, isArrayElement, isUDTElement) ==
    CASE t.k = "array" /\ ~isArrayElement ->
            Info("ARRAY", NoStr, t, FALSE,
                 << fill_type_info_inner(t.elem, TRUE, isUDTElement) >>)
      [] t.k = "row" /\ ~isUDTElement ->
            Info("UDT", t.name, t, isArrayElement,
                 [i \in 1..Len(t.atts) |->
                    IF t.atts[i].dropped THEN DroppedInfo(t.atts[i].name, t.atts[i].byval)
                    ELSE [fill_type_info_inner(t.atts[i].type, FALSE, TRUE)
                            EXCEPT !.name = t.atts[i].name]])
      [] OTHER ->
            Info(plc_get_datatype_from_oid(t), NoStr, t,
                 isArrayElement
                   /\ plc_get_datatype_from_oid(t) \in {"BYTEA", "TEXT"}, <<>>)
fill_type_info(t) == fill_type_info_inner(t, FALSE, FALSE)

\* fill_type_info raises an error for a domain, wherever it stands.
RECURSIVE Unsupported(_)
Unsupported(info) ==
    \/ ~info.dropped /\ info.k.k = "domain"
    \/ \E i \in 1..Len(info.sub) : Unsupported(info.sub[i])

LiveSub(info) == SelectSeq(info.sub, LAMBDA x : ~x.dropped)

RECURSIVE copy_type_info(_)
copy_type_info(info) ==
    Type(info.type, info.name,
         [i \in 1..Len(LiveSub(info)) |-> copy_type_info(LiveSub(info)[i])])

-----------------------------------------------------------------------------
(* Datum to transport *)

\* typoutput and typinput: a text datum is its own text, any other its image.
OutputText(d) == IF d[1] = "s" THEN d[2] ELSE << <<"image", d>> >>
InputText(t, c) == IF t.k = "text" THEN <<"s", c>> ELSE c[1][2]

\* How the server stores an array: a null bitmap, eight elements to a byte and
\* absent when there is no NULL, and the values of the other elements, packed.
HasBitmap(d) == \E i \in 1..Len(d[3]) : d[3][i] = Null
Bitmap(d) == [b \in 0..(Len(d[3]) \div 8) |->
                {m \in 0..7 : /\ 8 * b + m < Len(d[3])
                              /\ d[3][8 * b + m + 1] # Null}]
Packed(d) == SelectSeq(d[3], LAMBDA e : e # Null)

\* Variant: the position in the data moves past NULL elements too.
AdvancesPastNull(d, p) ==
    LET isnull == HasBitmap(d) /\ p.bit \notin Bitmap(d)[p.byte]
    IN  [next |-> IF isnull \/ p.data > Len(Packed(d)) THEN Null
                  ELSE Packed(d)[p.data],
         data |-> p.data + 1,
         byte |-> IF p.bit = 7 THEN p.byte + 1 ELSE p.byte,
         bit |-> IF p.bit = 7 THEN 0 ELSE p.bit + 1]

plc_backend_array_next(d, p) ==
    LET isnull == HasBitmap(d) /\ p.bit \notin Bitmap(d)[p.byte]
    IN  [next |-> IF isnull THEN Null ELSE Packed(d)[p.data],
         data |-> IF isnull THEN p.data ELSE p.data + 1,
         byte |-> IF HasBitmap(d) /\ p.bit = 7 THEN p.byte + 1 ELSE p.byte,
         bit |-> IF ~HasBitmap(d) THEN p.bit ELSE (p.bit + 1) % 8]

RECURSIVE plc_datum_as(_, _)
plc_datum_as_array(info, d) ==
    LET walk == FoldLeft(LAMBDA a, i :
                    LET p == plc_backend_array_next(d, a.p)
                    IN  [p |-> p,
                         out |-> Append(a.out, plc_datum_as(info.sub[1], p.next))],
                    [p |-> [next |-> Null, data |-> 1, byte |-> 0, bit |-> 0],
                     out |-> <<>>],
                    [i \in 1..SizeOf(d[2]) |-> i])
    IN  <<"iter", d[2], walk.out>>

plc_datum_as_udt(info, d) ==
    LET live == SelectSeq([i \in 1..Len(info.sub) |-> i],
                          LAMBDA i : ~info.sub[i].dropped)
    IN  <<"udt", [j \in 1..Len(live) |->
                    plc_datum_as(info.sub[live[j]], d[2][live[j]])]>>

\* The outfunc of the type; a NULL is not handed to it.
plc_datum_as(info, d) ==
    CASE d = Null -> Null
      [] d # Null /\ info.k.k = "numeric" -> <<"f", d[2]>>
      [] d # Null /\ info.k.k # "numeric" /\ info.type \in Numbers -> d
      [] d # Null /\ info.type = "BYTEA" -> d
      [] d # Null /\ info.type = "TEXT" -> <<"s", OutputText(d)>>
      [] d # Null /\ info.type = "ARRAY" -> plc_datum_as_array(info, d)
      [] d # Null /\ info.type = "UDT" -> plc_datum_as_udt(info, d)

-----------------------------------------------------------------------------
(* Transport to Datum *)

\* construct_md_array: no element at all makes the empty array.
construct_md_array(dims, elems) ==
    IF SizeOf(dims) = 0 THEN <<"array", <<>>, <<>>>> ELSE <<"array", dims, elems>>

\* What heap_form_tuple may find where nothing was stored for a dropped column:
\* a null flag, a value, or a pointer that takes the backend down.
Leftovers(info) ==
    LET row == IF info.type = "ARRAY" THEN info.sub[1] ELSE info
        gone == {i \in 1..Len(row.sub) : row.sub[i].dropped}
    IN  {mem \in [gone -> {Null, <<"i", Junk>>, Crash}] :
            \A i \in gone : row.sub[i].byval => mem[i] # Crash}

RECURSIVE plc_datum_from(_, _, _)
plc_datum_from_array(info, v, mem) ==
    construct_md_array(v[2], [i \in 1..Len(v[3]) |->
        IF v[3][i] = Null THEN Null ELSE plc_datum_from(info.sub[1], v[3][i], mem)])

\* The j-th value received belongs to the i-th column, the j-th of those not
\* dropped.  Its conversion is looked up under j, not under i.  The places of
\* the dropped columns in values and nulls are never written: mem is what
\* palloc found there.
plc_datum_from_udt(info, v, mem) ==
    LET live(i) == Len(SelectSeq(SubSeq(info.sub, 1, i), LAMBDA x : ~x.dropped))
    IN  <<"row", [i \in 1..Len(info.sub) |->
            IF info.sub[i].dropped THEN mem[i]
            ELSE IF v[2][live(i)] = Null THEN Null
            ELSE plc_datum_from(info.sub[live(i)], v[2][live(i)], mem)]>>

\* The infunc of the type.
plc_datum_from(info, w, mem) ==
    LET v == IF info.ptr THEN w[2] ELSE w
    IN  CASE info.dropped -> Crash
          [] ~info.dropped /\ info.k.k = "numeric" -> <<"num", v[2], 0>>
          [] ~info.dropped /\ info.k.k = "bool" -> <<"i", IF v[2] = 0 THEN 0 ELSE 1>>
          [] ~info.dropped /\ info.k.k \notin {"numeric", "bool"} /\ info.type \in Numbers -> v
          [] ~info.dropped /\ info.type = "BYTEA" -> v
          [] ~info.dropped /\ info.type = "TEXT" -> InputText(info.k, v[2])
          [] ~info.dropped /\ info.type = "ARRAY" -> plc_datum_from_array(info, v, mem)
          [] ~info.dropped /\ info.type = "UDT" -> plc_datum_from_udt(info, v, mem)

\* A NULL conversion function was called, or a wild pointer followed.
RECURSIVE Crashed(_)
Crashed(d) ==
    \/ d = Crash
    \/ d[1] = "array" /\ \E i \in 1..Len(d[3]) : Crashed(d[3][i])
    \/ d[1] = "row" /\ \E i \in 1..Len(d[2]) : Crashed(d[2][i])
=============================================================================
