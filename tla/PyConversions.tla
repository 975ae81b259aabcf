---------------------------- MODULE PyConversions ----------------------------
(***************************************************************************)
(* The Python client's conversions (pyclient/pyconversions.c) and the way  *)
(* it answers a call with them (process_call_results and fill_rawdata of   *)
(* pycall.c).                                                              *)
(*                                                                         *)
(* A Python object is <<"none">>, <<"int", n>>, <<"float", n>>,            *)
(* <<"str", c>>, <<"bytes", c>>, <<"list", items>>, <<"dict", f>>, f a     *)
(* function from keys, or <<"gen", items, raises>>, a generator that       *)
(* yields the items and then ends or raises an exception; NoObj is the     *)
(* NULL that PySequence_GetItem returns.                                   *)
(***************************************************************************)
EXTENDS TypeIO

None == <<"none">>
NoObj == <<"NULL">>
Err(what) == [t |-> "EXCEPTION", message |-> <<what>>, stacktrace |-> NoStr]

\* What a conversion leaves: its return code, *output, and the error it raised.
Converted(v) == [ok |-> TRUE, v |-> v, err |-> NoMsg]
Failed(v, what) == [ok |-> FALSE, v |-> v, err |-> Err(what)]

-----------------------------------------------------------------------------
(* Transport to Python: the inputfunc of a type *)

RECURSIVE plc_pyobject_from(_, _, _)

\* The cells of one dimension, starting at *ipos, and where they end.
RECURSIVE plc_pyobject_from_array_dim(_, _, _, _)
plc_pyobject_from_array_dim(t, v, dim, ipos) ==
    IF dim > Len(v[2])
    THEN [obj |-> IF v[3][ipos] = Null THEN None
                  ELSE plc_pyobject_from(t, v[3][ipos], TRUE),
          ipos |-> ipos + 1]
    ELSE LET items == FoldLeft(LAMBDA a, i :
                        LET x == plc_pyobject_from_array_dim(t, v, dim + 1, a.ipos)
                        IN  [objs |-> Append(a.objs, x.obj), ipos |-> x.ipos],
                        [objs |-> <<>>, ipos |-> ipos],
                        [i \in 1..v[2][dim] |-> i])
         IN  [obj |-> <<"list", items.objs>>, ipos |-> items.ipos]

plc_pyobject_from_array(t, v) ==
    IF v[2] = <<>> THEN <<"list", <<>>>>
    ELSE plc_pyobject_from_array_dim(t.sub[1], v, 1, 1).obj

plc_pyobject_from_udt(t, v) ==
    <<"dict", [n \in {t.sub[i].name : i \in 1..Len(t.sub)} |->
        LET i == CHOOSE i \in 1..Len(t.sub) : t.sub[i].name = n
        IN  IF v[2][i] = Null THEN None
            ELSE plc_pyobject_from(t.sub[i], v[2][i], FALSE)]>>

\* isArrayElement selects the _ptr variant where there is one.
plc_pyobject_from(t, w, isArrayElement) ==
    LET v == IF isArrayElement /\ t.type \in {"TEXT", "BYTEA", "UDT"}
             THEN w[2] ELSE w
    IN  CASE t.type \in {"INT1", "INT2", "INT4", "INT8"} -> <<"int", v[2]>>
          [] t.type \in {"FLOAT4", "FLOAT8"} -> <<"float", v[2]>>
          [] t.type = "TEXT" -> <<"str", v[2]>>
          [] t.type = "BYTEA" -> <<"bytes", v[2]>>
          [] t.type = "ARRAY" -> plc_pyobject_from_array(t, v)
          [] t.type = "UDT" -> plc_pyobject_from_udt(t, v)

-----------------------------------------------------------------------------
(* Python to transport: the outputfunc of a type *)

\* A C cast to a signed integer of that many bits.
Cast(n, bits) == ((n + 2^(bits - 1)) % 2^bits) - 2^(bits - 1)
Narrow(type, n) ==
    CASE type = "INT1" -> Cast(n, 8) [] type = "INT2" -> Cast(n, 16) [] OTHER -> n

\* plc_pyobject_as_int1 .. as_float8.  The output of a failed one is a fresh
\* malloc; what it holds is never seen, since the error replaces the result.
plc_pyobject_as_number(t, o) ==
    IF o[1] \in {"int", "float"}
    THEN Converted(<<TagOf[t.type], Narrow(t.type, o[2])>>)
    ELSE Failed(<<TagOf[t.type], 0>>, "transforming result object to number")

\* repr() of a float, str() of anything else.
plc_pyobject_as_text(o) ==
    Converted(<<"s", CASE o[1] = "str" -> o[2]
                       [] o[1] = "int" -> <<ToString(o[2])>>
                       [] o[1] = "float" -> <<ToString(o[2]), ".0">>
                       [] o[1] = "bytes" -> <<"b'">> \o o[2] \o <<"'">>
                       [] OTHER -> <<o[1]>> >>)

plc_pyobject_as_bytea(o) ==
    IF o[1] \in {"str", "bytes"} THEN Converted(<<"b", o[2]>>)
    ELSE Failed(Segv, "bytes representation of Python object")

PySequence_Check(o) == o[1] \in {"list", "str", "bytes"}
PyString_Check(o) == o[1] \in {"str", "bytes"}
PySequence_GetItem(o, pos) ==
    CASE o[1] = "list" /\ pos < Len(o[2]) -> o[2][pos + 1]
      [] o[1] = "str" /\ pos < Len(o[2]) -> <<"str", << o[2][pos + 1] >> >>
      [] OTHER -> NoObj

\* The dimensions are those met going down the first items.
RECURSIVE Stack(_)
Stack(o) ==
    IF ~PySequence_Check(o) \/ PyString_Check(o) THEN <<>>
    ELSE <<o>> \o IF Len(o[2]) > 0 THEN Stack(PySequence_GetItem(o, 0)) ELSE <<>>

\* Moving to the next element.  ptrs[p] is the sequence of dimension p and the
\* position in it; a dimension that is done drops its sequence, and dropping
\* the NULL of a missing one is the end of the process.
RECURSIVE Advance(_, _, _)
Advance(ptrs, dims, p) ==
    LET q == [ptrs EXCEPT ![p].pos = @ + 1]
    IN  IF p = 0 THEN [ptrs |-> ptrs, dead |-> FALSE]
        ELSE IF q[p].pos = dims[p]
        THEN IF q[p].obj = NoObj THEN [ptrs |-> q, dead |-> TRUE]
             ELSE Advance([q EXCEPT ![p] = [obj |-> NoObj, pos |-> 0]], dims, p - 1)
        ELSE [ptrs |-> FoldLeft(LAMBDA a, d :
                    [a EXCEPT ![d] = [obj |-> PySequence_GetItem(a[d - 1].obj,
                                                                 a[d - 1].pos),
                                      pos |-> 0]],
                    q, [i \in 1..(Len(dims) - p) |-> p + i]),
              dead |-> FALSE]

RECURSIVE plc_pyobject_as(_, _)
\* st is the state of the iterator; missed tells that an item was not there,
\* which leaves Python's error indicator set.
plc_pyobject_as_array_next(t, dims, st) ==
    LET top == Len(dims)
        obj == PySequence_GetItem(st.ptrs[top].obj, st.ptrs[top].pos)
        c == plc_pyobject_as(t, obj)
        adv == Advance(st.ptrs, dims, top)
        item == CASE obj \in {NoObj, None} -> Null
                  [] obj \notin {NoObj, None} /\ c.ok -> c.v
                  [] OTHER -> <<"raise", c.err, c.v>>
    IN  IF st.dead THEN st
        ELSE [ptrs |-> adv.ptrs, dead |-> adv.dead,
              missed |-> st.missed \/ obj = NoObj,
              out |-> Append(st.out, IF adv.dead THEN Segv ELSE item)]

\* The elements are converted only when they are sent: the fold is what the
\* sender will draw from the iterator.
Drawn(t, o) ==
    LET stack == Stack(o)
        dims == [i \in 1..Len(stack) |-> Len(stack[i][2])]
    IN  FoldLeft(LAMBDA st, i : plc_pyobject_as_array_next(t.sub[1], dims, st),
                 [ptrs |-> [i \in 1..Len(stack) |-> [obj |-> stack[i], pos |-> 0]],
                  dead |-> FALSE, missed |-> FALSE, out |-> <<>>],
                 [i \in 1..SizeOf(dims) |-> i])
plc_pyobject_as_array(t, o) ==
    IF PySequence_Check(o) /\ ~PyString_Check(o)
    THEN Converted(<<"iter", [i \in 1..Len(Stack(o)) |-> Len(Stack(o)[i][2])],
                     Drawn(t, o).out>>)
    ELSE Failed(Segv, "non-sequence object to array")

\* The fields are converted in order up to the first failure; the ones after
\* it stay as malloc left them.
plc_pyobject_as_udt(t, o) ==
    LET field(i) ==
            IF t.sub[i].name \notin DOMAIN o[2] THEN Failed(Null, "cannot find key")
            ELSE LET value == o[2][t.sub[i].name]
                 IN  IF value = None THEN Converted(Null)
                     ELSE plc_pyobject_as(t.sub[i], value)
        bad == {i \in 1..Len(t.sub) : ~field(i).ok}
        first == CHOOSE i \in bad : \A j \in bad : i <= j
    IN  IF o[1] # "dict" THEN Failed(Segv, "only dict can be converted to UDT")
        ELSE IF bad = {}
        THEN Converted(<<"udt", [i \in 1..Len(t.sub) |-> field(i).v]>>)
        ELSE [ok |-> FALSE, err |-> field(first).err,
              v |-> <<"udt", [i \in 1..Len(t.sub) |->
                                IF i <= first THEN field(i).v ELSE Segv]>>]

plc_pyobject_as(t, o) ==
    CASE t.type \in Numbers -> plc_pyobject_as_number(t, o)
      [] t.type = "TEXT" -> plc_pyobject_as_text(o)
      [] t.type = "BYTEA" -> plc_pyobject_as_bytea(o)
      [] t.type = "ARRAY" -> plc_pyobject_as_array(t, o)
      [] t.type = "UDT" -> plc_pyobject_as_udt(t, o)

-----------------------------------------------------------------------------
(* Serving a call *)

\* The list every function gets as "args"; those with a name are passed on by
\* position as well.
arguments_to_pytuple(args) ==
    [i \in 1..Len(args) |-> IF args[i].data = Null THEN None
                            ELSE plc_pyobject_from(args[i].type, args[i].data, FALSE)]

fill_rawdata(t, o) == IF o = None THEN Converted(Null) ELSE plc_pyobject_as(t, o)

RECURSIVE FirstRaised(_)
\* plc_error_callback: the first error raised while the result was being sent.
FirstRaised(v) ==
    LET parts == IF v # Null /\ v[1] = "iter" THEN v[3]
                 ELSE IF v # Null /\ v[1] = "udt" THEN v[2] ELSE <<>>
        bad == {i \in 1..Len(parts) :
                    Raised(parts[i]) \/ FirstRaised(Produced(parts[i])) # NoMsg}
        first == parts[CHOOSE i \in bad : \A j \in bad : i <= j]
    IN  IF bad = {} THEN NoMsg
        ELSE IF Raised(first) THEN first[2] ELSE FirstRaised(first)

\* Some array in the object missed an item.
RECURSIVE Misses(_, _)
Misses(t, o) ==
    CASE t.type = "ARRAY" /\ o[1] = "list" ->
            \/ Drawn(t, o).missed
            \/ /\ t.sub[1].type = "UDT"
               /\ \E i \in 1..Len(o[2]) : Misses(t.sub[1], o[2][i])
      [] t.type = "UDT" /\ o[1] = "dict" ->
            \E i \in 1..Len(t.sub) : /\ t.sub[i].name \in DOMAIN o[2]
                                     /\ Misses(t.sub[i], o[2][t.sub[i].name])
      [] OTHER -> FALSE

\* PyObject_GetIter and PyIter_Next: what an object that is no sequence yields.
PyIterable(o) == o[1] \in {"dict", "gen"}
Yielded(o) ==
    IF o[1] = "gen" THEN o[2]
    ELSE LET keys == SetToSeq(DOMAIN o[2]) IN [i \in 1..Len(keys) |-> <<"str", keys[i]>>]

\* The rows of a set: the items of a sequence, or those an iterator yields
\* until PyIter_Next gives NULL, be it at the end or for an exception.
RowsOf(retset, o) ==
    CASE retset = 0 -> <<o>>
      [] retset = 1 /\ PySequence_Check(o) ->
            [i \in 1..Len(o[2]) |-> PySequence_GetItem(o, i - 1)]
      [] retset = 1 /\ PyIterable(o) -> Yielded(o)
      [] OTHER -> <<>>
IterRaises(retset, o) == retset = 1 /\ o[1] = "gen" /\ o[3]

\* hold is plc_sending_data: an error raised by an element while the message is
\* being sent is held back and travels at the end of the result.
Sent(t, retset, o, hold) ==
    LET rows == [i \in 1..Len(RowsOf(retset, o)) |->
                    fill_rawdata(t, RowsOf(retset, o)[i])]
        bad == {i \in 1..Len(rows) : ~rows[i].ok}
        first == CHOOSE i \in bad : \A j \in bad : i <= j
        errs == SelectSeq([i \in 1..Len(rows) |-> FirstRaised(rows[i].v)],
                          LAMBDA e : e # NoMsg)
    IN  IF retset = 1 /\ ~PySequence_Check(o) /\ ~PyIterable(o)
        THEN send_exception(Err("cannot get iterator"))
        ELSE IF bad # {} THEN send_exception(rows[first].err)
        ELSE send_result([t |-> "RESULT", rows |-> Len(rows), types |-> <<t>>,
                          names |-> << <<"result">> >>,
                          data |-> [i \in 1..Len(rows) |-> << rows[i].v >>],
                          exc |-> IF errs = <<>> THEN NoMsg ELSE errs[1]], hold)

\* The error indicator is set when the result has gone out: the exception of
\* the iterator, which any error reported later takes with it, or an item
\* missed while sending.
LeavesPending(t, retset, o) ==
    LET rows == RowsOf(retset, o)
        sent == \A i \in 1..Len(rows) : fill_rawdata(t, rows[i]).ok
        silent == \A i \in 1..Len(rows) : FirstRaised(fill_rawdata(t, rows[i]).v) = NoMsg
    IN  sent /\ \/ IterRaises(retset, o) /\ silent
                \/ \E i \in 1..Len(rows) : Misses(t, rows[i])

process_call_results(t, retset, o) == Sent(t, retset, o, TRUE)
=============================================================================
