---------------------------- MODULE RConversions ----------------------------
(***************************************************************************)
(* The R client's conversions (rclient/rconversions.c) and the way it      *)
(* answers a call with them (process_call_results, handle_retset,          *)
(* handle_frame and handle_matrix_set of rcall.c).                         *)
(*                                                                         *)
(* An R object is RNull, a vector <<"vec", mode, elements, dims>> of mode  *)
(* "lgl", "int", "real" or "str", or a list <<"rlist", elements, class,    *)
(* dims>>, class "frame" or "plain"; dims are empty without a dim          *)
(* attribute.  A missing element of a vector is NA.                        *)
(***************************************************************************)
EXTENDS TypeIO

RNull == <<"NULL">>
NA == <<"NA">>
Vec(mode, elems, dims) == <<"vec", mode, elems, dims>>
Mode(o) == IF o[1] = "vec" THEN o[2] ELSE "list"

\* The C images of NA: NA_INTEGER, and NA_REAL as one number that stands for
\* the payload-carrying NaN.
NA_INTEGER == -2147483647 - 1
NA_REAL == 2147483647

ModeOf == [INT1 |-> "lgl", INT2 |-> "int", INT4 |-> "int", INT8 |-> "real",
           FLOAT4 |-> "real", FLOAT8 |-> "real", TEXT |-> "str"]

RErr(message) == [t |-> "EXCEPTION", message |-> message, stacktrace |-> <<>>]

-----------------------------------------------------------------------------
(* Transport to R: the inputfunc of a type *)

RECURSIVE plc_r_object_from(_, _, _)

\* Row-major elements under a dim attribute; a row type makes a list.  The
\* empty array is a character vector: get_r_vector is asked for an ARRAY.
plc_r_object_from_array(t, v) ==
    LET elem == t.sub[1]
        part(i) == IF v[3][i] = Null THEN IF elem.type = "UDT" THEN RNull ELSE NA
                   ELSE LET x == plc_r_object_from(elem, v[3][i], TRUE)
                        IN  IF elem.type = "UDT" THEN x ELSE x[3][1]
    IN  CASE v[2] = <<>> -> Vec("str", <<>>, <<>>)
          [] v[2] # <<>> /\ elem.type = "UDT" ->
                <<"rlist", [i \in 1..Len(v[3]) |-> part(i)], "plain", v[2]>>
          [] OTHER -> Vec(ModeOf[elem.type], [i \in 1..Len(v[3]) |-> part(i)], v[2])

plc_r_object_from_udt(t, v) ==
    <<"rlist", [i \in 1..Len(t.sub) |->
                    IF v[2][i] = Null THEN RNull
                    ELSE plc_r_object_from(t.sub[i], v[2][i], FALSE)], "frame", <<>>>>

plc_r_object_from(t, w, isArrayElement) ==
    LET v == IF isArrayElement /\ t.type \in {"TEXT", "UDT"} THEN w[2] ELSE w
    IN  CASE t.type \in DOMAIN ModeOf -> Vec(ModeOf[t.type], << v >>, <<>>)
          [] t.type = "ARRAY" -> plc_r_object_from_array(t, v)
          [] t.type = "UDT" -> plc_r_object_from_udt(t, v)

-----------------------------------------------------------------------------
(* R to transport *)

RCast(n, bits) == ((n + 2^(bits - 1)) % 2^bits) - 2^(bits - 1)
RNarrow(type, n) ==
    CASE type = "INT1" -> RCast(n, 8) [] type = "INT2" -> RCast(n, 16) [] OTHER -> n

\* asLogical, asInteger, asReal: the first element.  A missing one is the C
\* image of NA; the cast of NA_REAL to an integer gives the lowest int.
FirstNumber(t, o) ==
    LET e == o[3][1]
        low == CASE t.type \in {"INT1", "INT2"} -> 0
                 [] t.type \in {"FLOAT4", "FLOAT8"} /\ o[2] = "real" -> NA_REAL
                 [] OTHER -> NA_INTEGER
    IN  IF e = NA THEN low
        ELSE IF t.type = "INT1" THEN IF e[2] = 0 THEN 0 ELSE 1
        ELSE RNarrow(t.type, e[2])

AsChar(e) ==
    CASE e = NA -> <<"NA">> [] e # NA /\ e[1] = "s" -> e[2] [] OTHER -> <<ToString(e[2])>>

\* "Actual R type is not matching excpected returned type PLC_DATA_INT4 [2]":
\* how long the text is, and where it has a letter that receivers look for,
\* tell what becomes of it when it arrives in the middle of a result.
MismatchText(type) ==
    LET float == type \in {"FLOAT4", "FLOAT8"}
    IN  [i \in 1..(IF float THEN 73 ELSE 71) |-> IF ~float /\ i = 65 THEN "N" ELSE "."]
Mismatch(type) == <<"raise", RErr(MismatchText(type)), Segv>>

RECURSIVE plc_r_object_as(_, _)

\* The test of the whole vector: asLogical and asInteger look at its first
\* element, and comparing an integer with NA_REAL is never true.
VectorIsNull(o) ==
    \/ o = RNull
    \/ o[1] = "vec" /\ o[2] \in {"lgl", "int"} /\ o[3] # <<>> /\ o[3][1] = NA

\* Element idx of a vector as type t.  Of the wrong mode it raises, and the
\* caller goes on with the NULL it returns; asking a vector that is not of
\* strings for a text is an R error outside any R evaluation.
plc_r_vector_element_rawdata(o, idx, t) ==
    LET e == o[3][idx]
        number(n) == <<TagOf[t.type], n>>
        fits == CASE t.type \in {"INT1", "INT2", "INT4", "FLOAT4", "FLOAT8"} ->
                        Mode(o) = ModeOf[t.type]
                  [] t.type = "INT8" -> Mode(o) \in {"int", "real"}
    IN  IF VectorIsNull(o) THEN Null
        ELSE CASE t.type \in Numbers /\ ~fits -> Mismatch(t.type)
               [] t.type \in Numbers /\ fits ->
                    IF e = NA THEN Null ELSE number(RNarrow(t.type, e[2]))
               [] t.type = "TEXT" ->
                    IF Mode(o) # "str" THEN Segv ELSE IF e = NA THEN Null ELSE <<"s", e[2]>>
               [] t.type = "UDT" ->
                    IF o[2][idx] = RNull THEN Null ELSE plc_r_object_as(t, o[2][idx]).v
               [] t.type = "ARRAY" ->
                    IF o[1] = "rlist"
                    THEN IF o[2][idx] = RNull THEN Null
                         ELSE plc_r_object_as(t, o[2][idx]).v
                    ELSE plc_r_object_as(t, o).v

Length(o) ==
    CASE o = RNull -> 0 [] o # RNull /\ o[1] = "vec" -> Len(o[3]) [] OTHER -> Len(o[2])

\* plc_r_object_as_array_next walks the vector from start on, whatever the
\* dimensions are; the elements are drawn while the message is being sent.
Drawn(o, t, start, dims) ==
    <<"iter", dims, [i \in 1..SizeOf(dims) |->
                        plc_r_vector_element_rawdata(o, start + i, t.sub[1])]>>
plc_r_object_as_array(t, o) ==
    Drawn(o, t, 0, IF o[4] # <<>> THEN o[4] ELSE << Length(o) >>)
plc_r_matrix_as_setof(t, o, start, cols) == Drawn(o, t, start, <<cols>>)

\* A row from its fields.  The NULL of a field that raised is dereferenced.
Fatal(v) == v = Segv \/ Raised(v)
Row(fields) ==
    LET bad == SelectSeq(fields, Fatal)
    IN  IF bad = <<>> THEN <<"udt", fields>> ELSE bad[1]

\* By position: the names are only asked for, never compared.
plc_r_object_as_udt(t, o) ==
    Row([i \in 1..Len(t.sub) |->
            plc_r_vector_element_rawdata(o[2][i], 1, t.sub[i])])

\* The outputfunc of a type: its return code and *output.
plc_r_object_as(t, o) ==
    CASE t.type \in Numbers ->
            [ok |-> o[1] = "vec" /\ o[2] # "str",
             v |-> IF o[1] = "vec" /\ o[2] # "str"
                   THEN <<TagOf[t.type], FirstNumber(t, o)>> ELSE Null]
      [] t.type = "TEXT" -> [ok |-> TRUE, v |-> <<"s", AsChar(o[3][1])>>]
      [] t.type = "ARRAY" ->
            [ok |-> o # RNull, v |-> IF o = RNull THEN Null
                                     ELSE plc_r_object_as_array(t, o)]
      [] t.type = "UDT" -> [ok |-> TRUE, v |-> plc_r_object_as_udt(t, o)]

-----------------------------------------------------------------------------
(* Serving a call *)

arguments_to_r(args) ==
    [i \in 1..Len(args) |-> IF args[i].data = Null THEN RNull
                            ELSE plc_r_object_from(args[i].type, args[i].data, FALSE)]

handle_frame(t, o) ==
    [row \in 1..Len(o[2][1][3]) |->
        Row([col \in 1..Len(o[2]) |->
                plc_r_vector_element_rawdata(o[2][col], row, t.sub[col])])]

handle_matrix_set(t, o) ==
    [row \in 1..o[4][1] |->
        plc_r_matrix_as_setof(t, o, (row - 1) * o[4][2], o[4][2])]

IsMatrix(o) == o # RNull /\ Len(o[4]) = 2
IsFrame(o) == o[1] = "rlist" /\ o[3] = "frame"

handle_retset(t, o) ==
    CASE IsMatrix(o) -> handle_matrix_set(t, o)
      [] IsFrame(o) -> handle_frame(t, o)
      [] OTHER -> [i \in 1..Length(o) |-> plc_r_vector_element_rawdata(o, i, t)]

\* A row that raises does so before anything is sent: the error goes out at
\* once, and the client then fails on the NULL or frees the result twice.
\* exception_callback is NULL and nothing holds an error back: what an element
\* of an array raises while the result is being sent lands in the middle of it.
process_call_results(t, retset, o) ==
    LET one == IF o = RNull THEN [ok |-> TRUE, v |-> Null] ELSE plc_r_object_as(t, o)
        rows == IF retset = 1 THEN handle_retset(t, o) ELSE << one.v >>
        bad == SelectSeq(rows, Fatal)
    IN  IF retset = 0 /\ ~one.ok
        THEN send_exception(RErr(<<"Exception raised converting function output">>))
        ELSE IF bad # <<>>
        THEN (IF Raised(bad[1]) THEN Append(send_exception(bad[1][2]), Flush) ELSE <<>>)
                \o << Segv >>
        ELSE send_result([t |-> "RESULT", rows |-> Len(rows), types |-> <<t>>,
                          names |-> << <<"results">> >>,
                          data |-> [i \in 1..Len(rows) |-> << rows[i] >>],
                          exc |-> NoMsg], FALSE)
=============================================================================
