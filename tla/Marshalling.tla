----------------------------- MODULE Marshalling -----------------------------
(***************************************************************************)
(* A call as data: the arguments travel from Datums to the client's        *)
(* objects and the result back, through plc_typeio.c, comm_channel.c and   *)
(* the conversions of the Python or the R client.                          *)
(*                                                                         *)
(* One client process serves many calls.  What it keeps between them is    *)
(* whether it is still alive and, for Python, whether an error is pending: *)
(* PySequence_GetItem sets the interpreter's error indicator when an item  *)
(* is missing, and the array iterator does not clear it.                   *)
(*                                                                         *)
(* Relay takes one message of any kind across the wire: every kind has a   *)
(* sending and a receiving function written by hand.                       *)
(***************************************************************************)
EXTENDS TypeIO

CONSTANTS
    Calls,      \* the calls that may be made, see Identity and Returning
    Messages,   \* the messages Relay sends
    Version     \* PLCONTAINER_VERSION

Py == INSTANCE PyConversions
R == INSTANCE RConversions

VARIABLES
    pc,         \* "idle", "sent" or "answered"
    call,       \* the call in progress, or the last one
    down,       \* what the client has still to read
    up,         \* what the backend has still to read
    client,     \* the process in the container: [lang, alive, pending]
    stale,      \* what an earlier call left to this one: "no", "pending"
                \* (a Python error) or "dead" (no client behind the connection)
    conn,       \* whether the backend still holds the connection
    outcome,    \* what the query gets
    relay       \* the last message relayed: [sent, got, rest]

vars == <<pc, call, down, up, client, stale, conn, outcome, relay>>

\* A call: the client's language, the type and value of its argument, the
\* declared result, and what the function does: return its argument, or obj.
Identity(lang, t, d) ==
    [lang |-> lang, argtype |-> t, arg |-> d, rettype |-> t, retset |-> 0,
     does |-> "identity", obj |-> <<"-">>]
Returning(lang, t, retset, o) ==
    [lang |-> lang, argtype |-> [k |-> "bool"], arg |-> <<"i", 1>>, rettype |-> t,
     retset |-> retset, does |-> "return", obj |-> o]

NoMessage == [sent |-> NoMsg, got |-> NoMsg, rest |-> <<>>]
Kinds == {"PING", "CALLREQ", "RESULT", "EXCEPTION", "LOG", "QUOTE", "QUOTE_RESULT", "SQL",
          "RAW", "SUBTRANSACTION", "SUBTRAN_RESULT"}
Fresh(lang) == [lang |-> lang, alive |-> TRUE, pending |-> FALSE]

Init ==
    /\ pc = "idle"
    /\ call = CHOOSE c \in Calls : c.does = "identity"
    /\ down = <<>>
    /\ up = <<>>
    /\ client \in {Fresh("python"), Fresh("r")}
    /\ stale = "no"
    /\ conn = "open"
    /\ outcome = <<"none">>
    /\ relay = NoMessage

-----------------------------------------------------------------------------
(* The backend makes the call *)

fill_callreq_arguments(c) ==
    LET info == fill_type_info(c.argtype)
    IN  << [name |-> <<"x">>, type |-> copy_type_info(info), data |-> plc_datum_as(info, c.arg)] >>
plcontainer_generate_call_request(c) ==
    [t |-> "CALLREQ", name |-> <<"f">>, src |-> <<"body">>, serverenc |-> <<"UTF8">>,
     logLevel |-> 0, objectid |-> 1, hasChanged |-> 1,
     retType |-> copy_type_info(fill_type_info(c.rettype)), retset |-> c.retset,
     args |-> fill_callreq_arguments(c)]

\* plcontainer_get_result, up to the answer: procedure_get refuses types that
\* cannot be converted; sending to a client that is gone is an error that
\* gives up the container, and the connection with what it had buffered.
Call(c) ==
    /\ pc = "idle"
    /\ conn = "open"
    /\ client.lang = c.lang
    /\ call' = c
    /\ stale' = IF ~client.alive THEN "dead" ELSE IF client.pending THEN "pending" ELSE "no"
    /\ CASE Unsupported(fill_type_info(c.argtype)) \/ Unsupported(fill_type_info(c.rettype)) ->
                /\ outcome' = <<"rejected">>
                /\ UNCHANGED <<pc, down, conn>>
         [] OTHER ->
                IF client.alive
                THEN /\ outcome' = <<"none">>
                     /\ down' = send_call(plcontainer_generate_call_request(c))
                     /\ pc' = "sent"
                     /\ UNCHANGED conn
                ELSE /\ outcome' = <<"lost">>
                     /\ conn' = "closed"
                     /\ UNCHANGED <<pc, down>>
    /\ up' = IF conn' = "closed" THEN <<>> ELSE up
    /\ relay' = NoMessage
    /\ UNCHANGED client

-----------------------------------------------------------------------------
(* The client serves it *)

\* What the function returns, given its arguments.
Returns(args) == IF call.does = "identity" THEN args[1] ELSE call.obj

\* A process that dies takes with it what it has appended and not flushed.
Flushed(tokens) ==
    LET cut == SelectInSeq(tokens, LAMBDA x : x = Segv)
        last == SelectLastInSeq(SubSeq(tokens, 1, cut - 1), LAMBDA x : x = Flush)
    IN  SelectSeq(IF cut = 0 THEN tokens ELSE SubSeq(tokens, 1, last), LAMBDA x : x # Flush)

\* The client's part of a call: it reads the request and answers it.
Serves(lang, rest, answer, pending) ==
    /\ pc = "sent"
    /\ client.lang = lang
    /\ down' = rest
    /\ up' = Flushed(answer)
    /\ client' = [client EXCEPT !.alive = ~Contains(answer, Segv), !.pending = pending]
    /\ pc' = "answered"
    /\ UNCHANGED <<call, stale, conn, outcome, relay>>

\* handle_call in Python.  An error that is pending when the function returns
\* makes the call fail, and is cleared when it is reported.
PyHandleCall ==
    LET got == plcontainer_channel_receive(down, {"CALLREQ"}, Version)
        o == Returns(Py!arguments_to_pytuple(got.v.args))
    IN  Serves("python", got.s,
               IF client.pending THEN send_exception(Py!Err("Exception occurred in Python"))
               ELSE Py!process_call_results(got.v.retType, got.v.retset, o),
               ~client.pending /\ Py!LeavesPending(got.v.retType, got.v.retset, o))

\* handle_call in R.
RHandleCall ==
    LET got == plcontainer_channel_receive(down, {"CALLREQ"}, Version)
        o == Returns(R!arguments_to_r(got.v.args))
    IN  Serves("r", got.s,
               R!process_call_results(got.v.retType, got.v.retset, o), FALSE)

\* After R's raise_execution_error the client frees the stack trace, which is a
\* string literal: the process may not survive it.
FreeLiteral ==
    /\ pc = "answered"
    /\ client.alive
    /\ call.lang = "r"
    /\ up # <<>> /\ up[1] = <<"c", "E">>
    /\ client' = [client EXCEPT !.alive = FALSE]
    /\ UNCHANGED <<pc, call, down, up, stale, conn, outcome, relay>>

-----------------------------------------------------------------------------
(* The backend reads the answer *)

\* plcontainer_process_result, for every row of the result.
plcontainer_process_result(info, msg, mem) ==
    [i \in 1..msg.rows |-> IF msg.data[i][1] = Null THEN Null
                           ELSE plc_datum_from(info, msg.data[i][1], mem)]

\* plcontainer_get_result, from the answer on.  A stream that ends too early is
\* an error that gives up the container with its connection
\* (DeleteBackendsWhenError); an exception keeps both.  What the message did
\* not take stays in the input buffer.
plcontainer_get_result ==
    \E mem \in Leftovers(fill_type_info(call.rettype)) :
    LET got == plcontainer_channel_receive(up, Kinds, Version)
        rows == plcontainer_process_result(fill_type_info(call.rettype), got.v, mem)
    IN  /\ pc = "answered"
        /\ pc' = "idle"
        /\ IF got.s = Bad
           THEN /\ outcome' = <<"lost">>
                /\ up' = <<>>
                /\ conn' = "closed"
           ELSE /\ up' = got.s
                /\ outcome' = IF got.v.t = "EXCEPTION" THEN <<"error", got.v>>
                              ELSE IF \E i \in 1..Len(rows) : Crashed(rows[i])
                              THEN Crash ELSE <<"rows", rows>>
                /\ UNCHANGED conn
        /\ UNCHANGED <<call, down, client, stale, relay>>

\* get_container_conn finds no connection: start_backend makes a new container.
Replace ==
    /\ pc = "idle"
    /\ conn = "closed"
    /\ client' = Fresh(client.lang)
    /\ conn' = "open"
    /\ UNCHANGED <<pc, call, down, up, stale, outcome, relay>>

\* One message from one side to the other, for which it is what is expected.
Relay(m) ==
    /\ pc = "idle"
    /\ outcome = <<"none">>
    /\ LET got == plcontainer_channel_receive(plcontainer_channel_send(m, FALSE),
                                              {m.t}, Version)
       IN  relay' = [sent |-> m, got |-> got.v, rest |-> got.s]
    /\ UNCHANGED <<pc, call, down, up, client, stale, conn, outcome>>

Next ==
    \/ \E c \in Calls : Call(c)
    \/ PyHandleCall
    \/ RHandleCall
    \/ FreeLiteral
    \/ plcontainer_get_result
    \/ Replace
    \/ \E m \in Messages : Relay(m)

Spec == Init /\ [][Next]_vars

-----------------------------------------------------------------------------
(* What the user should see, defined without the code's iterators *)

Answered == pc = "idle" /\ outcome # <<"none">> /\ outcome # <<"rejected">>

\* A column dropped before one that is still there, and one whose values are
\* pointers.
RowIn(t) == IF t.k = "array" THEN t.elem ELSE t
Skewed(t) ==
    RowIn(t).k = "row" /\ \E i, j \in 1..Len(RowIn(t).atts) :
        i < j /\ RowIn(t).atts[i].dropped /\ ~RowIn(t).atts[j].dropped
DropsPointer(t) ==
    RowIn(t).k = "row" /\ \E i \in 1..Len(RowIn(t).atts) :
        RowIn(t).atts[i].dropped /\ ~RowIn(t).atts[i].byval

\* What a query sees of a value: nothing of the columns that were dropped.
RECURSIVE Visible(_, _)
Visible(t, d) ==
    CASE d # Null /\ t.k = "array" ->
            <<"array", d[2], [i \in 1..Len(d[3]) |-> Visible(t.elem, d[3][i])]>>
      [] d # Null /\ t.k = "row" ->
            <<"row", [i \in 1..Len(t.atts) |-> IF t.atts[i].dropped THEN Null ELSE d[2][i]]>>
      [] OTHER -> d

\* The value with the tails of its numerics gone.  A row inside a row travels
\* as text and keeps them.
RECURSIVE Rounded(_, _)
Rounded(d, inRow) ==
    CASE d[1] = "num" -> <<"num", d[2], 0>>
      [] d[1] = "array" -> <<"array", d[2], [i \in 1..Len(d[3]) |-> Rounded(d[3][i], inRow)]>>
      [] d[1] = "row" /\ ~inRow ->
            <<"row", [i \in 1..Len(d[2]) |-> Rounded(d[2][i], TRUE)]>>
      [] OTHER -> d

\* The R client takes a logical or integer vector for NULL when its first
\* element is.
RECURSIVE StartsNull(_, _)
StartsNull(t, d) ==
    CASE t.k = "array" /\ d # Null /\ d[3] # <<>> ->
            \/ t.elem.k \in {"bool", "int2", "int4"} /\ d[3][1] = Null
            \/ \E i \in 1..Len(d[3]) : StartsNull(t.elem, d[3][i])
      [] t.k = "row" /\ d # Null ->
            \E i \in 1..Len(t.atts) : ~t.atts[i].dropped
                                     /\ StartsNull(t.atts[i].type, d[2][i])
      [] OTHER -> FALSE

\* The item a list holds at a path of positions, or NoObj.
Follow(o, path) ==
    FoldLeft(LAMBDA x, i : IF x[1] = "list" /\ i <= Len(x[2]) THEN x[2][i] ELSE Py!NoObj,
             o, path)
\* The k-th path, in row-major order, of an array with these dimensions.
Path(dims, k) ==
    [j \in 1..Len(dims) |->
        1 + (((k - 1) \div SizeOf(SubSeq(dims, j + 1, Len(dims)) \o <<1>>)) % dims[j])]
RECURSIVE Shape(_)
Shape(o) ==
    IF o[1] # "list" THEN <<>>
    ELSE << Len(o[2]) >> \o IF o[2] = <<>> THEN <<>> ELSE Shape(o[2][1])
Items(o) == [k \in 1..SizeOf(Shape(o)) |-> Follow(o, Path(Shape(o), k))]
Missing(x) == x \in {Py!None, Py!NoObj}

\* A sub-list is missing altogether from an array of three dimensions.
DeepRagged(o) ==
    /\ Len(Shape(o)) = 3
    /\ \E i \in 1..Shape(o)[1], j \in 1..Shape(o)[2] : Follow(o, <<i, j>>) = Py!NoObj

RECURSIVE Convertible(_, _)
Convertible(t, o) ==
    \/ Missing(o)
    \/ CASE t.k = "text" -> TRUE
         [] t.k = "bytea" -> o[1] \in {"str", "bytes"}
         [] t.k = "array" -> /\ o[1] = "list"
                             /\ \A k \in 1..Len(Items(o)) : Convertible(t.elem, Items(o)[k])
         [] t.k = "row" -> /\ o[1] = "dict"
                           /\ \A i \in 1..Len(t.atts) :
                                 t.atts[i].dropped \/
                                 /\ t.atts[i].name \in DOMAIN o[2]
                                 /\ Convertible(t.atts[i].type, o[2][t.atts[i].name])
         [] OTHER -> o[1] \in {"int", "float"}

\* Every number fits what it is sent in: a bool travels as one byte.
Ranges == [bool |-> -128..127, int2 |-> -32768..32767]
RECURSIVE InRange(_, _)
InRange(t, o) ==
    CASE Missing(o) -> TRUE
      [] ~Missing(o) /\ t.k \in DOMAIN Ranges -> o[2] \in Ranges[t.k]
      [] ~Missing(o) /\ t.k = "array" ->
            \A k \in 1..Len(Items(o)) : InRange(t.elem, Items(o)[k])
      [] ~Missing(o) /\ t.k = "row" ->
            \A i \in 1..Len(t.atts) :
                t.atts[i].dropped \/ InRange(t.atts[i].type, o[2][t.atts[i].name])
      [] OTHER -> TRUE

RECURSIVE Meaning(_, _)
Meaning(t, o) ==
    IF Missing(o) THEN Null
    ELSE CASE t.k = "text" ->
                <<"s", IF o[1] = "str" THEN o[2] ELSE Py!plc_pyobject_as_text(o).v[2]>>
           [] t.k = "bytea" -> <<"b", o[2]>>
           [] t.k = "numeric" -> <<"num", o[2], 0>>
           [] t.k \in {"float4", "float8"} -> <<"f", o[2]>>
           [] t.k = "array" ->
                construct_md_array(Shape(o), [k \in 1..Len(Items(o)) |->
                                                Meaning(t.elem, Items(o)[k])])
           [] t.k = "row" ->
                <<"row", [i \in 1..Len(t.atts) |->
                            IF t.atts[i].dropped THEN Null
                            ELSE Meaning(t.atts[i].type, o[2][t.atts[i].name])]>>
           [] t.k = "bool" -> <<"i", IF o[2] = 0 THEN 0 ELSE 1>>
           [] OTHER -> <<"i", o[2]>>

\* The rows the object stands for: for a set what iterating over it gives.
Returned(c) ==
    CASE c.retset = 0 -> << c.obj >>
      [] c.retset = 1 /\ c.obj[1] = "list" -> c.obj[2]
      [] c.retset = 1 /\ c.obj[1] = "str" ->
            [i \in 1..Len(c.obj[2]) |-> <<"str", << c.obj[2][i] >> >>]
      [] c.retset = 1 /\ c.obj[1] = "gen" -> c.obj[2]
      [] c.retset = 1 /\ c.obj[1] = "dict" ->
            LET keys == SetToSeq(DOMAIN c.obj[2]) IN [i \in 1..Len(keys) |-> <<"str", keys[i]>>]
      [] OTHER -> <<>>
Iterable(o) == o[1] \in {"list", "str", "bytes", "dict", "gen"}
Raises(c) == c.retset = 1 /\ c.obj[1] = "gen" /\ c.obj[3]
LosesSublist(c) ==
    /\ c.lang = "python" /\ c.does = "return"
    /\ \E i \in 1..Len(Returned(c)) : DeepRagged(Returned(c)[i])

\* R: what the elements of a vector of the right mode stand for.
RightMode(t, o) ==
    /\ o[1] = "vec"
    /\ \/ o[2] = R!ModeOf[plc_get_datatype_from_oid(t)]
       \/ t.k = "int8" /\ o[2] = "int"
RElement(t, e) ==
    CASE e = R!NA -> Null
      [] e # R!NA /\ t.k = "text" -> <<"s", e[2]>>
      [] e # R!NA /\ t.k = "numeric" -> <<"num", e[2], 0>>
      [] OTHER -> <<TagOf[KindOf[t.k]], e[2]>>
RArray(t, elems, dims) ==
    <<"array", dims, [i \in 1..Len(elems) |-> RElement(t, elems[i])]>>
LeadsWithNA(o) == o[2] \in {"lgl", "int"} /\ o[3][1] = R!NA

\* The columns of a list, each of the mode of its attribute.
Columns(t, o) ==
    /\ o[1] = "rlist" /\ Len(o[2]) = Len(t.atts)
    /\ \A i \in 1..Len(t.atts) : RightMode(t.atts[i].type, o[2][i])
RRow(t, o, row) ==
    <<"row", [i \in 1..Len(t.atts) |-> RElement(t.atts[i].type, o[2][i][3][row])]>>

\* R: an array made from a vector or from rows of another mode, and a set or a
\* row that makes a text from a vector that holds no strings.
WrongElements(c) ==
    /\ c.lang = "r" /\ c.does = "return" /\ c.rettype.k = "array"
    /\ \/ c.obj[1] = "vec" /\ c.obj[3] # <<>> /\ ~RightMode(c.rettype.elem, c.obj)
       \/ /\ c.obj[1] = "rlist" /\ c.rettype.elem.k = "row"
          /\ \E i \in 1..Len(c.obj[2]) :
                c.obj[2][i] # R!RNull /\ ~Columns(c.rettype.elem, c.obj[2][i])
NotStrings(t, o) == t.k = "text" /\ o[1] = "vec" /\ o[2] # "str"
TextFromNumbers(c) ==
    /\ c.lang = "r" /\ c.does = "return"
    /\ \/ c.retset = 1 /\ NotStrings(c.rettype, c.obj)
       \/ /\ c.rettype.k = "row" /\ c.obj[1] = "rlist"
          /\ \E i \in 1..Len(c.rettype.atts) : NotStrings(c.rettype.atts[i].type, c.obj[2][i])

-----------------------------------------------------------------------------
(* Properties *)

\* A function that returns its argument gives back the value it was passed,
\* whatever the type: NULLs, arrays with a null bitmap, rows, rows in arrays
\* and rows in rows included, whatever memory the row is built in.  Numerics
\* lose what float8 cannot hold.  Nothing is claimed where the code does not
\* keep the promise: a table with a column dropped before a live one, or with
\* a dropped column of a pointer type (plc_datum_from_udt); R vectors that
\* begin with NA; the call after one that left an error pending.
IdentityUdf ==
    Answered /\ call.does = "identity" /\ stale = "no"
      /\ ~Skewed(call.argtype) /\ ~DropsPointer(call.argtype)
      /\ ~(call.lang = "r" /\ StartsNull(call.argtype, call.arg))
    => /\ outcome[1] = "rows" /\ Len(outcome[2]) = 1
       /\ Visible(call.argtype, outcome[2][1]) = Rounded(call.arg, FALSE)




\* Every kind of message is received as it was sent, to the last byte: the
\* hand-written receive_* functions invert the send_* functions.
DecodeInverts ==
    relay # NoMessage =>
      /\ relay.rest = <<>>
      /\ relay.got = IF relay.sent.t = "RESULT" /\ relay.sent.exc # NoMsg
                     THEN relay.sent.exc ELSE relay.sent

\* A client that has reported an exception serves the next call: the backend
\* keeps its container.
ExceptionKeepsClient == stale # "dead"

-----------------------------------------------------------------------------
(* What the exceptions of the properties leave out; each of these is refuted *)

\* The value comes back from tables with dropped columns and from R vectors that
\* begin with NA as well.
IdentityEverywhere ==
    Answered /\ call.does = "identity" /\ stale = "no" =>
      /\ outcome[1] = "rows" /\ Len(outcome[2]) = 1
      /\ Visible(call.argtype, outcome[2][1]) = Rounded(call.arg, FALSE)

\* An R array of the wrong mode is reported by the client's error, as sets and
\* rows are ("Actual R type is not matching ...").
MismatchReported == Answered /\ WrongElements(call) /\ stale = "no" => outcome[1] = "error"

\* An exception of the iterator behind a set makes the call fail ("Error
\* receiving result data from Python iterator").
IteratorErrorReported ==
    Answered /\ call.lang = "python" /\ Raises(call) /\ stale = "no" => outcome[1] = "error"

\* An integer that does not fit the declared type makes the call fail.
OverflowReported ==
    Answered /\ call.lang = "python" /\ call.does = "return" /\ call.retset = 0 /\ stale = "no"
      /\ Convertible(call.rettype, call.obj) /\ ~InRange(call.rettype, call.obj)
    => outcome[1] = "error"
=============================================================================
