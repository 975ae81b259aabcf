---------------------------- MODULE MessageCodec ----------------------------
(***************************************************************************)
(* The wire format of the messages between a QE and its client process     *)
(* (common/comm_channel.c): what each send_* function appends to the       *)
(* stream and what each receive_* function takes from it, written down     *)
(* separately, as the code does.                                           *)
(*                                                                         *)
(* A stream is a sequence of tokens <<kind, value>>: "c" is one character, *)
(* "i1".."i8" and "f4", "f8" a number of that many bytes, "raw" a run of   *)
(* bytes.  Nothing on the wire tells the kinds apart: a receiver that asks *)
(* for another kind than the sender's gets the bytes that come next, and   *)
(* goes on from there.  A stream is Bad once more is asked of it than is   *)
(* left, which is how a receiver meets the end of the connection.          *)
(*                                                                         *)
(* A value on either side is tagged: <<"i", n>>, <<"f", n>>, <<"s", text>>,*)
(* <<"b", bytes>>, <<"udt", fields>>; an array about to be sent is an      *)
(* iterator <<"iter", dims, elements>>, one received is <<"arr", dims,     *)
(* cells>>, its cells holding a pointer where the element is not a number. *)
(***************************************************************************)
EXTENDS Integers, Sequences, SequencesExt

\* rawdata with isnull = 1, and a char pointer that is NULL.
Null == <<"nil">>
NoStr == <<"no string">>

\* No message: a receive that failed, or a result without an exception.
NoMsg == [t |-> "none"]

\* A wild pointer: sending what it points to kills the client process.
Segv == <<"segv">>

\* Where message_end hands what has been appended so far to the socket.
Flush == <<"flush">>

Width == [c |-> 1, i1 |-> 1, i2 |-> 2, i4 |-> 4, i8 |-> 8, f4 |-> 4, f8 |-> 8]
Words == DOMAIN Width
Numbers == {"INT1", "INT2", "INT4", "INT8", "FLOAT4", "FLOAT8"}
WordOf == [INT1 |-> "i1", INT2 |-> "i2", INT4 |-> "i4", INT8 |-> "i8",
           FLOAT4 |-> "f4", FLOAT8 |-> "f8"]
TagOf == [INT1 |-> "i", INT2 |-> "i", INT4 |-> "i", INT8 |-> "i",
          FLOAT4 |-> "f", FLOAT8 |-> "f"]

\* plcSqlType, as it goes over the wire.
SQL_TYPE_STATEMENT == 1
SQL_TYPE_PREPARE == 5
SQL_TYPE_PEXECUTE == 6
SQL_TYPE_UNPREPARE == 7

\* plcType: the kind, the name and the subtypes of an ARRAY or a UDT.
Type(kind, name, sub) == [type |-> kind, name |-> name, sub |-> sub]

-----------------------------------------------------------------------------
(* Sending *)

Raw(bytes) == IF bytes = <<>> THEN <<>> ELSE << <<"raw", bytes>> >>

send_cstring(s) ==
    IF s = NoStr THEN << <<"i4", -1>> >> ELSE << <<"i4", Len(s)>> >> \o Raw(s)

send_bytea(b) == << <<"i4", Len(b)>> >> \o Raw(b)

RECURSIVE send_type(_)
send_type(t) ==
    << <<"c", t.type>> >> \o send_cstring(t.name)
        \o (IF t.type \in {"ARRAY", "UDT"}
            THEN << <<"i2", Len(t.sub)>> >>
                 \o FlattenSeq([i \in 1..Len(t.sub) |-> send_type(t.sub[i])])
            ELSE <<>>)

\* message_start, then the fields, then message_end (the flush).
Emit(kind, v) ==
    CASE kind \in Words -> << <<kind, v>> >>
      [] kind = "cstr" -> send_cstring(v)
      [] kind = "type" -> send_type(v)
Puts(fields) ==
    FlattenSeq([i \in 1..Len(fields) |-> Emit(fields[i][1], fields[i][2])])

send_exception(m) ==
    Puts(<< <<"c", "E">>, <<"cstr", m.message>>, <<"cstr", m.stacktrace>> >>)

\* An element that iter->next produced after raising an error in the client is
\* <<"raise", error, value>>; the error's bytes go out at once unless the
\* client holds them back (plc_sending_data), and what was appended before
\* them goes out with them.
Raised(e) == e # Null /\ e[1] = "raise"
Produced(e) == IF Raised(e) THEN e[3] ELSE e

RECURSIVE send_raw_object(_, _, _)
send_raw_array_iter(elemtype, o, hold) ==
    Puts([i \in 1..(1 + Len(o[2])) |->
            <<"i4", IF i = 1 THEN Len(o[2]) ELSE o[2][i - 1]>>])
      \o FlattenSeq([i \in 1..Len(o[3]) |->
            (IF Raised(o[3][i]) /\ ~hold
             THEN Append(send_exception(o[3][i][2]), Flush) ELSE <<>>)
            \o send_raw_object(elemtype, Produced(o[3][i]), hold)])

send_udt(t, o, hold) ==
    FlattenSeq([i \in 1..Len(t.sub) |->
                    send_raw_object(t.sub[i], o[2][i], hold)])

send_raw_object(t, o, hold) ==
    IF o = Null THEN << <<"c", "N">> >>
    ELSE IF o = Segv THEN << <<"c", "D">>, Segv >>
    ELSE << <<"c", "D">> >> \o
         CASE t.type \in Numbers -> << <<WordOf[t.type], o[2]>> >>
           [] t.type = "TEXT" -> send_cstring(o[2])
           [] t.type = "BYTEA" -> send_bytea(o[2])
           [] t.type = "ARRAY" -> send_raw_array_iter(t.sub[1], o, hold)
           [] t.type = "UDT" -> send_udt(t, o, hold)

send_argument(a) ==
    send_cstring(a.name) \o send_type(a.type)
        \o send_raw_object(a.type, a.data, FALSE)
send_arguments(args) ==
    << <<"i4", Len(args)>> >>
        \o FlattenSeq([i \in 1..Len(args) |-> send_argument(args[i])])

send_ping(m) == Puts(<< <<"c", "P">>, <<"cstr", m.version>> >>)

send_call(m) ==
    Puts(<< <<"c", "C">>, <<"cstr", m.name>>, <<"cstr", m.src>>,
            <<"cstr", m.serverenc>>, <<"i4", m.logLevel>>,
            <<"i4", m.objectid>>, <<"i4", m.hasChanged>>,
            <<"type", m.retType>>, <<"i4", m.retset>> >>)
        \o send_arguments(m.args)

send_log(m) ==
    Puts(<< <<"c", "L">>, <<"i4", m.level>>, <<"cstr", m.message>> >>)
send_quote(m) ==
    Puts(<< <<"c", "Q">>, <<"i4", m.quote_type>>, <<"cstr", m.msg>> >>)
send_quote_result(m) ==
    Puts(<< <<"c", "O">>, <<"i4", m.quote_type>>, <<"cstr", m.result>> >>)
send_subtransaction(m) ==
    Puts(<< <<"c", "N">>, <<"c", m.action>>, <<"c", m.type>> >>)
send_subtransaction_result(m) == Puts(<< <<"c", "Z">>, <<"i2", m.result>> >>)

\* A raw message goes out character by character: the same bytes as one run.
send_rawmsg(m) == << <<"c", "W">>, <<"i4", Len(m.data)>> >> \o Raw(m.data)

send_sql_statement(m) == Puts(<< <<"i8", m.limit>>, <<"cstr", m.statement>> >>)
send_sql_prepare(m) == send_arguments(m.args) \o send_cstring(m.statement)
send_sql_unprepare(m) == << <<"i8", m.pplan>> >>
send_sql_pexecute(m) ==
    send_arguments(m.args) \o << <<"i8", m.limit>>, <<"i8", m.pplan>> >>
send_sql(m) ==
    << <<"c", "S">>, <<"i4", m.sqltype>> >> \o
    CASE m.sqltype = SQL_TYPE_STATEMENT -> send_sql_statement(m)
      [] m.sqltype = SQL_TYPE_PREPARE -> send_sql_prepare(m)
      [] m.sqltype = SQL_TYPE_UNPREPARE -> send_sql_unprepare(m)
      [] m.sqltype = SQL_TYPE_PEXECUTE -> send_sql_pexecute(m)

\* exception_callback hands over the error that was held back, if any.  m.exc
\* is that error; hold is plc_sending_data.
send_result(m, hold) ==
    << <<"c", "R">>, <<"i4", m.rows>>, <<"i4", Len(m.types)>> >>
      \o FlattenSeq([i \in 1..Len(m.types) |->
            send_type(m.types[i]) \o send_cstring(m.names[i])])
      \o FlattenSeq([i \in 1..(IF m.types = <<>> THEN 0 ELSE m.rows) |->
            FlattenSeq([j \in 1..Len(m.types) |->
                send_raw_object(m.types[j], m.data[i][j], hold)])])
      \o (IF m.exc = NoMsg THEN << <<"c", "N">> >> ELSE send_exception(m.exc))

plcontainer_channel_send(m, hold) ==
    CASE m.t = "PING" -> send_ping(m)
      [] m.t = "CALLREQ" -> send_call(m)
      [] m.t = "RESULT" -> send_result(m, hold)
      [] m.t = "EXCEPTION" -> send_exception(m)
      [] m.t = "LOG" -> send_log(m)
      [] m.t = "QUOTE" -> send_quote(m)
      [] m.t = "QUOTE_RESULT" -> send_quote_result(m)
      [] m.t = "SQL" -> send_sql(m)
      [] m.t = "RAW" -> send_rawmsg(m)
      [] m.t = "SUBTRANSACTION" -> send_subtransaction(m)
      [] m.t = "SUBTRAN_RESULT" -> send_subtransaction_result(m)
-----------------------------------------------------------------------------
(* Receiving: every receive_* yields [v |-> what it read, s |-> the rest] *)

Bad == << <<"bad", 0>> >>
Got(v, s) == [v |-> v, s |-> s]

\* What was read, and the rest of the stream, go to the next step.  As the
\* argument of a function it is computed before that step begins.
Then(got, Step(_, _)) == [g \in {got} |-> Step(g.v, g.s)][got]

\* A number made of bytes that were not sent as that number.  As a count it is
\* more than can be allocated, or than will ever come.
Junk == 2000000000

\* What a token is on the wire.  The bytes of a number are none of the letters
\* a receiver looks for.
BytesOf(token) ==
    CASE token[1] = "c" -> << token[2] >>
      [] token[1] = "raw" -> token[2]
      [] OTHER -> [i \in 1..Width[token[1]] |-> "."]

\* plcBufferRead: the next n bytes, whatever they were sent as.
RECURSIVE Bytes(_, _)
Bytes(n, s) ==
    IF n = 0 THEN Got(<<>>, s)
    ELSE IF n < 0 \/ n = Junk \/ s \in {<<>>, Bad} THEN Got(<<>>, Bad)
    ELSE LET b == BytesOf(s[1])
         IN  IF Len(b) > n
             THEN Got(SubSeq(b, 1, n), << <<"raw", SubSeq(b, n + 1, Len(b))>> >> \o Tail(s))
             ELSE Then(Bytes(n - Len(b), Tail(s)), LAMBDA v, r : Got(b \o v, r))

\* receive_char .. receive_float8.
Word(kind, s) ==
    IF s # <<>> /\ s[1][1] = kind THEN Got(s[1][2], Tail(s))
    ELSE Then(Bytes(Width[kind], s), LAMBDA b, r :
         Got(IF kind # "c" THEN Junk ELSE IF b = <<>> THEN "?" ELSE b[1], r))

receive_cstring(s) ==
    Then(Word("i4", s), LAMBDA cnt, r : IF cnt = -1 THEN Got(NoStr, r) ELSE Bytes(cnt, r))

receive_bytea(s) == Then(Word("i4", s), LAMBDA cnt, r : Bytes(cnt, r))

\* n receptions in a row, the i-th by Recv(i, _).
InARow(n, Recv(_, _), s) ==
    IF n = Junk \/ s = Bad THEN Got(<<>>, Bad)
    ELSE FoldLeft(LAMBDA before, i :
                      Then(before, LAMBDA vs, r :
                      Then(Recv(i, r), LAMBDA v, rest : Got(Append(vs, v), rest))),
                  Got(<<>>, s), [i \in 1..n |-> i])

RECURSIVE receive_type(_)
receive_type(s) ==
    Then(Word("c", s), LAMBDA typ, r1 :
    Then(receive_cstring(r1), LAMBDA name, r2 :
    IF typ \notin {"ARRAY", "UDT"} THEN Got(Type(typ, name, <<>>), r2)
    ELSE Then(Word("i2", r2), LAMBDA n, r3 :
         Then(InARow(n, LAMBDA i, r : receive_type(r), r3), LAMBDA sub, rest :
         Got(Type(typ, name, sub), rest)))))

Take(kind, s) ==
    CASE kind \in Words -> Word(kind, s)
      [] kind = "cstr" -> receive_cstring(s)
      [] kind = "type" -> receive_type(s)
Gets(kinds, s) == InARow(Len(kinds), LAMBDA i, r : Take(kinds[i], r), s)

Tagged(tag, x) == Got(<<tag, x.v>>, x.s)

\* The number of elements the dimensions announce: plcArrayMeta.size.
SizeOf(dims) == IF dims = <<>> THEN 0 ELSE FoldLeft(LAMBDA a, d : a * d, 1, dims)

RECURSIVE receive_raw_object(_, _)
receive_udt(t, s) ==
    Tagged("udt", InARow(Len(t.sub),
                         LAMBDA i, r : receive_raw_object(t.sub[i], r), s))

\* A cell of the array: the number itself, or a pointer to the value.
receive_cell(t, s) ==
    Then(Word("c", s), LAMBDA isnull, r :
    IF isnull = "N" THEN Got(Null, r)
    ELSE CASE t.type \in Numbers -> Tagged(TagOf[t.type], Word(WordOf[t.type], r))
           [] t.type = "TEXT" -> Tagged("ptr", Tagged("s", receive_cstring(r)))
           [] t.type = "BYTEA" -> Tagged("ptr", Tagged("b", receive_bytea(r)))
           [] t.type = "UDT" -> Tagged("ptr", receive_udt(t, r)))

receive_array(t, s) ==
    Then(Word("i4", s), LAMBDA ndims, r1 :
    Then(InARow(ndims, LAMBDA i, r : Word("i4", r), r1), LAMBDA dims, r2 :
    Then(InARow(SizeOf(dims), LAMBDA i, r : receive_cell(t, r), r2), LAMBDA cells, rest :
    Got(<<"arr", dims, cells>>, rest))))

receive_raw_object(t, s) ==
    Then(Word("c", s), LAMBDA isn, r :
    IF isn = "N" THEN Got(Null, r)
    ELSE CASE t.type \in Numbers -> Tagged(TagOf[t.type], Word(WordOf[t.type], r))
           [] t.type = "TEXT" -> Tagged("s", receive_cstring(r))
           [] t.type = "BYTEA" -> Tagged("b", receive_bytea(r))
           [] t.type = "ARRAY" -> receive_array(t.sub[1], r)
           [] t.type = "UDT" -> receive_udt(t, r)
           [] OTHER -> Got(Null, Bad))

receive_argument(s) ==
    Then(Gets(<<"cstr", "type">>, s), LAMBDA head, r :
    Then(receive_raw_object(head[2], r), LAMBDA data, rest :
    Got([name |-> head[1], type |-> head[2], data |-> data], rest)))
receive_arguments(s) ==
    Then(Word("i4", s), LAMBDA nargs, r1 : InARow(nargs, LAMBDA i, r : receive_argument(r), r1))

receive_exception(s) ==
    Then(Gets(<<"cstr", "cstr">>, s), LAMBDA f, r :
    Got([t |-> "EXCEPTION", message |-> f[1], stacktrace |-> f[2]], r))

\* A peer of another version is an error: the message is not delivered.
receive_ping(version, s) ==
    Then(receive_cstring(s), LAMBDA v, r :
    Got([t |-> "PING", version |-> v], IF v = version THEN r ELSE Bad))

receive_call(s) ==
    Then(Gets(<<"cstr", "cstr", "cstr", "i4", "i4", "i4", "type", "i4">>, s), LAMBDA f, r :
    Then(receive_arguments(r), LAMBDA args, rest :
    Got([t |-> "CALLREQ", name |-> f[1], src |-> f[2], serverenc |-> f[3],
         logLevel |-> f[4], objectid |-> f[5], hasChanged |-> f[6],
         retType |-> f[7], retset |-> f[8], args |-> args], rest)))

receive_log(s) ==
    Then(Gets(<<"i4", "cstr">>, s), LAMBDA f, r :
    Got([t |-> "LOG", level |-> f[1], message |-> f[2]], r))
receive_quote(s) ==
    Then(Gets(<<"i4", "cstr">>, s), LAMBDA f, r :
    Got([t |-> "QUOTE", quote_type |-> f[1], msg |-> f[2]], r))
receive_quote_result(s) ==
    Then(Gets(<<"i4", "cstr">>, s), LAMBDA f, r :
    Got([t |-> "QUOTE_RESULT", quote_type |-> f[1], result |-> f[2]], r))
receive_subtransaction(s) ==
    Then(Gets(<<"c", "c">>, s), LAMBDA f, r :
    Got([t |-> "SUBTRANSACTION", action |-> f[1], type |-> f[2]], r))
receive_subtransaction_result(s) ==
    Then(Word("i2", s), LAMBDA v, r : Got([t |-> "SUBTRAN_RESULT", result |-> v], r))
receive_rawmsg(s) ==
    Then(receive_bytea(s), LAMBDA v, r : Got([t |-> "RAW", data |-> v], r))

receive_sql_statement(s) ==
    Then(Gets(<<"i8", "cstr">>, s), LAMBDA f, r :
    Got([t |-> "SQL", sqltype |-> SQL_TYPE_STATEMENT, limit |-> f[1], statement |-> f[2]], r))
receive_sql_prepare(s) ==
    Then(receive_arguments(s), LAMBDA args, r1 :
    Then(receive_cstring(r1), LAMBDA stmt, r :
    Got([t |-> "SQL", sqltype |-> SQL_TYPE_PREPARE, args |-> args, statement |-> stmt], r)))
receive_sql_unprepare(s) ==
    Then(Word("i8", s), LAMBDA v, r :
    Got([t |-> "SQL", sqltype |-> SQL_TYPE_UNPREPARE, pplan |-> v], r))
\* Variant: the plan is read before the limit.
PlanFirst(s) ==
    Then(receive_arguments(s), LAMBDA args, r1 :
    Then(Gets(<<"i8", "i8">>, r1), LAMBDA f, r :
    Got([t |-> "SQL", sqltype |-> SQL_TYPE_PEXECUTE, args |-> args, limit |-> f[2],
         pplan |-> f[1]], r)))
receive_sql_pexecute(s) ==
    Then(receive_arguments(s), LAMBDA args, r1 :
    Then(Gets(<<"i8", "i8">>, r1), LAMBDA f, r :
    Got([t |-> "SQL", sqltype |-> SQL_TYPE_PEXECUTE, args |-> args, limit |-> f[1],
         pplan |-> f[2]], r)))

receive_sql(s) ==
    Then(Word("i4", s), LAMBDA typ, r :
    CASE typ = SQL_TYPE_STATEMENT -> receive_sql_statement(r)
      [] typ = SQL_TYPE_PREPARE -> receive_sql_prepare(r)
      [] typ = SQL_TYPE_UNPREPARE -> receive_sql_unprepare(r)
      [] typ = SQL_TYPE_PEXECUTE -> receive_sql_pexecute(r)
      [] OTHER -> Got(NoMsg, Bad))

\* A result that carries an exception is delivered as that exception.
receive_result(s) ==
    Then(Gets(<<"i4", "i4">>, s), LAMBDA head, r1 :
    Then(InARow(head[2], LAMBDA i, r : Gets(<<"type", "cstr">>, r), r1), LAMBDA cols, r2 :
    Then(InARow(IF head[2] = 0 THEN 0 ELSE head[1],
                LAMBDA i, r : InARow(head[2],
                    LAMBDA j, q : receive_raw_object(cols[j][1], q), r), r2), LAMBDA rows, r3 :
    Then(Word("c", r3), LAMBDA exc, rest :
    IF exc = "E" THEN receive_exception(rest)
    ELSE Got([t |-> "RESULT", rows |-> head[1],
              types |-> [i \in 1..Len(cols) |-> cols[i][1]],
              names |-> [i \in 1..Len(cols) |-> cols[i][2]],
              data |-> rows, exc |-> NoMsg], rest)))))

\* mask is the set of message kinds the caller expects; anything else is an
\* error.  version is the receiver's own.
plcontainer_channel_receive(s, mask, version) ==
    LET Of(kind, got) == IF kind \in mask THEN got ELSE Got(NoMsg, Bad)
    IN  Then(Word("c", s), LAMBDA c, r :
        CASE c = "P" -> Of("PING", receive_ping(version, r))
          [] c = "C" -> Of("CALLREQ", receive_call(r))
          [] c = "R" -> Of("RESULT", receive_result(r))
          [] c = "E" -> Of("EXCEPTION", receive_exception(r))
          [] c = "L" -> Of("LOG", receive_log(r))
          [] c = "Q" -> Of("QUOTE", receive_quote(r))
          [] c = "O" -> Of("QUOTE_RESULT", receive_quote_result(r))
          [] c = "S" -> Of("SQL", receive_sql(r))
          [] c = "W" -> Of("RAW", receive_rawmsg(r))
          [] c = "N" -> Of("SUBTRANSACTION", receive_subtransaction(r))
          [] c = "Z" -> Of("SUBTRAN_RESULT", receive_subtransaction_result(r))
          [] OTHER -> Got(NoMsg, Bad))
=============================================================================
