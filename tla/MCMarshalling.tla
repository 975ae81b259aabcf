---------------------------- MODULE MCMarshalling ----------------------------
(***************************************************************************)
(* The instance of Marshalling that TLC checks: one value or more of every *)
(* kind fill_type_info knows, for both clients, and one message of every   *)
(* kind the channel carries.                                               *)
(***************************************************************************)
EXTENDS Marshalling

Bool == [k |-> "bool"]
Int2 == [k |-> "int2"]
Int4 == [k |-> "int4"]
Int8 == [k |-> "int8"]
Float4 == [k |-> "float4"]
Float8 == [k |-> "float8"]
Numeric == [k |-> "numeric"]
Text == [k |-> "text"]
Bytea == [k |-> "bytea"]
Domain == [k |-> "domain"]
Array(t) == [k |-> "array", elem |-> t]
RowType(n, atts) == [k |-> "row", name |-> <<n>>, atts |-> atts]
Att(n, t) == [name |-> <<n>>, dropped |-> FALSE, type |-> t]
Gone(n, byval) == [name |-> <<n>>, dropped |-> TRUE, type |-> Null, byval |-> byval]

Pair == RowType("pair", << Att("a", Int4), Att("b", Text) >>)
Rich == RowType("rich", << Att("a", Int8), Att("b", Array(Int4)), Att("c", Array(Text)) >>)
Nested == RowType("nested", << Att("a", Int4), Att("p", Pair) >>)
LastGone == RowType("last", << Att("a", Int4), Att("b", Numeric), Gone("x", TRUE), Gone("y", TRUE) >>)
TextGone == RowType("text", << Att("a", Int4), Gone("x", FALSE) >>)
MidGone == RowType("mid", << Att("a", Int4), Gone("x", TRUE), Att("b", Text), Att("c", Int4) >>)

I(n) == <<"i", n>>
F(n) == <<"f", n>>
S(c) == <<"s", <<c>> >>
B(c) == <<"b", <<c>> >>
Arr(dims, elems) == <<"array", dims, elems>>
Nine == [i \in 1..9 |-> IF i \in {2, 9} THEN Null ELSE I(i)]

\* <<type, values>>: the arguments both clients are given.
Arguments == <<
    << Bool, {I(0), I(1), Null} >>, << Int2, {I(-32768), Null} >>, << Int4, {I(0), I(70000)} >>,
    << Int8, {I(5)} >>, << Float4, {F(2)} >>, << Float8, {F(3), Null} >>,
    << Numeric, {<<"num", 4, 7>>, Null} >>, << Text, {S("x"), <<"s", <<>> >>, Null} >>,
    << Domain, {I(1)} >>, << Array(Domain), {Null} >>,
    << Array(Bool), {Arr(<<2>>, <<I(1), I(0)>>), Arr(<<2>>, <<Null, I(1)>>)} >>,
    << Array(Int4), {Null, Arr(<<>>, <<>>), Arr(<<9>>, Nine), Arr(<<2>>, <<Null, I(1)>>),
                     Arr(<<2, 2>>, <<I(1), Null, I(3), I(4)>>)} >>,
    << Array(Int8), {Arr(<<3>>, <<Null, I(1), I(2)>>)} >>,
    << Array(Numeric), {Arr(<<2>>, << <<"num", 4, 7>>, Null >>)} >>,
    << Array(Text), {Arr(<<3>>, <<S("x"), Null, <<"s", <<>> >> >>)} >>,
    << Pair, {<<"row", <<I(1), S("x")>> >>, <<"row", <<Null, S("y")>> >>, Null} >>,
    << Array(Pair), {Arr(<<3>>, << <<"row", <<I(1), S("x")>> >>, Null,
                                   <<"row", <<I(2), Null>> >> >>),
                     Arr(<<2, 1>>, << <<"row", <<I(1), S("x")>> >>,
                                      <<"row", <<I(2), Null>> >> >>)} >>,
    << Rich, {<<"row", <<I(7), Arr(<<2>>, <<I(1), Null>>), Arr(<<1>>, <<S("x")>>)>> >>,
              <<"row", <<I(7), Arr(<<2>>, <<Null, I(1)>>), Null>> >>} >>,
    << Nested, {<<"row", <<I(1), <<"row", <<I(2), S("x")>> >> >> >>} >>,
    << LastGone, {<<"row", <<I(1), <<"num", 4, 7>>, Null, Null>> >>} >>,
    << TextGone, {<<"row", <<I(1), Null>> >>} >>,
    << MidGone, {<<"row", <<I(1), Null, S("x"), I(2)>> >>,
                 <<"row", <<I(1), Null, Null, I(2)>> >>} >> >>

\* bytea is serialized R data in the R client: only the Python one gets these.
PyArguments == <<
    << Bytea, {B("x"), <<"b", <<>> >>} >>,
    << Array(Bytea), {Arr(<<3>>, <<B("x"), Null, B("y")>>)} >>,
    << Array(Int2), {Arr(<<1, 2, 2>>, <<I(1), I(2), Null, I(4)>>)} >> >>

IdentityCalls(lang, args) ==
    UNION {{Identity(lang, args[i][1], d) : d \in args[i][2]} : i \in 1..Len(args)}

-----------------------------------------------------------------------------
PInt(n) == <<"int", n>>
PList(items) == <<"list", items>>
PStr(c) == <<"str", <<c>> >>
PDict(keys, objs) ==
    <<"dict", [n \in {<<keys[i]>> : i \in 1..Len(keys)} |->
                objs[CHOOSE i \in 1..Len(keys) : <<keys[i]>> = n]]>>
PNone == <<"none">>
PGen(items, raises) == <<"gen", items, raises>>

PairOf(a, b) == PDict(<<"a", "b">>, <<a, b>>)

\* <<type, retset, objects>>
PyResults == <<
    << Int4, 0, {PInt(3), <<"float", 3>>, PNone, PStr("x")} >>,
    << Int2, 0, {PInt(40000), PInt(-1)} >>, << Bool, 0, {PInt(1), PInt(100), PInt(256)} >>,
    << Numeric, 0, {PInt(3), PList(<<>>)} >>,
    << Text, 0, {PStr("x"), PInt(3), <<"float", 3>>} >>,
    << Bytea, 0, {PStr("x"), PInt(3)} >>,
    << Array(Int4), 0,
       {PList(<<>>), PList(<<PInt(1), PNone, PInt(3)>>), PStr("x"),
        PList(<<PInt(1), PStr("x"), PInt(3)>>), PList(<<PStr("x"), PStr("y")>>),
        PList(<<PList(<<PInt(1), PInt(2)>>), PList(<<PInt(3), PInt(4)>>)>>),
        PList(<<PList(<<PInt(1), PInt(2)>>), PList(<<PInt(3)>>)>>),
        PList(<<PList(<<PInt(1), PInt(2)>>), PInt(3)>>),
        PList(<<PList(<<PInt(1), PInt(2)>>), PNone, PList(<<PInt(5), PInt(6), PInt(7)>>)>>),
        PList(<<PList(<<>>), PList(<<PInt(1)>>)>>),
        PList(<<PList(<<PList(<<PInt(1)>>), PList(<<PInt(2)>>)>>),
                PList(<<PList(<<PInt(3)>>), PList(<<PInt(4)>>)>>)>>),
        PList(<<PList(<<PList(<<PInt(1)>>), PList(<<PInt(2)>>)>>),
                PList(<<PList(<<PInt(3)>>)>>)>>)} >>,
    << Array(Text), 0, {PList(<<PStr("x"), PInt(1)>>)} >>,
    << Array(Bytea), 0, {PList(<<PStr("x"), PNone>>)} >>,
    << Pair, 0, {PairOf(PInt(1), PStr("x")), PairOf(PNone, PInt(2)), PairOf(PStr("x"), PInt(1)),
                 PDict(<<"a">>, <<PInt(1)>>), PInt(1)} >>,
    << Array(Pair), 0, {PList(<<PairOf(PInt(1), PStr("x")), PNone>>),
                        PList(<<PairOf(PInt(1), PStr("x")), PDict(<<"a">>, <<PInt(1)>>)>>)} >>,
    << Rich, 0, {PDict(<<"a", "b", "c">>, <<PInt(1), PList(<<PInt(2), PNone>>), PNone>>),
                 PDict(<<"a", "b", "c">>, <<PInt(1), PList(<<PInt(2), PStr("x")>>), PNone>>),
                 PDict(<<"a", "b", "c">>, <<PInt(1), PInt(2), PNone>>)} >>,
    << MidGone, 0, {PDict(<<"a", "b", "c">>, <<PInt(1), PNone, PInt(2)>>)} >>,
    << Int4, 1, {PList(<<PInt(1), PNone, PInt(3)>>), PList(<<PInt(1), PStr("x")>>), PInt(1),
                 PList(<<>>), PGen(<<PInt(1), PNone, PInt(3)>>, FALSE), PGen(<<>>, FALSE),
                 PGen(<<PInt(1), PInt(2)>>, TRUE), PGen(<<PInt(1), PStr("x")>>, FALSE)} >>,
    << Text, 1, {PStr("x"), PDict(<<"a">>, <<PInt(1)>>)} >>,
    << Array(Int4), 1, {PList(<<PList(<<PInt(1)>>), PNone, PList(<<PInt(1), PInt(2)>>)>>),
                        PList(<<PList(<<PInt(1)>>), PList(<<PStr("x")>>)>>)} >> >>

Ints(ns) == [i \in 1..Len(ns) |-> I(ns[i])]
RVec(mode, elems) == <<"vec", mode, elems, <<>> >>
RList(elems, class) == <<"rlist", elems, class, <<>> >>
Ch(cs) == [i \in 1..Len(cs) |-> S(cs[i])]

RResults == <<
    << Int4, 0, {RVec("int", Ints(<<3>>)), RVec("real", Ints(<<3>>)), RVec("str", Ch(<<"x">>)),
                 RVec("int", << <<"NA">> >>), <<"NULL">>} >>,
    << Bool, 0, {RVec("lgl", << <<"NA">> >>), RVec("int", Ints(<<7>>))} >>,
    << Float8, 0, {RVec("real", << <<"NA">> >>)} >>,
    << Text, 0, {RVec("str", Ch(<<"x">>)), RVec("int", Ints(<<3>>))} >>,
    << Array(Int4), 0, {RVec("int", Ints(<<1, 2>>)), RVec("real", Ints(<<1, 2>>)),
                        RVec("real", [i \in 1..20 |-> I(i)]),
                        RVec("int", << I(1), <<"NA">> >>), <<"NULL">>,
                        <<"vec", "int", Ints(<<1, 2, 3, 4>>), <<2, 2>> >>} >>,
    << Array(Float8), 0, {RVec("int", Ints(<<1>>)), RVec("real", << F(1), <<"NA">> >>)} >>,
    << Array(Bool), 0, {RVec("int", Ints(<<1, 0, 1, 0>>))} >>,
    << Array(Text), 0, {RVec("str", << S("x"), <<"NA">> >>), RVec("int", Ints(<<3>>))} >>,
    << Text, 1, {RVec("str", << S("x"), <<"NA">> >>), RVec("int", Ints(<<3>>))} >>,
    << Pair, 0, {RList(<<RVec("int", Ints(<<1>>)), RVec("str", Ch(<<"x">>))>>, "plain"),
                 RList(<<RVec("real", Ints(<<1>>)), RVec("str", Ch(<<"x">>))>>, "plain"),
                 RList(<<RVec("int", Ints(<<1>>)), RVec("int", Ints(<<2>>))>>, "plain")} >>,
    << Array(Pair), 0, {RList(<<RList(<<RVec("real", Ints(<<1>>)),
                                        RVec("str", Ch(<<"x">>))>>, "plain")>>, "plain")} >>,
    << Pair, 1, {RList(<<RVec("int", Ints(<<1, 2>>)), RVec("str", Ch(<<"x", "y">>))>>, "frame"),
                 RList(<<RVec("real", Ints(<<1, 2>>)), RVec("str", Ch(<<"x", "y">>))>>, "frame")} >>,
    << Float8, 1, {RVec("real", << F(1), <<"NA">>, F(3) >>), RVec("str", Ch(<<"x">>))} >>,
    << Array(Int4), 1, {<<"vec", "int", Ints(<<1, 2, 3, 4, 5, 6>>), <<2, 3>> >>,
                        RList(<<RVec("int", Ints(<<1>>)), <<"NULL">>>>, "plain"),
                        RVec("int", Ints(<<1, 2>>))} >> >>

ReturnCalls(lang, results) ==
    UNION {{Returning(lang, results[i][1], results[i][2], o) : o \in results[i][3]} :
             i \in 1..Len(results)}

MCCalls ==
    IdentityCalls("python", Arguments \o PyArguments) \cup IdentityCalls("r", Arguments)
      \cup ReturnCalls("python", PyResults) \cup ReturnCalls("r", RResults)

-----------------------------------------------------------------------------
MCVersion == <<"2.1">>

WireInt == Type("INT4", NoStr, <<>>)
WireText == Type("TEXT", <<"b">>, <<>>)
WirePair == Type("UDT", <<"pair">>, << WireInt, WireText >>)
Argument1 == [name |-> <<"x">>, type |-> WireInt, data |-> I(1)]
Argument2 == [name |-> NoStr, type |-> WirePair, data |-> <<"udt", <<I(1), Null>> >>]
Nothing == [name |-> <<"y">>, type |-> WireText, data |-> Null]
Exception == [t |-> "EXCEPTION", message |-> <<"m">>, stacktrace |-> NoStr]

MCMessages == {
    [t |-> "PING", version |-> MCVersion],
    [t |-> "CALLREQ", name |-> <<"f">>, src |-> <<"s">>, serverenc |-> <<"UTF8">>,
     logLevel |-> 1, objectid |-> 2, hasChanged |-> 3, retType |-> WirePair, retset |-> 0,
     args |-> << Argument1, Argument2, Nothing >>],
    Exception,
    [t |-> "LOG", level |-> 1, message |-> <<"m">>],
    [t |-> "QUOTE", quote_type |-> 1, msg |-> <<"m">>],
    [t |-> "QUOTE_RESULT", quote_type |-> 2, result |-> <<"r">>],
    [t |-> "SUBTRANSACTION", action |-> "b", type |-> "e"],
    [t |-> "SUBTRAN_RESULT", result |-> 0],
    [t |-> "RAW", data |-> <<"r", "w">>],
    [t |-> "SQL", sqltype |-> SQL_TYPE_STATEMENT, limit |-> 7, statement |-> <<"select">>],
    [t |-> "SQL", sqltype |-> SQL_TYPE_PREPARE, args |-> << Nothing >>,
     statement |-> <<"select">>],
    [t |-> "SQL", sqltype |-> SQL_TYPE_UNPREPARE, pplan |-> 9],
    [t |-> "SQL", sqltype |-> SQL_TYPE_PEXECUTE, args |-> << Argument2, Argument1 >>,
     limit |-> 7, pplan |-> 9],
    [t |-> "RESULT", rows |-> 2, types |-> << WireInt, WireText >>,
     names |-> << <<"a">>, NoStr >>, data |-> << <<I(1), Null>>, <<Null, S("x")>> >>,
     exc |-> NoMsg],
    [t |-> "RESULT", rows |-> 3, types |-> <<>>, names |-> <<>>, data |-> <<>>, exc |-> NoMsg],
    [t |-> "RESULT", rows |-> 1, types |-> << WireInt >>, names |-> << <<"a">> >>,
     data |-> << <<I(1)>> >>, exc |-> Exception]}
=============================================================================
