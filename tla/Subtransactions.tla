--------------------------- MODULE Subtransactions ---------------------------
(***************************************************************************)
(* The subtransactions of one session: those that plpy.subtransaction      *)
(* enters and exits (src/src/subtransaction_handler.c), the one around     *)
(* every statement of a function (handle_sql_message, src/src/             *)
(* sqlhandler.c), and those of exception blocks in the SQL between two     *)
(* calls.  The server keeps one stack of open subtransactions and ends     *)
(* whichever is innermost; the list explicit_subtransactions remembers     *)
(* which of them functions have entered.                                   *)
(*                                                                         *)
(* A level of the server's stack is its depth, 0 for the transaction       *)
(* itself.  What statements have done is a counter: a rollback puts back   *)
(* the value it had when the subtransaction began.                         *)
(***************************************************************************)
EXTENDS Integers, Sequences

CONSTANTS
    MaxCalls,    \* bound: calls the session makes
    MaxDepth,    \* bound: nesting of calls
    MaxWrites,   \* bound: statements that change something
    Objects,     \* subtransaction objects functions create
    Habits       \* which of AllHabits functions have

AllHabits ==
    {"shared",     \* a function exits an object that another run entered (GD)
     "unordered"}  \* a function exits its objects in any order

ASSUME SubxAssumption ==
    /\ MaxCalls \in Nat
    /\ MaxDepth \in Nat
    /\ MaxWrites \in Nat
    /\ Habits \subseteq AllHabits

VARIABLES
    stack,   \* the calls the QE is in, outermost first
    calls,   \* how many calls the session has started
    xact,    \* the server's open subtransactions, outermost first
    owner,   \* CurrentResourceOwner: the level it belongs to
    explicit_subtransactions,  \* oldowner of each entry, innermost first
    effect,  \* how much statements have changed
    objs     \* the Python objects

vars == <<stack, calls, xact, owner, explicit_subtransactions, effect, objs>>

\* Where a call is: its function runs, it executes a statement, the statement
\* has failed, or the call is leaving with an error.
PCs == {"run", "sql", "fail", "error"}

\* save is save_subxact_level, oldowner a local of handle_sql_message; block
\* tells whether an exception block was entered for the call ("plain" if
\* not), and base is the level at which the call began (an observation).
Frames == [id : 1 .. MaxCalls, pc : PCs, save : Nat, oldowner : Nat,
           block : {"plain", "block"}, base : Nat]

\* kind tells who began a subtransaction, call in which call (observations);
\* undo is the effect when it began.
Levels == [kind : {"explicit", "spi", "block"}, call : 0 .. MaxCalls, undo : Nat]

\* run is the call that entered the object, level and undo the level of its
\* subtransaction and the effect at that time (observations).
ObjectStates == [state : {"unused", "started", "exited"}, run : 0 .. MaxCalls,
                 level : Nat, undo : Nat]
Idle(state) == [state |-> state, run |-> 0, level |-> 0, undo |-> 0]

TopOf(s) == s[Len(s)]
Pop(s) == SubSeq(s, 1, Len(s) - 1)
Top == TopOf(stack)
At(pc) == stack # <<>> /\ Top.pc = pc

\* A frame somewhere else in its call.
Moved(f, pc, oldowner) ==
    [id |-> f.id, pc |-> pc, save |-> f.save, oldowner |-> oldowner,
     block |-> f.block, base |-> f.base]
Goto(pc) == stack' = [stack EXCEPT ![Len(stack)] = Moved(Top, pc, Top.oldowner)]

Init ==
    /\ stack = <<>>
    /\ calls = 0
    /\ xact = <<>>
    /\ owner = 0
    /\ explicit_subtransactions = <<>>
    /\ effect = 0
    /\ objs = [o \in Objects |-> Idle("unused")]

\* BeginInternalSubTransaction, for the given code of the given call.
Begin(kind, call) ==
    xact' = Append(xact, [kind |-> kind, call |-> call, undo |-> effect])

-----------------------------------------------------------------------------
(* Calls. *)

\* Variant: save_subxact_level is one too low.
CallSavesLess(block) ==
    /\ calls < MaxCalls
    /\ stack = <<>>
    /\ block = "plain"
    /\ calls' = calls + 1
    /\ stack' = <<[id |-> calls + 1, pc |-> "run", save |-> Len(explicit_subtransactions) - 1,
                   oldowner |-> 0, block |-> block, base |-> Len(xact)]>>
    /\ UNCHANGED <<xact, owner, explicit_subtransactions, effect, objs>>

\* SQL calls a function, inside an exception block or not.
Call(block) ==
    /\ calls < MaxCalls
    /\ Len(stack) < MaxDepth
    /\ IF stack = <<>> THEN block = "plain" ELSE Top.pc = "sql"
    /\ IF block = "block" THEN Begin("block", calls + 1) ELSE UNCHANGED xact
    /\ owner' = Len(xact')
    /\ calls' = calls + 1
    /\ stack' = Append(stack,
         [id |-> calls + 1, pc |-> "run", save |-> Len(explicit_subtransactions),
          oldowner |-> 0, block |-> block, base |-> Len(xact')])
    /\ UNCHANGED <<explicit_subtransactions, effect, objs>>

\* plcontainer_abort_open_subtransactions(level) rolls back the innermost
\* subtransaction once for every lingering entry of the list.
Lingering(level) == Len(explicit_subtransactions) - level
AbortedXact(level) ==
    IF Lingering(level) > 0 THEN SubSeq(xact, 1, Len(xact) - Lingering(level)) ELSE xact
AbortedList(level) ==
    IF Lingering(level) > 0
    THEN SubSeq(explicit_subtransactions, Lingering(level) + 1, Len(explicit_subtransactions))
    ELSE explicit_subtransactions
AbortedEffect(level) ==
    IF Lingering(level) > 0 THEN xact[Len(xact) - Lingering(level) + 1].undo ELSE effect
AbortedOwner(level) ==
    IF Lingering(level) > 0 THEN explicit_subtransactions[Lingering(level)] ELSE owner

\* Variant: subtransactions that are still open are forgotten.
ReturnsWithoutAbort ==
    /\ At("run")
    /\ xact' = IF Top.block = "block" THEN Pop(xact) ELSE xact
    /\ owner' = Len(xact')
    /\ stack' = Pop(stack)
    /\ UNCHANGED <<calls, explicit_subtransactions, effect, objs>>

\* The call ends with a result; what it left open is aborted, and then the
\* exception block around it, if any, ends as well.
CallReturns ==
    /\ At("run")
    /\ LET rest == AbortedXact(Top.save) IN
       xact' = IF Top.block = "block" THEN Pop(rest) ELSE rest
    /\ owner' = IF Top.block = "block" THEN Len(xact') ELSE AbortedOwner(Top.save)
    /\ explicit_subtransactions' = AbortedList(Top.save)
    /\ effect' = AbortedEffect(Top.save)
    /\ stack' = Pop(stack)
    /\ UNCHANGED <<calls, objs>>

\* The function raises an exception, or the client dies.
FunctionFails ==
    /\ At("run")
    /\ Goto("error")
    /\ UNCHANGED <<calls, xact, owner, explicit_subtransactions, effect, objs>>

\* The error leaves the call: what it left open is aborted.  Then the
\* exception block around the call is rolled back and the statement goes on,
\* or the statement around the call fails, or the transaction is aborted.
CallFails ==
    /\ At("error")
    /\ explicit_subtransactions' = AbortedList(Top.save)
    /\ LET rest == AbortedXact(Top.save) IN
       IF Len(stack) = 1
       THEN /\ xact' = <<>>
            /\ effect' = 0
            /\ owner' = 0
            /\ stack' = <<>>
       ELSE IF Top.block = "block"
       THEN /\ xact' = Pop(rest)
            /\ effect' = TopOf(rest).undo
            /\ owner' = Len(xact')
            /\ stack' = Pop(stack)
       ELSE /\ xact' = rest
            /\ effect' = AbortedEffect(Top.save)
            /\ owner' = AbortedOwner(Top.save)
            /\ LET caller == TopOf(Pop(stack)) IN
               stack' = [Pop(stack) EXCEPT ![Len(stack) - 1] =
                            Moved(caller, "fail", caller.oldowner)]
    /\ UNCHANGED <<calls, objs>>

-----------------------------------------------------------------------------
(* Statements: handle_sql_message. *)

SqlBegins ==
    /\ At("run")
    /\ Begin("spi", Top.id)
    /\ stack' = [stack EXCEPT ![Len(stack)] = Moved(Top, "sql", owner)]
    /\ owner' = Len(xact')
    /\ UNCHANGED <<calls, explicit_subtransactions, effect, objs>>

\* A statement changes something.
SqlWrites ==
    /\ At("sql")
    /\ effect < MaxWrites
    /\ effect' = effect + 1
    /\ UNCHANGED <<stack, calls, xact, owner, explicit_subtransactions, objs>>

\* Variant: the subtransaction of the statement is not released.
SqlEndsUnreleased ==
    /\ At("sql")
    /\ owner' = Top.oldowner
    /\ Goto("run")
    /\ UNCHANGED <<calls, xact, explicit_subtransactions, effect, objs>>

SqlEnds ==
    /\ At("sql")
    /\ xact' = Pop(xact)
    /\ owner' = Top.oldowner
    /\ Goto("run")
    /\ UNCHANGED <<calls, explicit_subtransactions, effect, objs>>

\* The statement fails by itself or because a call in it did; the error ends
\* the call that made it: the function gets no chance to handle it.
SqlFails ==
    /\ At("sql") \/ At("fail")
    /\ xact' = Pop(xact)
    /\ effect' = TopOf(xact).undo
    /\ owner' = Top.oldowner
    /\ Goto("error")
    /\ UNCHANGED <<calls, explicit_subtransactions, objs>>

-----------------------------------------------------------------------------
(* plpy.subtransaction. *)

Started(o) ==
    objs' = [objs EXCEPT ![o] = [state |-> "started", run |-> Top.id,
                                 level |-> Len(xact) + 1, undo |-> effect]]

\* PLy_subtransaction_enter and plcontainer_subtransaction_enter.
Enter(o) ==
    /\ At("run")
    /\ objs[o].state = "unused"
    /\ Started(o)
    /\ Begin("explicit", Top.id)
    /\ explicit_subtransactions' = <<owner>> \o explicit_subtransactions
    /\ owner' = Len(xact')
    /\ UNCHANGED <<stack, calls, effect>>

\* BeginInternalSubTransaction fails: the client turns the error in the reply
\* into an exception, which ends the call.  The object counts as started.
EnterFails(o) ==
    /\ At("run")
    /\ objs[o].state = "unused"
    /\ Started(o)
    /\ Goto("error")
    /\ UNCHANGED <<calls, xact, owner, explicit_subtransactions, effect>>

OpenObjects == {o \in Objects : objs[o].state = "started" /\ objs[o].run = Top.id}

\* What the client asks of an object that is exited: that it was entered, and not
\* exited before, by whichever run and in whichever order.
Exitable == {o \in Objects : objs[o].state = "started"}

\* What functions do by themselves, unless they have the habit: exit what the
\* same run entered, and what it entered last first, as "with" blocks do.  No
\* code enforces it.
WellNested(o) ==
    /\ "shared" \notin Habits => o \in OpenObjects
    /\ "unordered" \notin Habits => \A p \in OpenObjects : objs[p].level <= objs[o].level

\* Variant: a subtransaction that is rolled back is released as well.
ExitEndsTwo(o, how) ==
    /\ At("run") /\ o \in Exitable /\ explicit_subtransactions # <<>>
    /\ objs' = [objs EXCEPT ![o] = Idle("exited")]
    /\ xact' = IF how = "n" THEN SubSeq(xact, 1, Len(xact) - 2) ELSE Pop(xact)
    /\ effect' = IF how = "n" THEN TopOf(xact).undo ELSE effect
    /\ owner' = Head(explicit_subtransactions)
    /\ explicit_subtransactions' = Tail(explicit_subtransactions)
    /\ UNCHANGED <<stack, calls>>

\* Variant: the subtransaction is released whatever the message says.
ExitReleases(o, how) ==
    /\ At("run") /\ o \in Exitable /\ explicit_subtransactions # <<>>
    /\ objs' = [objs EXCEPT ![o] = Idle("exited")]
    /\ xact' = Pop(xact)
    /\ owner' = Head(explicit_subtransactions)
    /\ explicit_subtransactions' = Tail(explicit_subtransactions)
    /\ UNCHANGED <<stack, calls, effect>>

\* PLy_subtransaction_exit and plcontainer_subtransaction_exit: how is "e" to
\* release the innermost subtransaction and "n" to roll it back.
Exit(o, how) ==
    /\ At("run")
    /\ o \in Exitable
    /\ explicit_subtransactions # <<>>
    /\ objs' = [objs EXCEPT ![o] = Idle("exited")]
    /\ xact' = Pop(xact)
    /\ effect' = IF how = "n" THEN TopOf(xact).undo ELSE effect
    /\ owner' = Head(explicit_subtransactions)
    /\ explicit_subtransactions' = Tail(explicit_subtransactions)
    /\ UNCHANGED <<stack, calls>>

\* There is no subtransaction to exit, or ending it fails: the client turns
\* the error in the reply into an exception, which ends the call.
ExitFails(o) ==
    /\ At("run")
    /\ o \in Exitable
    /\ objs' = [objs EXCEPT ![o] = Idle("exited")]
    /\ Goto("error")
    /\ UNCHANGED <<calls, xact, owner, explicit_subtransactions, effect>>

Next ==
    \/ \E block \in {"plain", "block"} : Call(block)
    \/ CallReturns \/ FunctionFails \/ CallFails
    \/ SqlBegins \/ SqlWrites \/ SqlEnds \/ SqlFails
    \/ \E o \in Objects :
        \/ Enter(o) \/ EnterFails(o)
        \/ ExitFails(o) /\ WellNested(o)
        \/ \E how \in {"e", "n"} : Exit(o, how) /\ WellNested(o)

Spec == Init /\ [][Next]_vars

-----------------------------------------------------------------------------
(* Properties. *)

\* Every variable has its type.
TypeOK ==
    /\ stack \in Seq(Frames)
    /\ calls \in 0 .. MaxCalls
    /\ xact \in Seq(Levels)
    /\ owner \in Nat
    /\ explicit_subtransactions \in Seq(Nat)
    /\ effect \in Nat
    /\ objs \in [Objects -> ObjectStates]

\* How many subtransactions the innermost call should have open.
Expected ==
    Top.base + Len(explicit_subtransactions) - Top.save
        + (IF Top.pc \in {"sql", "fail"} THEN 1 ELSE 0)

\* The code that ends a subtransaction ends the one it began: while a call
\* runs, the server's stack is as deep as its frames and the list say, and a
\* statement's own subtransaction is the innermost one (handle_sql_message,
\* plcontainer_abort_open_subtransactions).  The current resource owner is that
\* of the innermost, whatever was saved and put back on the way (oldowner).
EndsItsOwn ==
    /\ owner = Len(xact)
    /\ stack # <<>> =>
        /\ Len(xact) = Expected
        /\ Top.pc \in {"sql", "fail"} => TopOf(xact).kind = "spi" /\ TopOf(xact).call = Top.id

\* Whatever a call does, fails to do or leaves open, and however deep it nests:
\* the statement each caller is executing still has its own subtransaction on the
\* server's stack, right below what was begun for the call, and an exception block
\* around a call still has its own.  So each of them ends its own when the error
\* or the result gets there (handle_sql_message after SPI_execute,
\* plcontainer_abort_open_subtransactions).
SurroundingsStand ==
    \A i \in 2 .. Len(stack) :
        LET base == stack[i].base
            caller == IF stack[i].block = "block" THEN base - 1 ELSE base
        IN  /\ base <= Len(xact)
            /\ xact[caller].kind = "spi" /\ xact[caller].call = stack[i - 1].id
            /\ stack[i].block = "block" =>
                  xact[base].kind = "block" /\ xact[base].call = stack[i].id

\* No call unnests a subtransaction of the calls around it: "plpy will only
\* let you close subtransactions that you started" (the assertion in
\* plcontainer_get_result).  The client does not: this does not hold of functions
\* that exit an object another run entered.
NeverUnnests == stack # <<>> => Len(explicit_subtransactions) >= Top.save

\* An exception that leaves a "with plpy.subtransaction()" block undoes all
\* that was done since the block was entered, by nested calls too
\* (plcontainer_subtransaction_exit).
ExitUndoes ==
    [][\A o \in Objects : Exit(o, "n") /\ WellNested(o) => effect' = objs[o].undo]_vars

\* When no call runs, no subtransaction is left open, in either record.
NothingLeftOpen == stack = <<>> => xact = <<>> /\ explicit_subtransactions = <<>>

=============================================================================
