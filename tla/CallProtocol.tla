----------------------------- MODULE CallProtocol -----------------------------
(***************************************************************************)
(* One database session calling user functions that run in containers:     *)
(* the query executor (QE, src/src/plcontainer.c) and, for every runtime,  *)
(* the client in the runtime's container (src/src/common/comm_server.c,    *)
(* src/src/pyclient).  A function may run SQL that calls further           *)
(* functions, in the same container or in another, so both sides keep a    *)
(* stack of calls; the session talks to a container over one connection    *)
(* with a FIFO queue in each direction.                                    *)
(*                                                                         *)
(* Calls are numbered in the order the QE starts them.  A message carries  *)
(* its type and the number of the call on whose behalf it was sent; the    *)
(* real messages carry no such number, and no decision of the model looks  *)
(* at it except to fill in observations.  The number is also the name of   *)
(* the connection whose backend the call started.                          *)
(***************************************************************************)
EXTENDS Integers, Sequences

CONSTANTS
    Runtimes,   \* runtime ids that functions name in their "# container:" line
    MaxCalls,   \* bound: calls the session makes
    MaxDepth,   \* bound: nesting of calls
    MaxOps,     \* bound: requests one run of a function makes
    Faults      \* the events of AllFaults that may happen in this instance

AllFaults ==
    {"backend",    \* a backend cannot be started
     "early",      \* the call fails before it looks for its container
     "sqlerror",   \* a statement or the conversion of a result fails
     "interrupt",  \* the user cancels the query, or statement_timeout expires
     "crash",      \* the client or its container dies
     "catch",      \* the SQL between two calls has an exception handler
     "raise",      \* plpy reports an error while the function keeps running
     "runon",      \* a function goes on using plpy after it called plpy.error
     "lateplan"}   \* the returned object holds the last reference to a plan

ASSUME CallAssumption ==
    /\ MaxCalls \in Nat
    /\ MaxDepth \in Nat
    /\ MaxOps \in Nat
    /\ Faults \subseteq AllFaults

VARIABLES
    stack,                    \* the calls the QE is in, outermost first
    calls,                    \* how many calls the session has started
    DeleteBackendsWhenError,  \* the flag of that name
    InterruptPending,         \* a cancel request that has not been served
    conn,      \* containers[]: the connection of each runtime, 0 for none
    client,    \* the client process behind each connection
    toClient,  \* messages sent by the QE and not yet received
    toServer,  \* messages sent by the client and not yet received
    outcome    \* observation: 0 while a call runs, Failed, or whose result it took

qeVars == <<stack, calls, DeleteBackendsWhenError, InterruptPending>>
vars == <<qeVars, conn, client, toClient, toServer, outcome>>

CallIds == 1 .. MaxCalls
Failed == -1

\* Where a call is: before get_container_conn, before sending the request, in
\* the receive loop, executing a statement, (un)preparing one, or unwinding
\* an error or a cancellation.
PCs == {"start", "send", "recv", "exec", "plan", "error", "cancel"}
Frames == [id : CallIds, rt : Runtimes, conn : 0 .. MaxCalls, pc : PCs]

\* What a run of a function is doing: running user code, or blocked until the
\* reply to a statement, a (un)prepare, a quote or a subtransaction request
\* arrives; "late" is an unprepare sent after the result.
Waits == {"run", "spi", "plan", "quote", "subx", "late"}
ClientFrames == [id : CallIds, wait : Waits, ops : 0 .. MaxOps]
Clients == [up : BOOLEAN, terminated : BOOLEAN, frames : Seq(ClientFrames)]

\* MT_SQL is split into statements and (un)prepares, MT_LOG by its level.
ServerTypes == {"RESULT", "EXCEPTION", "EXEC", "PLAN", "QUOTE", "SUBX", "LOG", "LOGERROR"}
ClientTypes == {"CALLREQ", "RESULT", "RAW", "QUOTE_RESULT", "SUBX_RESULT"}
Msg(type, id) == [type |-> type, id |-> id]

TopOf(s) == s[Len(s)]
Pop(s) == SubSeq(s, 1, Len(s) - 1)
SetTop(s, f) == [s EXCEPT ![Len(s)] = f]

Top == TopOf(stack)

Goto(pc) == stack' = SetTop(stack, [Top EXCEPT !.pc = pc])

NoClient == [up |-> FALSE, terminated |-> FALSE, frames |-> <<>>]
NewClient == [up |-> TRUE, terminated |-> FALSE, frames |-> <<>>]

Init ==
    /\ stack = <<>>
    /\ calls = 0
    /\ DeleteBackendsWhenError = FALSE
    /\ InterruptPending = FALSE
    /\ conn = [rt \in Runtimes |-> 0]
    /\ client = [rt \in Runtimes |-> NoClient]
    /\ toClient = [rt \in Runtimes |-> <<>>]
    /\ toServer = [rt \in Runtimes |-> <<>>]
    /\ outcome = [i \in CallIds |-> 0]

-----------------------------------------------------------------------------
(* The query executor. *)

\* SQL calls a function: a query of the user, or the statement that the
\* innermost running function asked for.
plcontainer_call_handler(rt) ==
    /\ calls < MaxCalls
    /\ Len(stack) < MaxDepth
    /\ stack # <<>> => Top.pc = "exec"
    /\ calls' = calls + 1
    /\ stack' = Append(stack, [id |-> calls + 1, rt |-> rt, conn |-> 0, pc |-> "start"])
    /\ UNCHANGED <<DeleteBackendsWhenError, InterruptPending, conn, client,
                   toClient, toServer, outcome>>

At(pc) == stack # <<>> /\ Top.pc = pc

\* plcontainer_get_result up to the check of the privileges: building the
\* request, parsing the "# container:" line, looking up the runtime.
RequestFails ==
    /\ "early" \in Faults
    /\ At("start")
    /\ Goto("error")
    /\ UNCHANGED <<calls, DeleteBackendsWhenError, InterruptPending, conn, client,
                   toClient, toServer, outcome>>

\* Variant: the flag is not set for a container that was there already.
UseContainerWithoutFlag ==
    /\ At("start")
    /\ conn[Top.rt] # 0
    /\ stack' = SetTop(stack, [Top EXCEPT !.conn = conn[Top.rt], !.pc = "send"])
    /\ UNCHANGED <<calls, DeleteBackendsWhenError, InterruptPending, conn, client,
                   toClient, toServer, outcome>>

\* get_container_conn finds the runtime's connection.
UseContainer ==
    /\ At("start")
    /\ conn[Top.rt] # 0
    /\ stack' = SetTop(stack, [Top EXCEPT !.conn = conn[Top.rt], !.pc = "send"])
    /\ DeleteBackendsWhenError' = TRUE
    /\ UNCHANGED <<calls, InterruptPending, conn, client, toClient, toServer, outcome>>

\* start_backend brings up a container and connects to its client.
StartContainer ==
    /\ At("start")
    /\ conn[Top.rt] = 0
    /\ stack' = SetTop(stack, [Top EXCEPT !.conn = Top.id, !.pc = "send"])
    /\ conn' = [conn EXCEPT ![Top.rt] = Top.id]
    /\ client' = [client EXCEPT ![Top.rt] = NewClient]
    /\ toClient' = [toClient EXCEPT ![Top.rt] = <<>>]
    /\ toServer' = [toServer EXCEPT ![Top.rt] = <<>>]
    /\ DeleteBackendsWhenError' = TRUE
    /\ UNCHANGED <<calls, InterruptPending, outcome>>

\* start_backend raises an error, or the interrupt it finds while it waits
\* for the client's answer to the ping.
StartContainerFails ==
    /\ "backend" \in Faults
    /\ At("start")
    /\ conn[Top.rt] = 0
    /\ \/ Goto("error") /\ InterruptPending' = InterruptPending
       \/ InterruptPending /\ Goto("cancel") /\ InterruptPending' = FALSE
    /\ DeleteBackendsWhenError' = TRUE
    /\ UNCHANGED <<calls, conn, client, toClient, toServer, outcome>>

Send(rt, type) == toClient' = [toClient EXCEPT ![rt] = Append(@, Msg(type, Top.id))]

\* The frame's connection is the one its runtime still has.
OwnConn == Top.conn = conn[Top.rt]

SendRequest ==
    /\ At("send")
    /\ Send(Top.rt, "CALLREQ")
    /\ Goto("recv")
    /\ UNCHANGED <<calls, DeleteBackendsWhenError, InterruptPending, conn, client,
                   toServer, outcome>>

\* send() to a client that is gone may fail at once, or only the next recv().
SendFails ==
    /\ At("send")
    /\ ~client[Top.rt].up
    /\ Goto("error")
    /\ UNCHANGED <<calls, DeleteBackendsWhenError, InterruptPending, conn, client,
                   toClient, toServer, outcome>>

\* The receive loop takes the next message of the connection.
Receive(types) ==
    /\ At("recv")
    /\ OwnConn
    /\ toServer[Top.rt] # <<>>
    /\ Head(toServer[Top.rt]).type \in types
    /\ toServer' = [toServer EXCEPT ![Top.rt] = Tail(@)]

\* Variant: the message stays in the input buffer.
ReceiveResultTwice ==
    /\ At("recv") /\ OwnConn
    /\ toServer[Top.rt] # <<>> /\ Head(toServer[Top.rt]).type = "RESULT"
    /\ DeleteBackendsWhenError' = FALSE
    /\ outcome' = [outcome EXCEPT ![Top.id] = Head(toServer[Top.rt]).id]
    /\ stack' = Pop(stack)
    /\ UNCHANGED <<calls, InterruptPending, conn, client, toClient, toServer>>

\* Variant: the receive loop is not left.
ReceiveResultWithoutBreak ==
    /\ Receive({"RESULT"})
    /\ DeleteBackendsWhenError' = FALSE
    /\ outcome' = [outcome EXCEPT ![Top.id] = Head(toServer[Top.rt]).id]
    /\ UNCHANGED <<stack, calls, InterruptPending, conn, client, toClient>>

\* MT_RESULT ends the call with what the message holds.
ReceiveResult ==
    /\ Receive({"RESULT"})
    /\ DeleteBackendsWhenError' = FALSE
    /\ outcome' = [outcome EXCEPT ![Top.id] = Head(toServer[Top.rt]).id]
    /\ stack' = Pop(stack)
    /\ UNCHANGED <<calls, InterruptPending, conn, client, toClient>>

\* MT_RESULT whose contents plcontainer_process_result cannot convert.
ReceiveBadResult ==
    /\ "sqlerror" \in Faults
    /\ Receive({"RESULT"})
    /\ DeleteBackendsWhenError' = FALSE
    /\ Goto("error")
    /\ UNCHANGED <<calls, InterruptPending, conn, client, toClient, outcome>>

\* MT_EXCEPTION: the function raised an error; the container is kept.
ReceiveException ==
    /\ Receive({"EXCEPTION"})
    /\ DeleteBackendsWhenError' = FALSE
    /\ Goto("error")
    /\ UNCHANGED <<calls, InterruptPending, conn, client, toClient, outcome>>

\* MT_LOG: ereport at the level of the message.
ReceiveLog ==
    /\ Receive({"LOG", "LOGERROR"})
    /\ Goto(IF Head(toServer[Top.rt]).type = "LOG" THEN "recv" ELSE "error")
    /\ UNCHANGED <<calls, DeleteBackendsWhenError, InterruptPending, conn, client,
                   toClient, outcome>>

\* MT_QUOTE and MT_SUBTRANSACTION are answered at once.
ReceiveQuoteOrSubx ==
    /\ Receive({"QUOTE", "SUBX"})
    /\ Send(Top.rt, IF Head(toServer[Top.rt]).type = "QUOTE"
                    THEN "QUOTE_RESULT" ELSE "SUBX_RESULT")
    /\ UNCHANGED <<qeVars, conn, client, outcome>>

\* MT_SQL: handle_sql_message starts.
ReceiveSql ==
    /\ Receive({"EXEC", "PLAN"})
    /\ Goto(IF Head(toServer[Top.rt]).type = "EXEC" THEN "exec" ELSE "plan")
    /\ UNCHANGED <<calls, DeleteBackendsWhenError, InterruptPending, conn, client,
                   toClient, outcome>>

\* Variant: a prepare is answered like a statement.
SqlDoneSameReply ==
    /\ At("exec") \/ At("plan")
    /\ OwnConn
    /\ Send(Top.rt, "RESULT")
    /\ Goto("recv")
    /\ UNCHANGED <<calls, DeleteBackendsWhenError, InterruptPending, conn, client,
                   toServer, outcome>>

\* Variant: the reply is an exception message, which no client knows.
SqlDoneException ==
    /\ At("exec") \/ At("plan")
    /\ OwnConn
    /\ Send(Top.rt, "EXCEPTION")
    /\ Goto("recv")
    /\ UNCHANGED <<calls, DeleteBackendsWhenError, InterruptPending, conn, client,
                   toServer, outcome>>

\* plcontainer_process_sql sends the reply and the receive loop goes on.
SqlDone ==
    /\ At("exec") \/ At("plan")
    /\ OwnConn
    /\ Send(Top.rt, IF Top.pc = "exec" THEN "RESULT" ELSE "RAW")
    /\ Goto("recv")
    /\ UNCHANGED <<calls, DeleteBackendsWhenError, InterruptPending, conn, client,
                   toServer, outcome>>

SqlFails ==
    /\ "sqlerror" \in Faults
    /\ At("exec") \/ At("plan")
    /\ Goto("error")
    /\ UNCHANGED <<calls, DeleteBackendsWhenError, InterruptPending, conn, client,
                   toClient, toServer, outcome>>

\* Variant: the end of the stream is taken for a timeout of recv().
ReceiveFailsIgnored ==
    /\ At("recv")
    /\ ~client[Top.rt].up
    /\ toServer[Top.rt] = <<>>
    /\ UNCHANGED vars

\* recv() finds that the client is gone.
ReceiveFails ==
    /\ At("recv")
    /\ ~client[Top.rt].up
    /\ toServer[Top.rt] = <<>>
    /\ Goto("error")
    /\ UNCHANGED <<calls, DeleteBackendsWhenError, InterruptPending, conn, client,
                   toClient, toServer, outcome>>

\* The signal handler of a cancel request.
CancelArrives ==
    /\ "interrupt" \in Faults
    /\ stack # <<>>
    /\ ~InterruptPending
    /\ InterruptPending' = TRUE
    /\ UNCHANGED <<stack, calls, DeleteBackendsWhenError, conn, client, toClient,
                   toServer, outcome>>

\* CHECK_FOR_INTERRUPTS, in the executor or when recv() has nothing to return:
\* the pending request becomes an error and is no longer pending.
ProcessInterrupts ==
    /\ InterruptPending
    /\ \/ At("exec") \/ At("plan")
       \/ At("recv") /\ toServer[Top.rt] = <<>>
    /\ InterruptPending' = FALSE
    /\ Goto("cancel")
    /\ UNCHANGED <<calls, DeleteBackendsWhenError, conn, client, toClient,
                   toServer, outcome>>

KillWanted == InterruptPending \/ DeleteBackendsWhenError

\* delete_containers, when wanted, disconnects and removes every container.
DeleteContainers(wanted) ==
    /\ conn' = IF wanted THEN [rt \in Runtimes |-> 0] ELSE conn
    /\ client' = IF wanted THEN [rt \in Runtimes |-> NoClient] ELSE client
    /\ toClient' = IF wanted THEN [rt \in Runtimes |-> <<>>] ELSE toClient
    /\ toServer' = IF wanted THEN [rt \in Runtimes |-> <<>>] ELSE toServer

\* The error leaves the call: the PG_CATCH blocks of plcontainer_get_result,
\* plcontainer_function_handler and plcontainer_call_handler.
CatchAndRethrow ==
    /\ At("error") \/ At("cancel")
    /\ DeleteContainers(KillWanted)
    /\ DeleteBackendsWhenError' = FALSE
    /\ outcome' = [outcome EXCEPT ![Top.id] = Failed]
    /\ UNCHANGED calls

\* Variant: the error leaves all calls at once.
UnwindToTop ==
    /\ Len(stack) > 1
    /\ CatchAndRethrow
    /\ stack' = <<>>
    /\ UNCHANGED InterruptPending

\* The error reaches the statement of the enclosing call, which fails too.
Unwind ==
    /\ Len(stack) > 1
    /\ CatchAndRethrow
    /\ stack' = SetTop(Pop(stack), [TopOf(Pop(stack)) EXCEPT !.pc = Top.pc])
    /\ UNCHANGED InterruptPending

\* An exception handler in the SQL between the two calls swallows the error
\* (it never catches a cancellation).
Swallow ==
    /\ "catch" \in Faults
    /\ Len(stack) > 1
    /\ At("error")
    /\ CatchAndRethrow
    /\ stack' = Pop(stack)
    /\ UNCHANGED InterruptPending

\* The error reaches the main loop of the session, which forgets a cancel
\* request that has not been served.
Abort ==
    /\ Len(stack) = 1
    /\ CatchAndRethrow
    /\ stack' = <<>>
    /\ InterruptPending' = FALSE

\* A cancel request that arrived during a call that ended is served, as an
\* error or not at all, outside of every call.
InterruptOutside ==
    /\ stack = <<>>
    /\ InterruptPending
    /\ InterruptPending' = FALSE
    /\ UNCHANGED <<stack, calls, DeleteBackendsWhenError, conn, client, toClient,
                   toServer, outcome>>

\* The call goes on with a connection that plcDisconnect has freed: using it
\* is undefined; the descriptor is closed, so an error, or the process dies
\* and with it the session.
UseFreedConn ==
    /\ At("exec") \/ At("plan") \/ At("recv")
    /\ ~OwnConn
    /\ \/ /\ Goto("error")
          /\ UNCHANGED <<conn, client, toClient, toServer, outcome>>
          /\ UNCHANGED <<DeleteBackendsWhenError, InterruptPending>>
       \/ /\ stack' = <<>>
          /\ DeleteContainers(TRUE)
          /\ outcome' = [i \in CallIds |->
                           IF i \in {stack[k].id : k \in 1 .. Len(stack)}
                           THEN Failed ELSE outcome[i]]
          /\ DeleteBackendsWhenError' = FALSE
          /\ InterruptPending' = FALSE
    /\ UNCHANGED calls

-----------------------------------------------------------------------------
(* The client of a runtime. *)

CTop(rt) == TopOf(client[rt].frames)

\* The client's main loop, or a plpy function, waits for a message.
Blocked(rt) == client[rt].frames # <<>> => CTop(rt).wait # "run"

\* The mask that plcontainer_channel_receive is called with.
Accepts(rt) ==
    IF client[rt].frames = <<>> THEN {"CALLREQ"}
    ELSE CASE CTop(rt).wait \in {"spi", "subx"} -> {"CALLREQ", "RESULT", "SUBX_RESULT"}
           [] CTop(rt).wait \in {"plan", "late"} -> {"RAW"}
           [] CTop(rt).wait = "quote" -> {"QUOTE_RESULT"}
           [] OTHER -> {}

ClientTakes(rt, types) ==
    /\ client[rt].up
    /\ Blocked(rt)
    /\ toClient[rt] # <<>>
    /\ Head(toClient[rt]).type \in types
    /\ toClient' = [toClient EXCEPT ![rt] = Tail(@)]
    /\ UNCHANGED <<qeVars, conn, toServer, outcome>>

\* Variant: plc_is_execution_terminated keeps its value from the last call.
HandleCallWithoutReset(rt) ==
    /\ "CALLREQ" \in Accepts(rt)
    /\ ClientTakes(rt, {"CALLREQ"})
    /\ client' = [client EXCEPT
         ![rt].frames = Append(@, [id |-> Head(toClient[rt]).id, wait |-> "run",
                                   ops |-> MaxOps])]

\* Variant: receive_from_frontend does not wait again after a nested call.
HandleCallThenReturn(rt) ==
    LET frames == client[rt].frames
        resumed == [k \in 1 .. Len(frames) |-> [frames[k] EXCEPT !.wait = "run"]]
    IN  /\ "CALLREQ" \in Accepts(rt)
        /\ ClientTakes(rt, {"CALLREQ"})
        /\ client' = [client EXCEPT
             ![rt].terminated = FALSE,
             ![rt].frames = Append(resumed, [id |-> Head(toClient[rt]).id, wait |-> "run",
                                             ops |-> MaxOps])]

\* handle_call starts, from the main loop or, when the function's own SQL
\* called another function, from receive_from_frontend.
handle_call(rt) ==
    /\ "CALLREQ" \in Accepts(rt)
    /\ ClientTakes(rt, {"CALLREQ"})
    /\ client' = [client EXCEPT
         ![rt].terminated = FALSE,
         ![rt].frames = Append(@, [id |-> Head(toClient[rt]).id, wait |-> "run",
                                   ops |-> MaxOps])]

\* A reply arrives and user code runs on; after a late unprepare handle_call
\* returns.
ClientGetsReply(rt) ==
    /\ ClientTakes(rt, Accepts(rt) \ {"CALLREQ"})
    /\ client' = [client EXCEPT
         ![rt].frames = IF CTop(rt).wait = "late" THEN Pop(@)
                        ELSE SetTop(@, [CTop(rt) EXCEPT !.wait = "run"])]

\* plcontainer_channel_receive gets a type outside of the mask: exit(1).
ClientRejects(rt) ==
    /\ ClientTakes(rt, ClientTypes \ Accepts(rt))
    /\ client' = [client EXCEPT ![rt] = NoClient]

\* User code of the innermost run asks for something.
ClientRuns(rt) ==
    /\ client[rt].up
    /\ client[rt].frames # <<>>
    /\ CTop(rt).wait = "run"
    /\ UNCHANGED <<qeVars, conn, toClient, outcome>>

ClientSends(rt, types) ==
    toServer' = [toServer EXCEPT
      ![rt] = @ \o [k \in 1 .. Len(types) |-> Msg(types[k], CTop(rt).id)]]

\* Sends a message of the given type and goes on in state wait.
Request(rt, type, wait) ==
    /\ ClientRuns(rt)
    /\ CTop(rt).ops > 0
    /\ ClientSends(rt, <<type>>)
    /\ client' = [client EXCEPT
         ![rt].terminated = @ \/ type \in {"LOGERROR", "EXCEPTION"},
         ![rt].frames = SetTop(@, [CTop(rt) EXCEPT !.wait = wait, !.ops = @ - 1])]

\* plpy.execute and plpy.cursor; refused once the run has reported an error.
PLy_spi_execute(rt) == ~client[rt].terminated /\ Request(rt, "EXEC", "spi")

\* plpy.prepare, and the end of the life of a plan.
PLy_spi_prepare(rt) == ~client[rt].terminated /\ Request(rt, "PLAN", "plan")

\* What plpy does whether or not the run has reported an error.
MayRunOn(rt) == client[rt].terminated => "runon" \in Faults

\* plpy.quote_literal and its like.
PLy_quote(rt) == MayRunOn(rt) /\ Request(rt, "QUOTE", "quote")

\* Entering or leaving a plpy.subtransaction.
PLy_subtransaction(rt) == MayRunOn(rt) /\ Request(rt, "SUBX", "subx")

\* plpy.notice and its like; plpy.error ends the execution, but not the
\* Python code, which gets None back and runs on.
PLy_output(rt) ==
    /\ ~client[rt].terminated
    /\ Request(rt, "LOG", "run") \/ Request(rt, "LOGERROR", "run")

\* raise_execution_error from inside a plpy function (a failed prepare or
\* subtransaction): the exception is sent at once, the Python code runs on.
raise_execution_error(rt) ==
    /\ "raise" \in Faults
    /\ ~client[rt].terminated
    /\ Request(rt, "EXCEPTION", "run")

\* The user code ends.  The result or the exception is sent unless an error
\* has been reported already; releasing the returned object may unprepare
\* the last plan it refers to.
Finish(rt) ==
    /\ ClientRuns(rt)
    /\ \/ /\ ~client[rt].terminated
          /\ ClientSends(rt, <<"RESULT">>)
          /\ client' = [client EXCEPT ![rt].frames = Pop(@)]
       \/ /\ ~client[rt].terminated
          /\ ClientSends(rt, <<"EXCEPTION">>)
          /\ client' = [client EXCEPT ![rt].frames = Pop(@), ![rt].terminated = TRUE]
       \/ /\ client[rt].terminated
          /\ client' = [client EXCEPT ![rt].frames = Pop(@)]
          /\ UNCHANGED toServer

FinishLatePlan(rt) ==
    /\ "lateplan" \in Faults
    /\ ClientRuns(rt)
    /\ ~client[rt].terminated
    /\ ClientSends(rt, <<"RESULT", "PLAN">>)
    /\ client' = [client EXCEPT
         ![rt].frames = SetTop(@, [CTop(rt) EXCEPT !.wait = "late"])]

\* The process or the container dies: out of memory, a signal, a crash.
ClientDies(rt) ==
    /\ "crash" \in Faults
    /\ client[rt].up
    /\ client' = [client EXCEPT ![rt] = NoClient]
    /\ UNCHANGED <<qeVars, conn, toClient, toServer, outcome>>

-----------------------------------------------------------------------------
\* The steps the session and the clients take without help from outside.
QEStep ==
    \/ UseContainer \/ StartContainer \/ SendRequest \/ SendFails
    \/ ReceiveResult \/ ReceiveException \/ ReceiveLog
    \/ ReceiveQuoteOrSubx \/ ReceiveSql \/ SqlDone \/ ReceiveFails
    \/ ProcessInterrupts \/ Unwind \/ Abort \/ UseFreedConn

ClientStep(rt) ==
    \/ handle_call(rt) \/ ClientGetsReply(rt) \/ ClientRejects(rt)
    \/ PLy_spi_execute(rt) \/ PLy_spi_prepare(rt) \/ PLy_quote(rt)
    \/ PLy_subtransaction(rt) \/ PLy_output(rt) \/ raise_execution_error(rt)
    \/ Finish(rt) \/ FinishLatePlan(rt)

Environment ==
    \/ \E rt \in Runtimes : plcontainer_call_handler(rt) \/ ClientDies(rt)
    \/ RequestFails \/ StartContainerFails \/ ReceiveBadResult \/ SqlFails
    \/ CancelArrives \/ InterruptOutside \/ Swallow

Next ==
    \/ QEStep
    \/ \E rt \in Runtimes : ClientStep(rt)
    \/ Environment

Spec == Init /\ [][Next]_vars

\* Neither process stops while it can go on.  Nothing is assumed of the
\* environment; that a function's code ends is the bound MaxOps.
FairSpec ==
    /\ Spec
    /\ WF_vars(QEStep)
    /\ \A rt \in Runtimes : WF_vars(ClientStep(rt))

-----------------------------------------------------------------------------
(* Properties. *)

ServerMsgs == [type : ServerTypes, id : CallIds]
ClientMsgs == [type : ClientTypes, id : CallIds]

\* Every variable has its type.
TypeOK ==
    /\ stack \in Seq(Frames)
    /\ calls \in 0 .. MaxCalls
    /\ DeleteBackendsWhenError \in BOOLEAN
    /\ InterruptPending \in BOOLEAN
    /\ conn \in [Runtimes -> 0 .. MaxCalls]
    /\ client \in [Runtimes -> Clients]
    /\ toClient \in [Runtimes -> Seq(ClientMsgs)]
    /\ toServer \in [Runtimes -> Seq(ServerMsgs)]
    /\ outcome \in [CallIds -> Failed .. MaxCalls]

\* A call that succeeds returns the result its own function computed: no
\* result left behind on the connection by an earlier, failed or cancelled
\* call is taken for it (the receive loop of plcontainer_get_result).
AnswerMatches == \A i \in CallIds : outcome[i] \in {0, Failed, i}

\* What a function returned is the outcome of at most one call, even when the
\* connection is out of step (every message is taken once, by one call).
SingleAnswer ==
    \A i, j \in CallIds : i # j /\ outcome[i] = outcome[j] => outcome[i] <= 0

\* A call ends once, and only after every call that started later.
InnermostEndsFirst ==
    [][\A i \in CallIds : outcome'[i] # outcome[i] =>
          /\ outcome[i] = 0
          /\ \A j \in i + 1 .. calls' : outcome'[j] # 0]_vars

\* The next message a waiting client reads is one it is waiting for: the type
\* check of plcontainer_channel_receive never makes a healthy client exit,
\* and receive_from_frontend never returns a reply of another kind.
Fits(rt) ==
    IF client[rt].frames = <<>> THEN {"CALLREQ"}
    ELSE CASE CTop(rt).wait = "spi" -> {"CALLREQ", "RESULT"}
           [] CTop(rt).wait = "subx" -> {"SUBX_RESULT"}
           [] CTop(rt).wait \in {"plan", "late"} -> {"RAW"}
           [] OTHER -> {"QUOTE_RESULT"}

ReplyFits ==
    \A rt \in Runtimes :
        client[rt].up /\ Blocked(rt) /\ toClient[rt] # <<>>
            => Head(toClient[rt]).type \in Fits(rt)

\* The answer to a statement, a (un)prepare, a quote or a subtransaction request
\* is read by the run that asked, as an answer of that kind, whatever calls were
\* nested in the statement, ended or failed meanwhile.  The messages do not say
\* whom they are for: receive_from_frontend takes the next one.
AnswersReachAsker ==
    \A rt \in Runtimes :
        /\ client[rt].up /\ Blocked(rt)
        /\ toClient[rt] # <<>> /\ Head(toClient[rt]).type # "CALLREQ"
        => /\ client[rt].frames # <<>>
           /\ Head(toClient[rt]).id = CTop(rt).id
           /\ Head(toClient[rt]).type \in Fits(rt)

\* The QE and a client never both wait for the other's message (nothing but a
\* cancel would ever end such a call: the receive loop has no timeout).
NoMutualWait ==
    \A rt \in Runtimes :
        ~ /\ At("recv") /\ Top.rt = rt /\ OwnConn
          /\ client[rt].up /\ Blocked(rt)
          /\ toServer[rt] = <<>> /\ toClient[rt] = <<>>

\* A running call never uses a connection that delete_containers has freed.
NoUseAfterFree ==
    At("send") \/ At("recv") \/ At("exec") \/ At("plan") => OwnConn

\* Between two queries a live container is ready for the next call: its
\* client is in the main loop and nothing is left on the connection.  No failure
\* of an unrelated query would kill it: DeleteBackendsWhenError is off.
ReadyWhenIdle ==
    stack = <<>> =>
        /\ ~DeleteBackendsWhenError
        /\ \A rt \in Runtimes : conn[rt] # 0 /\ client[rt].up =>
            /\ client[rt].frames = <<>>
            /\ toClient[rt] = <<>>
            /\ toServer[rt] = <<>>

\* A query that ends because the user cancelled it leaves no container: "we
\* should forcefully kill the container and reset its information"
\* (plcontainer_call_handler).
CancelKillsContainer ==
    [][At("cancel") /\ Len(stack) = 1 /\ stack' = <<>>
        => \A rt \in Runtimes : conn'[rt] = 0]_vars

\* The session keeps the promise of UdfSession.
Session == INSTANCE UdfSession WITH
    open <- [k \in 1 .. Len(stack) |-> stack[k].id],
    started <- calls,
    result <- outcome

SessionSpec == Session!Spec

\* Every call the session starts ends, if the functions' code does.
EveryCallEnds ==
    \A i \in CallIds : (i <= calls /\ outcome[i] = 0) ~> outcome[i] # 0

=============================================================================
