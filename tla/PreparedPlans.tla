---------------------------- MODULE PreparedPlans ----------------------------
(***************************************************************************)
(* Prepared statements of the functions in one container (sqlhandler.c,    *)
(* pyclient/plpy_spi.c, rclient/rcall.c).  The query executor (QE)         *)
(* keeps a table of MAX_PPLAN slots per connection, the free ones chained  *)
(* through next; the client holds plan objects with the address of the     *)
(* QE's plan, which it sends back to execute the plan or to free it.       *)
(*                                                                         *)
(* Each exchange is one step: the client waits for the reply, and nobody   *)
(* else uses the table of the connection.  The client is the Python or the *)
(* R one; R never tells the QE that it has no more use for a plan.         *)
(***************************************************************************)
EXTENDS Integers, FiniteSets

CONSTANTS
    MAX_PPLAN,  \* slots of a connection
    Addresses   \* where the QE may allocate a plcPlan (0 is the null pointer)

ASSUME PlanAssumption ==
    /\ MAX_PPLAN \in Nat \ {0}
    /\ Addresses \subseteq Nat \ {0}

VARIABLES
    table,       \* the slots and head_free_pplan_slot, of the open connection
    connected,   \* "open" or "closed"
    heap,        \* what is at each address of the QE: "free", "plan", or "lost", a
                 \* plcPlan without a plan that nobody will free
    plans,       \* addresses in the client's plan objects
    abandoned,   \* plans whose objects went without a word to the QE (observation)
    lang,        \* the client's language: "python" or "r"
    terminated   \* plc_is_execution_terminated: "no" or "yes"

vars == <<table, connected, heap, plans, abandoned, lang, terminated>>

Slots == 0 .. MAX_PPLAN - 1

Table(pplan, next, head) == [pplan |-> pplan, next |-> next, head |-> head]

-----------------------------------------------------------------------------
(* The table. *)

init_pplan_slots ==
    Table([i \in Slots |-> 0],
          [i \in Slots |-> IF i = MAX_PPLAN - 1 THEN -1 ELSE i + 1],
          0)

InUse(t) == {i \in Slots : t.pplan[i] # 0}
Holding(t, a) == {i \in InUse(t) : t.pplan[i] = a}

\* Variant: the head of the free list stays.
InsertKeepsHead(t, a) == Table([t.pplan EXCEPT ![t.head] = a], t.next, t.head)

insert_pplan(t, a) == Table([t.pplan EXCEPT ![t.head] = a], t.next, t.next[t.head])

\* The slot of a becomes the head of the free list.
FreeSlot(t, i) == Table([t.pplan EXCEPT ![i] = 0], [t.next EXCEPT ![i] = t.head], i)

\* Variant: the slot is not put back on the free list.
DeleteUnchained(t, a) ==
    Table([i \in Slots |-> IF t.pplan[i] = a THEN 0 ELSE t.pplan[i]], t.next, t.head)

delete_pplan(t, a) ==
    IF Holding(t, a) = {} THEN t
    ELSE FreeSlot(t, CHOOSE i \in Holding(t, a) : \A j \in Holding(t, a) : i <= j)

Init ==
    /\ table = init_pplan_slots
    /\ connected = "open"
    /\ heap = [a \in Addresses |-> "free"]
    /\ plans = {}
    /\ abandoned = {}
    /\ lang \in {"python", "r"}
    /\ terminated = "no"

-----------------------------------------------------------------------------
(* The exchanges. *)

\* Variant: deinit_pplan_slots stops before the last slot.
DisconnectSkipsLast(h) ==
    /\ heap' = [a \in Addresses |->
                  IF \E i \in Slots \ {MAX_PPLAN - 1} : table.pplan[i] = a THEN "free" ELSE h[a]]
    /\ connected' = "closed"
    /\ plans' = {}
    /\ abandoned' = {}
    /\ UNCHANGED <<table, lang, terminated>>

\* plcDisconnect: deinit_pplan_slots frees what the slots hold, and the
\* client exits when it finds the connection closed.  h is the heap so far.
Disconnect(h) ==
    /\ heap' = [a \in Addresses |-> IF Holding(table, a) # {} THEN "free" ELSE h[a]]
    /\ connected' = "closed"
    /\ plans' = {}
    /\ abandoned' = {}
    /\ UNCHANGED <<table, lang, terminated>>

\* An error in handle_sql_message fails the call.  The QE then deletes its
\* containers, unless DeleteBackendsWhenError was cleared by a call nested in
\* this one (CallProtocol): the connection stays, and h with it.
StatementFails(h) ==
    \/ Disconnect(h)
    \/ heap' = h /\ UNCHANGED <<table, connected, plans, abandoned, lang, terminated>>

\* The session gives up the container.
Close == connected = "open" /\ Disconnect(heap)

\* A new container: a new client and, in plcConnInit, a new table.
Connect ==
    /\ connected = "closed"
    /\ connected' = "open"
    /\ table' = init_pplan_slots
    /\ terminated' = "no"
    /\ UNCHANGED <<heap, plans, abandoned, lang>>

\* handle_call starts the next function.
CallBegins ==
    /\ connected = "open"
    /\ terminated' = "no"
    /\ UNCHANGED <<table, connected, heap, plans, abandoned, lang>>

\* The function ends with an exception; the container is kept.
CallRaises ==
    /\ connected = "open"
    /\ terminated' = "yes"
    /\ UNCHANGED <<table, connected, heap, plans, abandoned, lang>>

\* SQL_TYPE_PREPARE arrives, and a plcPlan is allocated at a.
Preparing(a) == connected = "open" /\ terminated = "no" /\ heap[a] = "free"

\* The plan is saved and finds a slot.
Prepare(a) ==
    /\ Preparing(a)
    /\ table.head >= 0
    /\ table' = insert_pplan(table, a)
    /\ heap' = [heap EXCEPT ![a] = "plan"]
    /\ plans' = plans \cup {a}
    /\ UNCHANGED <<connected, abandoned, lang, terminated>>

\* A plan is not inserted (no slot is free), or SPI_prepare raises an error:
\* the plcPlan is lost and the statement fails.
PrepareFails(a) ==
    /\ Preparing(a)
    /\ StatementFails([heap EXCEPT ![a] = "lost"])

\* Variant: the slot is taken although there is no plan.
PrepareNullInserted(a) ==
    /\ Preparing(a)
    /\ table.head >= 0
    /\ table' = insert_pplan(table, a)
    /\ heap' = [heap EXCEPT ![a] = "lost"]
    /\ terminated' = "yes"
    /\ UNCHANGED <<connected, plans, abandoned, lang>>

\* SPI_prepare returns no plan: the reply says so and the client raises an
\* exception.
PrepareNull(a) ==
    /\ Preparing(a)
    /\ heap' = [heap EXCEPT ![a] = "lost"]
    /\ terminated' = "yes"
    /\ UNCHANGED <<table, connected, plans, abandoned, lang>>

\* SQL_TYPE_PEXECUTE: the QE runs it if it finds it, and the statement
\* may fail.
PExecute(a) ==
    /\ connected = "open"
    /\ terminated = "no"
    /\ a \in plans
    /\ \/ Holding(table, a) # {} /\ UNCHANGED vars
       \/ StatementFails(heap)

\* SQL_TYPE_UNPREPARE: the plan is freed if it is found.
Unprepare(a) ==
    /\ connected = "open"
    /\ terminated = "no"
    /\ a \in plans
    /\ plans' = plans \ {a}
    /\ table' = delete_pplan(table, a)
    /\ heap' = [heap EXCEPT ![a] = IF Holding(table, a) = {} THEN @ ELSE "free"]
    /\ UNCHANGED <<connected, abandoned, lang, terminated>>

\* A plan object goes and nothing is sent.
Abandon(a) ==
    /\ connected = "open"
    /\ a \in plans
    /\ plans' = plans \ {a}
    /\ abandoned' = abandoned \cup {a}
    /\ UNCHANGED <<table, connected, heap, lang, terminated>>

PLy_spi_prepare(a) ==
    lang = "python" /\ (Prepare(a) \/ PrepareFails(a) \/ PrepareNull(a))
PLy_spi_execute_plan(a) == lang = "python" /\ PExecute(a)

\* The last reference to a plan object goes.  After the run has reported an
\* error, nothing is sent.
PLy_freeplan(a) ==
    /\ lang = "python"
    /\ IF terminated = "yes" THEN Abandon(a) ELSE Unprepare(a)

plr_SPI_prepare(a) ==
    lang = "r" /\ (Prepare(a) \/ PrepareFails(a) \/ PrepareNull(a))
plr_SPI_execp(a) == lang = "r" /\ PExecute(a)

\* R collects a plan: its external pointer was made without a finalizer.
Collected(a) == lang = "r" /\ Abandon(a)

Next ==
    \/ Close \/ Connect \/ CallBegins \/ CallRaises
    \/ \E a \in Addresses :
        \/ PLy_spi_prepare(a) \/ PLy_spi_execute_plan(a) \/ PLy_freeplan(a)
        \/ plr_SPI_prepare(a) \/ plr_SPI_execp(a) \/ Collected(a)

Spec == Init /\ [][Next]_vars

-----------------------------------------------------------------------------
(* Properties. *)

\* The free list from head_free_pplan_slot on is s.
Chained(t, n, s) ==
    /\ t.head = IF n = 0 THEN -1 ELSE s[1]
    /\ \A i \in 1 .. n : t.next[s[i]] = IF i = n THEN -1 ELSE s[i + 1]

\* The free list ends, and holds each free slot once and no other: insert_pplan
\* never overwrites a plan, and never fails while a slot is free.
FreeListOK ==
    \E n \in 0 .. MAX_PPLAN : \E s \in [1 .. n -> Slots] :
        /\ Chained(table, n, s)
        /\ \A i, j \in 1 .. n : s[i] = s[j] => i = j
        /\ {s[i] : i \in 1 .. n} = Slots \ InUse(table)

\* A plan object of the client can be executed for as long as it lives: its
\* plan is in exactly one slot and has not been freed.
PlansUsable ==
    \A a \in plans : Cardinality(Holding(table, a)) = 1 /\ heap[a] = "plan"

\* A slot is in use for a plan object of the client, or for one that was
\* dropped by a run that had failed, or by R; no plan is freed under its slot.
SlotsAccounted ==
    connected = "open" =>
        \A i \in InUse(table) :
            table.pplan[i] \in plans \cup abandoned /\ heap[table.pplan[i]] = "plan"

\* A connection that is closed leaves no plan behind in the QE.
ClosedHasNoPlans == connected = "closed" => \A a \in Addresses : heap[a] # "plan"

=============================================================================
