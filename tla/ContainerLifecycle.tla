-------------------------- MODULE ContainerLifecycle --------------------------
(***************************************************************************)
(* The life of the containers of one session (src/src/containers.c): the   *)
(* query executor (QE) that creates, starts, connects to and deletes them, *)
(* the cleanup process that start_backend forks for each of them, the      *)
(* Docker daemon that both of them call, and the shared map of container   *)
(* ids (src/src/plc_container_info.c) that both of them update.            *)
(*                                                                         *)
(* Containers are numbered in the order the session creates them.  A call  *)
(* of the Docker API either does its work or reports an error and does     *)
(* nothing.                                                                *)
(***************************************************************************)
EXTENDS Integers, FiniteSets

CONSTANTS
    MaxContainers,         \* bound: containers the session creates
    MAX_CONTAINER_NUMBER,  \* slots in containers[]
    StartTries,            \* tries of create and of start (3 in the code)
    InspectTries,          \* inspections before a forced delete (6)
    DeleteTries,           \* forced deletes (4)
    CleanupTries,          \* CLEANUP_CONTAINER_CONNECT_RETRY_TIMES (60)
    Faults                 \* the events of AllFaults that may happen

AllFaults ==
    {"api",        \* the Docker API fails when the QE or a cleaner calls it
     "start",      \* create, start, fork or connect fails
     "crash",      \* the client in a container dies
     "terminate",  \* the session is terminated, or exits
     "kill"}       \* the QE dies without running its exit callbacks

ASSUME LifecycleAssumption ==
    /\ MaxContainers \in Nat
    /\ MAX_CONTAINER_NUMBER \in Nat \ {0}
    /\ StartTries \in Nat \ {0}
    /\ InspectTries \in Nat \ {0}
    /\ DeleteTries \in Nat \ {0}
    /\ CleanupTries \in Nat \ {0, 1}
    /\ Faults \subseteq AllFaults

VARIABLES
    pc,        \* where the QE is
    cur,       \* the container the QE works with, 0 for none
    tries,     \* the loop counter of the QE
    session,   \* "open", or "ending" when the QE is in proc_exit
    created,   \* how many containers the session has asked for
    docker,    \* the daemon's state of each container
    slots,     \* containers registered in containers[]
    conn,      \* containers the QE holds an open connection to
    cleaner,   \* where the cleanup process of each container is
    waits,     \* wait_times of each cleanup process
    heldBy,    \* cleanup processes that inherited a connection's descriptor
    entries    \* containers in the shared map udf_container_id_map

qeVars == <<pc, cur, tries, session, created, slots, conn>>
vars == <<qeVars, docker, cleaner, waits, heldBy, entries>>

Containers == 1 .. MaxContainers

\* The QE runs a query or none ("idle"), is in start_backend ("create" to
\* "connect"), before or in a call, or in delete_containers ("delete" to
\* "remove"); "crashed" is a QE that died by its own fault.
PCs == {"idle", "create", "start", "fork", "connect", "register", "use", "call",
        "finish", "delete", "inspect", "remove", "dead", "crashed"}

\* "killed" and "exited" are both reported as exited by the daemon.
DockerStates == {"none", "created", "running", "exited", "killed", "gone"}

CleanerPCs == {"none", "check", "inspect", "delete", "done"}

QEAlive == pc \notin {"dead", "crashed"}

\* What a call that fails only with the given fault may return.
Results(fault) == {"ok"} \cup (IF fault \in Faults THEN {"failed"} ELSE {})

Init ==
    /\ pc = "idle"
    /\ cur = 0
    /\ tries = 0
    /\ session = "open"
    /\ created = 0
    /\ docker = [c \in Containers |-> "none"]
    /\ slots = {}
    /\ conn = {}
    /\ cleaner = [c \in Containers |-> "none"]
    /\ waits = [c \in Containers |-> 0]
    /\ heldBy = [c \in Containers |-> {}]
    /\ entries = {}

-----------------------------------------------------------------------------
(* The query executor: start_backend. *)

\* A call finds no connection of its runtime.  When every slot is taken,
\* find_container_slot ends the session.
StartBackend ==
    /\ pc = "idle"
    /\ IF Cardinality(slots) < MAX_CONTAINER_NUMBER
       THEN /\ created < MaxContainers
            /\ pc' = "create"
            /\ cur' = created + 1
            /\ created' = created + 1
            /\ UNCHANGED session
       ELSE /\ pc' = "delete"
            /\ session' = "ending"
            /\ UNCHANGED <<cur, created>>
    /\ tries' = 0
    /\ UNCHANGED <<docker, slots, conn, cleaner, waits, heldBy, entries>>

\* One more try of a loop of the QE failed: try again, or go to next.
Retry(limit, next) ==
    /\ pc' = IF tries + 1 < limit THEN pc ELSE next
    /\ tries' = IF tries + 1 < limit THEN tries + 1 ELSE 0

Proceed(next) == pc' = next /\ tries' = 0

\* plc_backend_create; on success the container is registered in its slot
\* before anything else can fail.
Create(res) ==
    /\ pc = "create"
    /\ IF res = "ok"
       THEN /\ Proceed("start")
            /\ docker' = [docker EXCEPT ![cur] = "created"]
            /\ slots' = slots \cup {cur}
       ELSE Retry(StartTries, "delete") /\ UNCHANGED <<docker, slots>>
    /\ UNCHANGED <<cur, session, created, conn, cleaner, waits, heldBy, entries>>

Start(res) ==
    /\ pc = "start"
    /\ IF res = "ok"
       THEN Proceed("fork") /\ docker' = [docker EXCEPT ![cur] = "running"]
       ELSE Retry(StartTries, "delete") /\ UNCHANGED docker
    /\ UNCHANGED <<cur, session, created, slots, conn, cleaner, waits, heldBy, entries>>

\* cleanup() forks; the child inherits the descriptors of every connection
\* the session has open.
Fork(res) ==
    /\ pc = "fork"
    /\ IF res = "ok"
       THEN /\ Proceed("connect")
            /\ cleaner' = [cleaner EXCEPT ![cur] = "check"]
            /\ heldBy' = [c \in Containers |->
                            IF c \in conn THEN heldBy[c] \cup {cur} ELSE heldBy[c]]
       ELSE Proceed("delete") /\ UNCHANGED <<cleaner, heldBy>>
    /\ UNCHANGED <<cur, session, created, docker, slots, conn, waits, entries>>

\* The connection attempts end with an answer to the ping, which takes a
\* running client, or with a timeout.
Connect(res) ==
    /\ pc = "connect"
    /\ res = "ok" => docker[cur] = "running"
    /\ IF res = "ok" THEN Proceed("register") /\ conn' = conn \cup {cur}
             ELSE Proceed("delete") /\ UNCHANGED conn
    /\ UNCHANGED <<cur, session, created, docker, slots, cleaner, waits, heldBy, entries>>

\* add_containerid_entry.
Register ==
    /\ pc = "register"
    /\ Proceed("call")
    /\ entries' = entries \cup {cur}
    /\ UNCHANGED <<cur, session, created, docker, slots, conn, cleaner, waits, heldBy>>

-----------------------------------------------------------------------------
(* The query executor: calls and delete_containers. *)

\* A call finds the connection of its runtime.
UseBackend(c) ==
    /\ pc = "idle"
    /\ c \in conn
    /\ cur' = c
    /\ Proceed("use")
    /\ UNCHANGED <<session, created, docker, slots, conn, cleaner, waits, heldBy, entries>>

\* replace_containerid_entry writes into the entry it looks up; without the
\* entry it writes through a null pointer and the QE dies.
Replace(next) ==
    /\ IF cur \in entries THEN Proceed(next) /\ UNCHANGED conn
                          ELSE Proceed("crashed") /\ conn' = {}
    /\ UNCHANGED <<cur, session, created, docker, slots, cleaner, waits, heldBy, entries>>

BeginCall == pc = "use" /\ Replace("call")

\* The client has answered the call.
Answer ==
    /\ pc = "call"
    /\ docker[cur] = "running"
    /\ Proceed("finish")
    /\ UNCHANGED <<cur, session, created, docker, slots, conn, cleaner, waits, heldBy, entries>>

FinishCall == pc = "finish" /\ Replace("idle")

\* The call fails (always, once its client is gone) and its error handler
\* deletes the session's containers.
FailCall ==
    /\ pc = "call"
    /\ Proceed("delete")
    /\ UNCHANGED <<cur, session, created, docker, slots, conn, cleaner, waits, heldBy, entries>>

\* The session ends in an orderly way: plcontainer_cleanup.
Terminate ==
    /\ "terminate" \in Faults
    /\ pc \in {"idle", "call", "connect"}
    /\ Proceed("delete")
    /\ session' = "ending"
    /\ UNCHANGED <<cur, created, docker, slots, conn, cleaner, waits, heldBy, entries>>

\* delete_containers takes the next slot and disconnects, or is done.
Disconnect ==
    /\ pc = "delete"
    /\ IF slots = {}
       THEN /\ Proceed(IF session = "ending" THEN "dead" ELSE "idle")
            /\ cur' = 0
            /\ UNCHANGED <<slots, conn>>
       ELSE \E c \in slots :
            /\ \A d \in slots : c <= d
            /\ Proceed("inspect")
            /\ cur' = c
            /\ slots' = slots \ {c}
            /\ conn' = conn \ {c}
    /\ UNCHANGED <<session, created, docker, cleaner, waits, heldBy, entries>>

Exited(c) == docker[c] \in {"exited", "killed"}

\* delete_backend_if_exited, called by the QE: inspects, and deletes a
\* container that has exited (inspected tells which of the two calls fails).
InspectAndDelete(inspected, res) ==
    /\ pc = "inspect"
    /\ IF inspected = "ok" /\ docker[cur] = "gone"
       THEN Proceed("delete") /\ UNCHANGED docker
       ELSE IF inspected = "ok" /\ res = "ok" /\ Exited(cur)
       THEN Proceed("delete") /\ docker' = [docker EXCEPT ![cur] = "gone"]
       ELSE Retry(InspectTries, "remove") /\ UNCHANGED docker
    /\ UNCHANGED <<cur, session, created, slots, conn, cleaner, waits, heldBy, entries>>

\* The forced delete.
Remove(res) ==
    /\ pc = "remove"
    /\ IF res = "ok" THEN Proceed("delete") /\ docker' = [docker EXCEPT ![cur] = "gone"]
             ELSE Retry(DeleteTries, "delete") /\ UNCHANGED docker
    /\ UNCHANGED <<cur, session, created, slots, conn, cleaner, waits, heldBy, entries>>

\* The QE is killed, anywhere.
Die ==
    /\ "kill" \in Faults
    /\ QEAlive
    /\ pc' = "dead"
    /\ conn' = {}
    /\ UNCHANGED <<cur, tries, session, created, docker, slots, cleaner, waits,
                   heldBy, entries>>

-----------------------------------------------------------------------------
(* The cleanup process of container c. *)

\* The process exits: its exit callback removes the entry of the shared map,
\* and its descriptors are closed.
CleanerExits(c) ==
    /\ cleaner' = [cleaner EXCEPT ![c] = "done"]
    /\ entries' = entries \ {c}
    /\ heldBy' = [d \in Containers |-> heldBy[d] \ {c}]

CleanerGoes(c, next) ==
    /\ cleaner' = [cleaner EXCEPT ![c] = next]
    /\ UNCHANGED <<entries, heldBy>>

\* Variant: the failures are counted over the whole life of the process.
CheckWithoutReset(c, res) ==
    /\ cleaner[c] = "check"
    /\ CleanerGoes(c, "inspect")
    /\ waits' = [waits EXCEPT ![c] = IF res = "ok" \/ QEAlive THEN @ ELSE @ + 1]
    /\ docker' = [docker EXCEPT
                    ![c] = IF ~QEAlive /\ res = "ok" /\ @ = "running" THEN "killed" ELSE @]
    /\ UNCHANGED qeVars

\* Variant: the container is killed whether or not the QE is alive.
CheckAlwaysKills(c, res) ==
    /\ cleaner[c] = "check"
    /\ CleanerGoes(c, "inspect")
    /\ docker' = [docker EXCEPT ![c] = IF res = "ok" /\ @ = "running" THEN "killed" ELSE @]
    /\ UNCHANGED <<qeVars, waits>>

\* Variant: the container is never killed.
CheckNeverKills(c, res) ==
    /\ cleaner[c] = "check"
    /\ CleanerGoes(c, "inspect")
    /\ waits' = [waits EXCEPT ![c] = 0]
    /\ UNCHANGED <<qeVars, docker>>

\* The top of the loop: with the QE alive the count of failures starts
\* again; without it the container is killed.  The Docker backend answers a
\* kill with an HTTP status, never with the 0 that would end the loop.
CleanerCheck(c, res) ==
    /\ cleaner[c] = "check"
    /\ CleanerGoes(c, "inspect")
    /\ IF QEAlive
       THEN waits' = [waits EXCEPT ![c] = 0] /\ UNCHANGED docker
       ELSE /\ waits' = [waits EXCEPT ![c] = IF res = "ok" THEN @ ELSE @ + 1]
            /\ docker' = [docker EXCEPT ![c] = IF res = "ok" /\ @ = "running" THEN "killed" ELSE @]
    /\ UNCHANGED qeVars

\* Variant: the first failure ends the process.
CleanerFailsOnce(c) ==
    /\ waits' = [waits EXCEPT ![c] = @ + 1]
    /\ CleanerExits(c)

\* A failed inspection or deletion is counted; the process gives up when the
\* count reaches its limit.
CleanerFails(c) ==
    /\ waits' = [waits EXCEPT ![c] = @ + 1]
    /\ IF waits[c] + 1 >= CleanupTries THEN CleanerExits(c) ELSE CleanerGoes(c, "check")

\* delete_backend_if_exited in the cleanup process, the inspection.
CleanerInspect(c, res) ==
    /\ cleaner[c] = "inspect"
    /\ IF res # "ok" THEN CleanerFails(c)
       ELSE IF docker[c] = "gone" THEN CleanerExits(c) /\ UNCHANGED waits
       ELSE IF Exited(c) THEN CleanerGoes(c, "delete") /\ UNCHANGED waits
       ELSE CleanerGoes(c, "check") /\ waits' = [waits EXCEPT ![c] = 0]
    /\ UNCHANGED <<qeVars, docker>>

\* delete_backend_if_exited in the cleanup process, the deletion.
CleanerDelete(c, res) ==
    /\ cleaner[c] = "delete"
    /\ IF res = "ok"
       THEN CleanerExits(c) /\ docker' = [docker EXCEPT ![c] = "gone"] /\ UNCHANGED waits
       ELSE CleanerFails(c) /\ UNCHANGED docker
    /\ UNCHANGED qeVars

-----------------------------------------------------------------------------
(* The client in container c. *)

\* Nobody holds the other end of its connection: the client reads the end of
\* the stream and exits.  (A client nobody connects to exits as well, after
\* TIMEOUT_SEC in connection_wait.)
ClientExits(c) ==
    /\ docker[c] = "running"
    /\ c \notin conn
    /\ heldBy[c] = {}
    /\ ~(cur = c /\ pc \in {"fork", "connect"})
    /\ docker' = [docker EXCEPT ![c] = "exited"]
    /\ UNCHANGED <<qeVars, cleaner, waits, heldBy, entries>>

ClientCrashes(c) ==
    /\ "crash" \in Faults
    /\ docker[c] = "running"
    /\ docker' = [docker EXCEPT ![c] = "exited"]
    /\ UNCHANGED <<qeVars, cleaner, waits, heldBy, entries>>

-----------------------------------------------------------------------------
QEStep ==
    \/ StartBackend
    \/ \E res \in Results("start") : Create(res) \/ Start(res) \/ Fork(res)
    \/ \E res \in Results("start") \cup {"failed"} : Connect(res)
    \/ Register \/ BeginCall \/ Answer \/ FinishCall \/ FailCall
    \/ \E c \in Containers : UseBackend(c)
    \/ Disconnect
    \/ \E inspected \in Results("api"), res \in Results("api") : InspectAndDelete(inspected, res)
    \/ \E res \in Results("api") : Remove(res)

CleanerStep(c) ==
    \E res \in Results("api") :
        CleanerCheck(c, res) \/ CleanerInspect(c, res) \/ CleanerDelete(c, res)

Next ==
    \/ QEStep
    \/ \E c \in Containers : CleanerStep(c) \/ ClientExits(c) \/ ClientCrashes(c)
    \/ Terminate
    \/ Die

Spec == Init /\ [][Next]_vars

\* A cleanup process keeps running, and the daemon does not refuse the same
\* call of it for ever.
FairSpec ==
    /\ Spec
    /\ \A c \in Containers :
        /\ WF_vars(CleanerStep(c))
        /\ SF_vars(CleanerCheck(c, "ok"))
        /\ SF_vars(CleanerInspect(c, "ok"))
        /\ SF_vars(CleanerDelete(c, "ok"))

-----------------------------------------------------------------------------
(* Properties. *)

\* Every variable has its type.
TypeOK ==
    /\ pc \in PCs
    /\ cur \in 0 .. MaxContainers
    /\ tries \in Nat
    /\ session \in {"open", "ending"}
    /\ created \in 0 .. MaxContainers
    /\ docker \in [Containers -> DockerStates]
    /\ slots \subseteq Containers
    /\ conn \subseteq Containers
    /\ cleaner \in [Containers -> CleanerPCs]
    /\ waits \in [Containers -> Nat]
    /\ heldBy \in [Containers -> SUBSET Containers]
    /\ entries \subseteq Containers

\* A cleanup process ends only when its container is gone, or, after the
\* death of the QE, when the daemon has refused its calls CleanupTries times:
\* whatever fails while the QE lives, the loop of cleanup() goes on.
CleanerOutlivesContainer ==
    \A c \in Containers :
        cleaner[c] = "done" =>
            \/ docker[c] = "gone"
            \/ ~QEAlive /\ waits[c] >= CleanupTries

\* While the QE is alive and connected, nothing kills or removes a running
\* container: neither a cleanup process nor delete_containers, which both
\* wait for the connection to be closed.
NoKillUnderQE ==
    [][\A c \in conn :
        QEAlive /\ docker[c] = "running" => docker'[c] \in {"running", "exited"}]_vars

\* A running container that the QE is connected to is in the shared map, once
\* get_result has put it there: no cleanup process drops the entry early.
RunningHasEntry ==
    QEAlive => \A c \in conn :
        docker[c] = "running" /\ ~(pc = "register" /\ cur = c) => c \in entries

\* When the QE is gone, every container that has a cleanup process is removed,
\* unless the daemon refuses the calls of that process to the end.
ContainersGoAway ==
    ~QEAlive ~> \A c \in Containers :
                    \/ cleaner[c] = "none"
                    \/ docker[c] = "gone"
                    \/ waits[c] >= CleanupTries

\* get_result calls replace_containerid_entry only for a container that is in
\* the shared map ("Connection existed, only need update the udf name").
EntryPresent == pc \in {"use", "finish"} => cur \in entries

=============================================================================
