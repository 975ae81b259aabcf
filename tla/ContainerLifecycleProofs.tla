----------------------- MODULE ContainerLifecycleProofs -----------------------
(***************************************************************************)
(* Proofs about ContainerLifecycle, for any number of containers and slots *)
(* and all retry limits: a cleanup process outlives its container, nothing *)
(* kills a container under a living QE, and the shared map keeps the entry *)
(* of every running container.                                             *)
(***************************************************************************)
EXTENDS ContainerLifecycle, TLAPS

\* The QE is about to create, start or guard container cur.
Starting == pc \in {"create", "start", "fork"}

\* The container the QE starts has no cleanup process yet, and the QE is not
\* connected to it; nor is it to the one it deletes.
StartInv ==
    /\ pc \in {"create", "start", "fork", "connect", "register"} => cur \in 1 .. created
    /\ Starting => cleaner[cur] = "none"
    /\ pc \in {"create", "start", "fork", "connect", "inspect", "remove"} => cur \notin conn
    /\ \A c \in conn : c <= created
    /\ \A c \in Containers : c > created => cleaner[c] = "none"

\* With the QE alive, the count of a cleanup process never gets past one.
WaitsInv ==
    \A c \in Containers :
        /\ cleaner[c] = "none" => waits[c] = 0
        /\ QEAlive => /\ cleaner[c] \in {"inspect", "delete"} => waits[c] = 0
                      /\ cleaner[c] = "check" => waits[c] <= 1

\* A cleanup process that is about to delete has seen the container exited.
DeleteInv ==
    \A c \in Containers :
        cleaner[c] = "delete" => docker[c] \in {"exited", "killed", "gone"}

IInv ==
    /\ TypeOK
    /\ StartInv
    /\ WaitsInv
    /\ DeleteInv
    /\ CleanerOutlivesContainer
    /\ RunningHasEntry

-----------------------------------------------------------------------------
\* Every step keeps the types (all actions of ContainerLifecycle).
LEMMA TypePreserved == TypeOK /\ StartInv /\ [Next]_vars => TypeOK'
<1> SUFFICES ASSUME TypeOK, StartInv, [Next]_vars PROVE TypeOK'
  OBVIOUS
<1> USE DEF TypeOK
<1>a. \A c \in 1 .. created : c \in Containers
  BY LifecycleAssumption DEF Containers
<1>b. \A c \in Containers : c \in 0 .. MaxContainers
  BY LifecycleAssumption DEF Containers
<1>1. CASE StartBackend
  BY <1>1, LifecycleAssumption DEF StartBackend, PCs
<1>2. ASSUME NEW res, Create(res) PROVE TypeOK'
  <2>1. cur \in Containers
    BY <1>2, <1>a DEF Create, StartInv
  <2>2. pc' \in PCs /\ tries' \in Nat
    BY <1>2 DEF Create, Proceed, Retry, PCs
  <2>3. docker' \in [Containers -> DockerStates] /\ slots' \subseteq Containers
    BY <1>2, <2>1 DEF Create, DockerStates
  <2> QED
    BY <1>2, <2>2, <2>3 DEF Create
<1>3. ASSUME NEW res, Start(res) PROVE TypeOK'
  BY <1>3 DEF Start, Proceed, Retry, PCs, DockerStates
<1>4. ASSUME NEW res, Fork(res) PROVE TypeOK'
  <2>1. cur \in Containers
    BY <1>4, <1>a DEF Fork, StartInv
  <2>2. pc' \in PCs /\ tries' \in Nat
    BY <1>4 DEF Fork, Proceed, PCs
  <2>3. cleaner' \in [Containers -> CleanerPCs]
    BY <1>4, <2>1 DEF Fork, CleanerPCs
  <2>4. heldBy' \in [Containers -> SUBSET Containers]
    BY <1>4, <2>1 DEF Fork
  <2> QED
    BY <1>4, <2>2, <2>3, <2>4 DEF Fork
<1>5. ASSUME NEW res, Connect(res) PROVE TypeOK'
  <2>1. cur \in Containers
    BY <1>5, <1>a DEF Connect, StartInv
  <2>2. pc' \in PCs /\ tries' \in Nat
    BY <1>5 DEF Connect, Proceed, PCs
  <2>3. conn' \subseteq Containers
    BY <1>5, <2>1 DEF Connect
  <2> QED
    BY <1>5, <2>2, <2>3 DEF Connect
<1>6. CASE Register
  BY <1>6, <1>a DEF Register, Proceed, StartInv, PCs
<1>7. ASSUME NEW c \in Containers, UseBackend(c) PROVE TypeOK'
  BY <1>7, <1>b DEF UseBackend, Proceed, PCs
<1>8. ASSUME NEW next \in PCs, Replace(next) PROVE TypeOK'
  <2>1. pc' \in PCs /\ tries' \in Nat /\ conn' \subseteq Containers
    BY <1>8 DEF Replace, Proceed, PCs
  <2> QED
    BY <1>8, <2>1 DEF Replace
<1>9. CASE BeginCall \/ FinishCall
  BY <1>8, <1>9 DEF BeginCall, FinishCall, PCs
<1>10. CASE Answer
  BY <1>10 DEF Answer, Proceed, PCs
<1>11. CASE FailCall
  BY <1>11 DEF FailCall, Proceed, PCs
<1>12. CASE Terminate
  BY <1>12 DEF Terminate, Proceed, PCs
<1>13. CASE Disconnect
  <2>1. pc' \in PCs /\ tries' \in Nat
    BY <1>13 DEF Disconnect, Proceed, PCs
  <2>2. cur' \in 0 .. MaxContainers /\ slots' \subseteq Containers /\ conn' \subseteq Containers
    <3>1. CASE slots = {}
      BY <1>13, <3>1, LifecycleAssumption DEF Disconnect
    <3>2. CASE slots # {}
      <4>1. PICK c \in slots : cur' = c /\ slots' = slots \ {c} /\ conn' = conn \ {c}
        BY <1>13, <3>2 DEF Disconnect
      <4> QED
        BY <4>1, <1>b
    <3> QED
      BY <3>1, <3>2
  <2> QED
    BY <1>13, <2>1, <2>2 DEF Disconnect
<1>14. ASSUME NEW inspected, NEW res, InspectAndDelete(inspected, res) PROVE TypeOK'
  <2>1. pc' \in PCs /\ tries' \in Nat
    BY <1>14 DEF InspectAndDelete, Proceed, Retry, PCs
  <2>2. docker' \in [Containers -> DockerStates]
    BY <1>14 DEF InspectAndDelete, DockerStates
  <2> QED
    BY <1>14, <2>1, <2>2 DEF InspectAndDelete
<1>15. ASSUME NEW res, Remove(res) PROVE TypeOK'
  <2>1. pc' \in PCs /\ tries' \in Nat
    BY <1>15 DEF Remove, Proceed, Retry, PCs
  <2>2. docker' \in [Containers -> DockerStates]
    BY <1>15 DEF Remove, DockerStates
  <2> QED
    BY <1>15, <2>1, <2>2 DEF Remove
<1>16. CASE Die
  BY <1>16 DEF Die, PCs
<1>17. ASSUME NEW c \in Containers, NEW res, CleanerCheck(c, res) PROVE TypeOK'
  BY <1>17 DEF CleanerCheck, CleanerGoes, qeVars, CleanerPCs, DockerStates
<1>18. ASSUME NEW c \in Containers, CleanerExits(c)
       PROVE  /\ cleaner' \in [Containers -> CleanerPCs]
              /\ entries' \subseteq Containers
              /\ heldBy' \in [Containers -> SUBSET Containers]
  BY <1>18 DEF CleanerExits, CleanerPCs
<1>19. ASSUME NEW c \in Containers, NEW next \in CleanerPCs, CleanerGoes(c, next)
       PROVE  /\ cleaner' \in [Containers -> CleanerPCs]
              /\ entries' \subseteq Containers
              /\ heldBy' \in [Containers -> SUBSET Containers]
  BY <1>19 DEF CleanerGoes
<1>20. "check" \in CleanerPCs /\ "delete" \in CleanerPCs
  BY DEF CleanerPCs
<1>21. ASSUME NEW c \in Containers, CleanerFails(c)
       PROVE  /\ cleaner' \in [Containers -> CleanerPCs]
              /\ entries' \subseteq Containers
              /\ heldBy' \in [Containers -> SUBSET Containers]
              /\ waits' \in [Containers -> Nat]
  BY <1>18, <1>19, <1>20, <1>21 DEF CleanerFails
<1>22. ASSUME NEW c \in Containers, NEW res, CleanerInspect(c, res) PROVE TypeOK'
  <2>1. /\ cleaner' \in [Containers -> CleanerPCs]
        /\ entries' \subseteq Containers
        /\ heldBy' \in [Containers -> SUBSET Containers]
        /\ waits' \in [Containers -> Nat]
    BY <1>18, <1>19, <1>20, <1>21, <1>22 DEF CleanerInspect
  <2> QED
    BY <1>22, <2>1 DEF CleanerInspect, qeVars
<1>23. ASSUME NEW c \in Containers, NEW res, CleanerDelete(c, res) PROVE TypeOK'
  <2>1. /\ cleaner' \in [Containers -> CleanerPCs]
        /\ entries' \subseteq Containers
        /\ heldBy' \in [Containers -> SUBSET Containers]
        /\ waits' \in [Containers -> Nat]
    BY <1>18, <1>21, <1>23 DEF CleanerDelete
  <2>2. docker' \in [Containers -> DockerStates]
    BY <1>23 DEF CleanerDelete, DockerStates
  <2> QED
    BY <1>23, <2>1, <2>2 DEF CleanerDelete, qeVars
<1>24. ASSUME NEW c \in Containers, ClientExits(c) \/ ClientCrashes(c) PROVE TypeOK'
  BY <1>24 DEF ClientExits, ClientCrashes, qeVars, DockerStates
<1>25. CASE UNCHANGED vars
  BY <1>25 DEF vars, qeVars
<1> QED
  BY <1>1, <1>2, <1>3, <1>4, <1>5, <1>6, <1>7, <1>9, <1>10, <1>11, <1>12, <1>13, <1>14,
     <1>15, <1>16, <1>17, <1>22, <1>23, <1>24, <1>25
  DEF Next, QEStep, CleanerStep

-----------------------------------------------------------------------------
\* What one pass of the loop of cleanup() through delete_backend_if_exited
\* may do: it touches its own container only, and ends the process only when
\* the container is gone, or the QE is and the failures have added up.
CleanerMoved(c) ==
    /\ UNCHANGED qeVars
    /\ cleaner[c] # "none"
    /\ \A d \in Containers : d # c =>
          cleaner'[d] = cleaner[d] /\ docker'[d] = docker[d] /\ waits'[d] = waits[d]
    /\ docker'[c] \in {docker[c], "gone"}
    /\ \/ cleaner'[c] = "check" /\ entries' = entries
       \/ cleaner'[c] = "delete" /\ entries' = entries /\ Exited(c) /\ docker' = docker
       \/ /\ cleaner'[c] = "done"
          /\ entries' = entries \ {c}
          /\ docker'[c] = "gone" \/ (~QEAlive /\ waits'[c] >= CleanupTries)

\* A failure ends a cleanup process only when the QE is dead (CleanerFails).
LEMMA FailureMoves ==
    ASSUME TypeOK, WaitsInv, NEW c \in Containers,
           cleaner[c] \in {"inspect", "delete"}, CleanerFails(c)
    PROVE  /\ \A d \in Containers : d # c => cleaner'[d] = cleaner[d] /\ waits'[d] = waits[d]
           /\ \/ cleaner'[c] = "check" /\ entries' = entries
              \/ /\ cleaner'[c] = "done"
                 /\ entries' = entries \ {c}
                 /\ ~QEAlive /\ waits'[c] >= CleanupTries
<1> USE DEF TypeOK
<1>1. \A d \in Containers : d # c => cleaner'[d] = cleaner[d] /\ waits'[d] = waits[d]
  BY DEF CleanerFails, CleanerExits, CleanerGoes
<1>2. CASE waits[c] + 1 >= CleanupTries
  <2>1. cleaner'[c] = "done" /\ entries' = entries \ {c} /\ waits'[c] >= CleanupTries
    BY <1>2 DEF CleanerFails, CleanerExits
  <2>2. waits[c] # 0
    BY <1>2, LifecycleAssumption
  <2>3. ~QEAlive
    BY <2>2 DEF WaitsInv
  <2> QED
    BY <1>1, <2>1, <2>3
<1>3. CASE ~(waits[c] + 1 >= CleanupTries)
  BY <1>1, <1>3 DEF CleanerFails, CleanerGoes
<1> QED
  BY <1>2, <1>3

\* The inspection of a cleanup process (CleanerInspect).
LEMMA InspectMoves ==
    ASSUME TypeOK, WaitsInv, NEW c \in Containers, NEW res, CleanerInspect(c, res)
    PROVE  CleanerMoved(c)
<1> USE DEF TypeOK
<1>1. /\ cleaner[c] = "inspect" /\ UNCHANGED qeVars /\ docker' = docker
  BY DEF CleanerInspect
<1>2. CASE res # "ok"
  BY <1>1, <1>2, FailureMoves DEF CleanerInspect, CleanerMoved
<1>3. CASE res = "ok" /\ docker[c] = "gone"
  BY <1>1, <1>3 DEF CleanerInspect, CleanerExits, CleanerMoved
<1>4. CASE res = "ok" /\ docker[c] # "gone" /\ Exited(c)
  BY <1>1, <1>4 DEF CleanerInspect, CleanerGoes, CleanerMoved
<1>5. CASE res = "ok" /\ docker[c] # "gone" /\ ~Exited(c)
  BY <1>1, <1>5 DEF CleanerInspect, CleanerGoes, CleanerMoved
<1> QED
  BY <1>2, <1>3, <1>4, <1>5

\* The deletion of a cleanup process (CleanerDelete).
LEMMA DeleteMoves ==
    ASSUME TypeOK, WaitsInv, NEW c \in Containers, NEW res, CleanerDelete(c, res)
    PROVE  CleanerMoved(c)
<1> USE DEF TypeOK
<1>1. cleaner[c] = "delete" /\ UNCHANGED qeVars
  BY DEF CleanerDelete
<1>2. CASE res # "ok"
  BY <1>1, <1>2, FailureMoves DEF CleanerDelete, CleanerMoved
<1>3. CASE res = "ok"
  BY <1>1, <1>3, SMTT(20) DEF CleanerDelete, CleanerExits, CleanerMoved
<1> QED
  BY <1>2, <1>3

-----------------------------------------------------------------------------
\* start_backend works on a container that nothing else knows of yet.
LEMMA StartPreserved == IInv /\ [Next]_vars => StartInv'
<1> SUFFICES ASSUME IInv, [Next]_vars PROVE StartInv'
  OBVIOUS
<1> USE DEF IInv, TypeOK, StartInv, Starting
<1>a. \A c \in 1 .. created : c \in Containers
  BY LifecycleAssumption DEF Containers
<1>1. CASE StartBackend
  BY <1>1, LifecycleAssumption DEF StartBackend, Containers
<1>2. ASSUME NEW res, Create(res) PROVE StartInv'
  BY <1>2 DEF Create, Proceed, Retry
<1>3. ASSUME NEW res, Start(res) PROVE StartInv'
  BY <1>3 DEF Start, Proceed, Retry
<1>4. ASSUME NEW res, Fork(res) PROVE StartInv'
  BY <1>4 DEF Fork, Proceed
<1>5. ASSUME NEW res, Connect(res) PROVE StartInv'
  BY <1>5 DEF Connect, Proceed
<1>6. CASE Register
  BY <1>6 DEF Register, Proceed
<1>7. ASSUME NEW c \in Containers, UseBackend(c) PROVE StartInv'
  BY <1>7 DEF UseBackend, Proceed
<1>8. CASE BeginCall
  BY <1>8 DEF BeginCall, Replace, Proceed
<1>9. CASE FinishCall
  BY <1>9 DEF FinishCall, Replace, Proceed
<1>10. CASE Answer
  BY <1>10 DEF Answer, Proceed
<1>11. CASE FailCall
  BY <1>11 DEF FailCall, Proceed
<1>12. CASE Terminate
  BY <1>12 DEF Terminate, Proceed
<1>13. CASE Disconnect
  BY <1>13 DEF Disconnect, Proceed
<1>14. ASSUME NEW inspected, NEW res, InspectAndDelete(inspected, res) PROVE StartInv'
  BY <1>14 DEF InspectAndDelete, Proceed, Retry
<1>15. ASSUME NEW res, Remove(res) PROVE StartInv'
  BY <1>15 DEF Remove, Proceed, Retry
<1>16. CASE Die
  BY <1>16 DEF Die
<1>17. ASSUME NEW c \in Containers, NEW res, CleanerCheck(c, res) PROVE StartInv'
  BY <1>17 DEF CleanerCheck, CleanerGoes, qeVars
<1>18. ASSUME NEW c \in Containers, NEW res, CleanerInspect(c, res) PROVE StartInv'
  BY <1>18, <1>a, InspectMoves DEF CleanerMoved, qeVars
<1>19. ASSUME NEW c \in Containers, NEW res, CleanerDelete(c, res) PROVE StartInv'
  BY <1>19, <1>a, DeleteMoves DEF CleanerMoved, qeVars
<1>20. ASSUME NEW c \in Containers, ClientExits(c) \/ ClientCrashes(c) PROVE StartInv'
  BY <1>20 DEF ClientExits, ClientCrashes, qeVars
<1>21. CASE UNCHANGED vars
  BY <1>21, SMTT(20) DEF vars, qeVars
<1> QED
  BY <1>1, <1>2, <1>3, <1>4, <1>5, <1>6, <1>7, <1>8, <1>9, <1>10, <1>11, <1>12,
     <1>13, <1>14, <1>15, <1>16, <1>17, <1>18, <1>19, <1>20, <1>21
  DEF Next, QEStep, CleanerStep

-----------------------------------------------------------------------------
\* With the QE alive, every pass of cleanup() starts counting from zero.
LEMMA WaitsPreserved == IInv /\ [Next]_vars => WaitsInv'
<1> SUFFICES ASSUME IInv, [Next]_vars PROVE WaitsInv'
  OBVIOUS
<1> USE DEF IInv, TypeOK, WaitsInv, QEAlive, StartInv, Starting
<1>1. CASE StartBackend
  BY <1>1 DEF StartBackend
<1>2. ASSUME NEW res, Create(res) PROVE WaitsInv'
  BY <1>2 DEF Create, Proceed, Retry
<1>3. ASSUME NEW res, Start(res) PROVE WaitsInv'
  BY <1>3 DEF Start, Proceed, Retry
<1>4. ASSUME NEW res, Fork(res) PROVE WaitsInv'
  BY <1>4 DEF Fork, Proceed
<1>5. ASSUME NEW res, Connect(res) PROVE WaitsInv'
  BY <1>5 DEF Connect, Proceed
<1>6. CASE Register
  BY <1>6 DEF Register, Proceed
<1>7. ASSUME NEW c \in Containers, UseBackend(c) PROVE WaitsInv'
  BY <1>7 DEF UseBackend, Proceed
<1>8. CASE BeginCall
  BY <1>8 DEF BeginCall, Replace, Proceed
<1>9. CASE FinishCall
  BY <1>9 DEF FinishCall, Replace, Proceed
<1>10. CASE Answer
  BY <1>10 DEF Answer, Proceed
<1>11. CASE FailCall
  BY <1>11 DEF FailCall, Proceed
<1>12. CASE Terminate
  BY <1>12 DEF Terminate, Proceed
<1>13. CASE Disconnect
  BY <1>13 DEF Disconnect, Proceed
<1>14. ASSUME NEW inspected, NEW res, InspectAndDelete(inspected, res) PROVE WaitsInv'
  BY <1>14 DEF InspectAndDelete, Proceed, Retry
<1>15. ASSUME NEW res, Remove(res) PROVE WaitsInv'
  BY <1>15 DEF Remove, Proceed, Retry
<1>16. CASE Die
  BY <1>16 DEF Die
<1>17. ASSUME NEW c \in Containers, NEW res, CleanerCheck(c, res) PROVE WaitsInv'
  BY <1>17 DEF CleanerCheck, CleanerGoes, qeVars
<1>18. ASSUME NEW c \in Containers, NEW res, CleanerInspect(c, res) PROVE WaitsInv'
  BY <1>18 DEF CleanerInspect, CleanerFails, CleanerExits, CleanerGoes, qeVars
<1>19. ASSUME NEW c \in Containers, NEW res, CleanerDelete(c, res) PROVE WaitsInv'
  BY <1>19 DEF CleanerDelete, CleanerFails, CleanerExits, CleanerGoes, qeVars
<1>20. ASSUME NEW c \in Containers, ClientExits(c) \/ ClientCrashes(c) PROVE WaitsInv'
  BY <1>20 DEF ClientExits, ClientCrashes, qeVars
<1>21. CASE UNCHANGED vars
  BY <1>21 DEF vars, qeVars
<1> QED
  BY <1>1, <1>2, <1>3, <1>4, <1>5, <1>6, <1>7, <1>8, <1>9, <1>10, <1>11, <1>12,
     <1>13, <1>14, <1>15, <1>16, <1>17, <1>18, <1>19, <1>20, <1>21
  DEF Next, QEStep, CleanerStep

-----------------------------------------------------------------------------
\* delete_backend_if_exited deletes what has been seen exited: a container
\* that exited never runs again.
LEMMA DeletePreserved == IInv /\ [Next]_vars => DeleteInv'
<1> SUFFICES ASSUME IInv, [Next]_vars PROVE DeleteInv'
  OBVIOUS
<1> USE DEF IInv, TypeOK, DeleteInv, StartInv, Starting
<1>1. CASE StartBackend
  BY <1>1 DEF StartBackend
<1>2. ASSUME NEW res, Create(res) PROVE DeleteInv'
  BY <1>2 DEF Create, Proceed, Retry
<1>3. ASSUME NEW res, Start(res) PROVE DeleteInv'
  BY <1>3 DEF Start, Proceed, Retry
<1>4. ASSUME NEW res, Fork(res) PROVE DeleteInv'
  BY <1>4 DEF Fork, Proceed
<1>5. ASSUME NEW res, Connect(res) PROVE DeleteInv'
  BY <1>5 DEF Connect, Proceed
<1>6. CASE Register
  BY <1>6 DEF Register, Proceed
<1>7. ASSUME NEW c \in Containers, UseBackend(c) PROVE DeleteInv'
  BY <1>7 DEF UseBackend, Proceed
<1>8. CASE BeginCall
  BY <1>8 DEF BeginCall, Replace, Proceed
<1>9. CASE FinishCall
  BY <1>9 DEF FinishCall, Replace, Proceed
<1>10. CASE Answer
  BY <1>10 DEF Answer, Proceed
<1>11. CASE FailCall
  BY <1>11 DEF FailCall, Proceed
<1>12. CASE Terminate
  BY <1>12 DEF Terminate, Proceed
<1>13. CASE Disconnect
  BY <1>13 DEF Disconnect, Proceed
<1>14. ASSUME NEW inspected, NEW res, InspectAndDelete(inspected, res) PROVE DeleteInv'
  BY <1>14 DEF InspectAndDelete, Proceed, Retry
<1>15. ASSUME NEW res, Remove(res) PROVE DeleteInv'
  BY <1>15 DEF Remove, Proceed, Retry
<1>16. CASE Die
  BY <1>16 DEF Die
<1>17. ASSUME NEW c \in Containers, NEW res, CleanerCheck(c, res) PROVE DeleteInv'
  BY <1>17 DEF CleanerCheck, CleanerGoes, qeVars
<1>18. ASSUME NEW c \in Containers, NEW res, CleanerInspect(c, res) PROVE DeleteInv'
  BY <1>18, InspectMoves DEF CleanerMoved, qeVars, Exited
<1>19. ASSUME NEW c \in Containers, NEW res, CleanerDelete(c, res) PROVE DeleteInv'
  BY <1>19, DeleteMoves DEF CleanerMoved, qeVars, Exited
<1>20. ASSUME NEW c \in Containers, ClientExits(c) \/ ClientCrashes(c) PROVE DeleteInv'
  BY <1>20 DEF ClientExits, ClientCrashes, qeVars
<1>21. CASE UNCHANGED vars
  BY <1>21, SMTT(20) DEF vars, qeVars
<1> QED
  BY <1>1, <1>2, <1>3, <1>4, <1>5, <1>6, <1>7, <1>8, <1>9, <1>10, <1>11, <1>12,
     <1>13, <1>14, <1>15, <1>16, <1>17, <1>18, <1>19, <1>20, <1>21
  DEF Next, QEStep, CleanerStep

-----------------------------------------------------------------------------
\* No step ends a cleanup process early (the loop of cleanup()).
LEMMA OutlivesPreserved == IInv /\ [Next]_vars => CleanerOutlivesContainer'
<1> SUFFICES ASSUME IInv, [Next]_vars PROVE CleanerOutlivesContainer'
  OBVIOUS
<1> USE DEF IInv, TypeOK, CleanerOutlivesContainer, QEAlive, StartInv, Starting, WaitsInv
<1>1. CASE StartBackend
  BY <1>1 DEF StartBackend
<1>2. ASSUME NEW res, Create(res) PROVE CleanerOutlivesContainer'
  BY <1>2 DEF Create, Proceed, Retry
<1>3. ASSUME NEW res, Start(res) PROVE CleanerOutlivesContainer'
  BY <1>3 DEF Start, Proceed, Retry
<1>4. ASSUME NEW res, Fork(res) PROVE CleanerOutlivesContainer'
  BY <1>4 DEF Fork, Proceed
<1>5. ASSUME NEW res, Connect(res) PROVE CleanerOutlivesContainer'
  BY <1>5 DEF Connect, Proceed
<1>6. CASE Register
  BY <1>6 DEF Register, Proceed
<1>7. ASSUME NEW c \in Containers, UseBackend(c) PROVE CleanerOutlivesContainer'
  BY <1>7 DEF UseBackend, Proceed
<1>8. CASE BeginCall
  BY <1>8 DEF BeginCall, Replace, Proceed
<1>9. CASE FinishCall
  BY <1>9 DEF FinishCall, Replace, Proceed
<1>10. CASE Answer
  BY <1>10 DEF Answer, Proceed
<1>11. CASE FailCall
  BY <1>11 DEF FailCall, Proceed
<1>12. CASE Terminate
  BY <1>12 DEF Terminate, Proceed
<1>13. CASE Disconnect
  BY <1>13 DEF Disconnect, Proceed
<1>14. ASSUME NEW inspected, NEW res, InspectAndDelete(inspected, res)
      PROVE  CleanerOutlivesContainer'
  BY <1>14 DEF InspectAndDelete, Proceed, Retry
<1>15. ASSUME NEW res, Remove(res) PROVE CleanerOutlivesContainer'
  BY <1>15 DEF Remove, Proceed, Retry
<1>16. CASE Die
  BY <1>16 DEF Die
<1>17. ASSUME NEW c \in Containers, NEW res, CleanerCheck(c, res) PROVE CleanerOutlivesContainer'
  BY <1>17 DEF CleanerCheck, CleanerGoes, qeVars
<1>18. ASSUME NEW c \in Containers, NEW res, CleanerInspect(c, res) PROVE CleanerOutlivesContainer'
  BY <1>18, InspectMoves DEF CleanerMoved, qeVars
<1>19. ASSUME NEW c \in Containers, NEW res, CleanerDelete(c, res) PROVE CleanerOutlivesContainer'
  BY <1>19, DeleteMoves DEF CleanerMoved, qeVars
<1>20. ASSUME NEW c \in Containers, ClientExits(c) \/ ClientCrashes(c)
      PROVE  CleanerOutlivesContainer'
  BY <1>20 DEF ClientExits, ClientCrashes, qeVars
<1>21. CASE UNCHANGED vars
  BY <1>21, SMTT(20) DEF vars, qeVars
<1> QED
  BY <1>1, <1>2, <1>3, <1>4, <1>5, <1>6, <1>7, <1>8, <1>9, <1>10, <1>11, <1>12,
     <1>13, <1>14, <1>15, <1>16, <1>17, <1>18, <1>19, <1>20, <1>21
  DEF Next, QEStep, CleanerStep

-----------------------------------------------------------------------------
\* No step drops the entry of a running container from the shared map
\* (cleanup_atexit_callback).
LEMMA EntryPreserved == IInv /\ [Next]_vars => RunningHasEntry'
<1> SUFFICES ASSUME IInv, [Next]_vars PROVE RunningHasEntry'
  OBVIOUS
<1> USE DEF IInv, TypeOK, RunningHasEntry, QEAlive, StartInv, Starting, WaitsInv
<1>1. CASE StartBackend
  BY <1>1 DEF StartBackend
<1>2. ASSUME NEW res, Create(res) PROVE RunningHasEntry'
  BY <1>2 DEF Create, Proceed, Retry
<1>3. ASSUME NEW res, Start(res) PROVE RunningHasEntry'
  BY <1>3 DEF Start, Proceed, Retry
<1>4. ASSUME NEW res, Fork(res) PROVE RunningHasEntry'
  BY <1>4 DEF Fork, Proceed
<1>5. ASSUME NEW res, Connect(res) PROVE RunningHasEntry'
  BY <1>5 DEF Connect, Proceed
<1>6. CASE Register
  BY <1>6 DEF Register, Proceed
<1>7. ASSUME NEW c \in Containers, UseBackend(c) PROVE RunningHasEntry'
  BY <1>7 DEF UseBackend, Proceed
<1>8. CASE BeginCall
  BY <1>8 DEF BeginCall, Replace, Proceed
<1>9. CASE FinishCall
  BY <1>9 DEF FinishCall, Replace, Proceed
<1>10. CASE Answer
  BY <1>10 DEF Answer, Proceed
<1>11. CASE FailCall
  BY <1>11 DEF FailCall, Proceed
<1>12. CASE Terminate
  BY <1>12 DEF Terminate, Proceed
<1>13. CASE Disconnect
  BY <1>13 DEF Disconnect, Proceed
<1>14. ASSUME NEW inspected, NEW res, InspectAndDelete(inspected, res) PROVE RunningHasEntry'
  BY <1>14 DEF InspectAndDelete, Proceed, Retry
<1>15. ASSUME NEW res, Remove(res) PROVE RunningHasEntry'
  BY <1>15 DEF Remove, Proceed, Retry
<1>16. CASE Die
  BY <1>16 DEF Die
<1>17. ASSUME NEW c \in Containers, NEW res, CleanerCheck(c, res) PROVE RunningHasEntry'
  BY <1>17 DEF CleanerCheck, CleanerGoes, qeVars
<1>18. ASSUME NEW c \in Containers, NEW res, CleanerInspect(c, res) PROVE RunningHasEntry'
  BY <1>18, InspectMoves DEF CleanerMoved, qeVars
<1>19. ASSUME NEW c \in Containers, NEW res, CleanerDelete(c, res) PROVE RunningHasEntry'
  BY <1>19, DeleteMoves DEF CleanerMoved, qeVars
<1>20. ASSUME NEW c \in Containers, ClientExits(c) \/ ClientCrashes(c) PROVE RunningHasEntry'
  BY <1>20 DEF ClientExits, ClientCrashes, qeVars
<1>21. CASE UNCHANGED vars
  BY <1>21, SMTT(20) DEF vars, qeVars
<1> QED
  BY <1>1, <1>2, <1>3, <1>4, <1>5, <1>6, <1>7, <1>8, <1>9, <1>10, <1>11, <1>12,
     <1>13, <1>14, <1>15, <1>16, <1>17, <1>18, <1>19, <1>20, <1>21
  DEF Next, QEStep, CleanerStep

-----------------------------------------------------------------------------
\* What a step may do to a running container the QE is connected to.
KeepsRunning ==
    \A c \in conn : QEAlive /\ docker[c] = "running" => docker'[c] \in {"running", "exited"}

\* No step kills or removes a running container under a connected QE: the
\* calls of the Docker API in containers.c that could are all guarded.
LEMMA StepKeepsRunning == IInv /\ [Next]_vars => KeepsRunning
<1> SUFFICES ASSUME IInv, [Next]_vars PROVE KeepsRunning
  OBVIOUS
<1> USE DEF IInv, TypeOK, StartInv, KeepsRunning
<1>1. ASSUME NEW res, Create(res) PROVE KeepsRunning
  BY <1>1 DEF Create
<1>2. ASSUME NEW res, Start(res) PROVE KeepsRunning
  BY <1>2 DEF Start
<1>3. ASSUME NEW inspected, NEW res, InspectAndDelete(inspected, res) PROVE KeepsRunning
  BY <1>3 DEF InspectAndDelete, Exited
<1>4. ASSUME NEW res, Remove(res) PROVE KeepsRunning
  BY <1>4 DEF Remove
<1>5. ASSUME NEW c \in Containers, NEW res, CleanerCheck(c, res) PROVE KeepsRunning
  BY <1>5 DEF CleanerCheck
<1>6. ASSUME NEW c \in Containers, NEW res, CleanerInspect(c, res) PROVE KeepsRunning
  BY <1>6 DEF CleanerInspect
<1>7. ASSUME NEW c \in Containers, NEW res, CleanerDelete(c, res) PROVE KeepsRunning
  BY <1>7 DEF CleanerDelete, DeleteInv
<1>8. ASSUME NEW c \in Containers, ClientExits(c) \/ ClientCrashes(c) PROVE KeepsRunning
  BY <1>8 DEF ClientExits, ClientCrashes
<1>9. CASE docker' = docker
  BY <1>9
<1> QED
  BY <1>1, <1>2, <1>3, <1>4, <1>5, <1>6, <1>7, <1>8, <1>9
  DEF Next, QEStep, CleanerStep, vars, StartBackend, Fork, Connect, Register, BeginCall,
      Answer, FinishCall, FailCall, Replace, UseBackend, Disconnect, Terminate, Die

-----------------------------------------------------------------------------
\* The inductive invariant holds initially: no container, no process.
LEMMA InitEstablishes == Init => IInv
<1> SUFFICES ASSUME Init PROVE IInv
  OBVIOUS
<1> USE LifecycleAssumption DEF Init
<1>1. TypeOK
  BY DEF TypeOK, PCs, DockerStates, CleanerPCs, Containers
<1>2. StartInv
  BY DEF StartInv, Starting
<1>3. WaitsInv /\ DeleteInv
  BY DEF WaitsInv, DeleteInv
<1>4. CleanerOutlivesContainer /\ RunningHasEntry
  BY DEF CleanerOutlivesContainer, RunningHasEntry
<1> QED
  BY <1>1, <1>2, <1>3, <1>4 DEF IInv

\* The invariant that the theorems below rest on: every reachable state of
\* the QE, its cleanup processes and the daemon satisfies IInv.
THEOREM InductiveInvariant == Spec => []IInv
<1>1. IInv /\ [Next]_vars => IInv'
  BY TypePreserved, StartPreserved, WaitsPreserved, DeletePreserved, OutlivesPreserved,
     EntryPreserved DEF IInv
<1> QED
  BY <1>1, InitEstablishes, PTL DEF Spec

\* The state of containers.c keeps its types.
THEOREM TypeCorrect == Spec => []TypeOK
<1>1. IInv => TypeOK
  BY DEF IInv
<1> QED
  BY <1>1, InductiveInvariant, PTL

\* However often the daemon fails, and whenever the QE dies, a cleanup
\* process ends early only after the QE's death (the loop of cleanup()).
THEOREM OutlivesCorrect == Spec => []CleanerOutlivesContainer
<1>1. IInv => CleanerOutlivesContainer
  BY DEF IInv
<1> QED
  BY <1>1, InductiveInvariant, PTL

\* Every running container the QE is connected to stays listed in the shared
\* map (add_containerid_entry, cleanup_atexit_callback).
THEOREM EntryCorrect == Spec => []RunningHasEntry
<1>1. IInv => RunningHasEntry
  BY DEF IInv
<1> QED
  BY <1>1, InductiveInvariant, PTL

\* Neither a cleanup process nor delete_containers kills a running container
\* while the QE is alive and connected to it.
THEOREM NoKillCorrect == Spec => NoKillUnderQE
<1>1. IInv /\ [Next]_vars => [KeepsRunning]_vars
  BY StepKeepsRunning
<1>2. Spec => [][KeepsRunning]_vars
  BY <1>1, InductiveInvariant, PTL DEF Spec
<1> QED
  BY <1>2 DEF NoKillUnderQE, KeepsRunning

=============================================================================
