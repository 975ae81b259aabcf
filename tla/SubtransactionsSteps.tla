------------------------ MODULE SubtransactionsSteps -------------------------
(***************************************************************************)
(* The steps a call takes on its own keep the invariant: statements,       *)
(* enter, exit and errors.  SubtransactionsProofs has the steps that make  *)
(* and end calls, and the theorems.                                        *)
(***************************************************************************)
EXTENDS SubtransactionsFrames

-----------------------------------------------------------------------------
(* Actions *)

\* An exception of the function, or the death of the client.
LEMMA FunctionFailsKeeps ==
    ASSUME IInv, FunctionFails
    PROVE  IInv'
<1>1. /\ stack # <<>> /\ Top.pc = "run" /\ Goto("error")
      /\ UNCHANGED <<calls, xact, owner, explicit_subtransactions, effect, objs>>
  BY DEF FunctionFails, At
<1>2. /\ Top \in Frames /\ xact \in Xacts /\ objs \in Objs /\ effect \in Nat
      /\ Len(explicit_subtransactions) \in Nat /\ owner = Len(xact)
      /\ Len(xact) = Depth(Top, Len(explicit_subtransactions))
  BY <1>1, TopFacts
<1>3. Len(xact) = Top.base + Len(explicit_subtransactions) - Top.save
  <2>1. Inner(Top) = 0
    BY <1>1 DEF Inner
  <2> QED BY <1>2, <2>1, FrameTypes, SMTT(30) DEF Depth
<1> QED BY <1>1, <1>2, <1>3, NothingElse, ToError

\* The innermost level of a frame that executes a statement.
LEMMA StatementFacts ==
    ASSUME IInv, stack # <<>>, Top.pc \in {"sql", "fail"}
    PROVE  /\ Len(xact) = Top.base + Len(explicit_subtransactions) - Top.save + 1
           /\ Len(xact) \in Nat /\ Len(xact) >= 1
           /\ Top.base \in Nat /\ Top.save \in Nat /\ Top.base <= Len(xact) - 1
           /\ Top.oldowner = Len(xact) - 1
           /\ Pop(xact) \in Xacts /\ Len(Pop(xact)) = Len(xact) - 1
           /\ SameStack(xact, Pop(xact), Len(xact) - 1)
           /\ SameStack(xact, Pop(xact), Top.base)
           /\ TopOf(xact).undo \in Nat
<1>1. /\ Top \in Frames /\ xact \in Xacts /\ Len(xact) \in Nat
      /\ Len(explicit_subtransactions) \in Nat
      /\ Len(xact) = Depth(Top, Len(explicit_subtransactions))
      /\ FrameOK(Top, Len(explicit_subtransactions), xact, explicit_subtransactions, objs)
  BY TopFacts
<1>2. Top.base \in Nat /\ Top.save \in Nat /\ Inner(Top) = 1
  BY <1>1, FrameTypes DEF Inner
<1>3. Len(xact) = Top.base + Len(explicit_subtransactions) - Top.save + 1
  BY <1>1, <1>2 DEF Depth
<1>4. Top.save <= Len(explicit_subtransactions) /\ Top.oldowner = Len(xact) - 1
  BY <1>1 DEF FrameOK
<1>5. Len(xact) >= 1 /\ Top.base <= Len(xact) - 1 /\ Len(xact) - 1 \in Nat
  BY <1>1, <1>2, <1>3, <1>4, SMTT(30)
<1>6. /\ Pop(xact) \in Xacts /\ Len(Pop(xact)) = Len(xact) - 1
      /\ \A b \in Nat : b <= Len(xact) - 1 => SameStack(xact, Pop(xact), b)
  BY <1>1, <1>5, PrefixFacts DEF Pop, Xacts
<1>7. TopOf(xact).undo \in Nat
  <2>1. Len(xact) \in 1 .. Len(xact)
    BY <1>1, <1>5
  <2> QED BY <1>1, <2>1, LevelFacts DEF TopOf
<1> QED BY <1>1, <1>2, <1>3, <1>4, <1>5, <1>6, <1>7

\* A statement fails.
LEMMA SqlFailsKeeps ==
    ASSUME IInv, SqlFails
    PROVE  IInv'
<1>1. /\ stack # <<>> /\ Top.pc \in {"sql", "fail"} /\ Goto("error")
      /\ xact' = Pop(xact) /\ effect' = TopOf(xact).undo /\ owner' = Top.oldowner
      /\ UNCHANGED <<calls, explicit_subtransactions, objs>>
  BY DEF SqlFails, At
<1>2. objs \in Objs
  BY <1>1, TopFacts
<1>3. Len(explicit_subtransactions) \in Nat
  BY <1>1, TopFacts
<1>4. /\ xact' \in Xacts /\ effect' \in Nat /\ owner' = Len(xact')
      /\ SameStack(xact, xact', Top.base)
      /\ Len(xact') = Top.base + Len(explicit_subtransactions) - Top.save
  BY <1>1, <1>3, StatementFacts, SMTT(30)
<1> QED BY <1>1, <1>2, <1>4, NothingElse, ToError

\* A statement succeeds.
LEMMA SqlEndsKeeps ==
    ASSUME IInv, SqlEnds
    PROVE  IInv'
<1> DEFINE n == Len(stack)
           m == Len(explicit_subtransactions)
<1>1. /\ stack # <<>> /\ Top.pc = "sql" /\ Goto("run")
      /\ xact' = Pop(xact) /\ owner' = Top.oldowner
      /\ UNCHANGED <<calls, explicit_subtransactions, effect, objs>>
  BY DEF SqlEnds, At
<1>2. /\ Top \in Frames /\ xact \in Xacts /\ explicit_subtransactions \in Lists /\ objs \in Objs
      /\ m \in Nat /\ effect \in Nat
      /\ FrameOK(Top, m, xact, explicit_subtransactions, objs)
  BY <1>1, TopFacts
<1>3. /\ xact' \in Xacts /\ owner' = Len(xact') /\ Len(xact') \in Nat
      /\ SameStack(xact, xact', Top.base)
      /\ Len(xact') = Top.base + m - Top.save
      /\ SameStack(xact, xact', Top.base + m - Top.save)
  BY <1>1, <1>2, StatementFacts, SMTT(30)
<1>4. /\ stack' \in Stacks /\ Len(stack') = n /\ SameFrames(stack, stack', n)
      /\ stack'[n] \in Frames /\ SameCall(Top, stack'[n]) /\ stack'[n].pc = "run"
  <2>1. "run" \in PCs /\ Top.oldowner \in Nat
    BY <1>2, FrameTypes DEF PCs
  <2>2. stack' = [stack EXCEPT ![Len(stack)] = Moved(Top, "run", Top.oldowner)]
    BY <1>1 DEF Goto
  <2> QED BY <1>1, <2>1, <2>2, GotoFacts, Zenon
<1> HIDE DEF n, m
<1>5. ObjectsOK(stack'[n], m, xact', objs)
  <2>1. ObjectsOK(Top, m, xact, objs) /\ Top.save <= m
    BY <1>1, <1>2 DEF FrameOK
  <2> QED BY <1>2, <1>3, <1>4, <2>1, ObjectsKept
<1>6. Depth(stack'[n], m) = Len(xact')
  <2>1. Inner(stack'[n]) = 0
    BY <1>4, SMTT(30) DEF Inner
  <2> QED BY <1>2, <1>3, <1>4, <2>1, FrameTypes DEF Depth, SameCall
<1>7. FrameOK(stack'[n], m, xact', explicit_subtransactions, objs)
  <2>1. /\ stack'[n].save = Top.save /\ stack'[n].base = Top.base
    BY <1>4 DEF SameCall
  <2>2. BlockOK(stack'[n], xact')
    BY <1>2, <1>3, <1>4, BlockKept DEF FrameOK
  <2> QED BY <1>2, <1>3, <1>4, <1>5, <1>6, <2>1, <2>2 DEF FrameOK
<1> QED BY <1>1, <1>2, <1>3, <1>4, <1>6, <1>7, NothingElse, TopStep DEF n, m

\* The innermost level of a frame whose function runs.
LEMMA RunFacts ==
    ASSUME IInv, stack # <<>>, Top.pc \in {"run", "error"}
    PROVE  /\ Len(xact) = Top.base + Len(explicit_subtransactions) - Top.save
           /\ Top.base \in Nat /\ Top.save \in Nat /\ Top.id \in Nat
           /\ Top.base <= Len(xact)
           /\ Top.pc = "run" =>
                ObjectsOK(Top, Len(explicit_subtransactions), xact, objs)
<1>1. /\ Top \in Frames /\ Len(xact) \in Nat /\ Top.base <= Len(xact)
      /\ Len(explicit_subtransactions) \in Nat
      /\ Len(xact) = Depth(Top, Len(explicit_subtransactions))
      /\ FrameOK(Top, Len(explicit_subtransactions), xact, explicit_subtransactions, objs)
  BY TopFacts
<1>2. Top.base \in Nat /\ Top.save \in Nat /\ Top.id \in Nat /\ Inner(Top) = 0
  BY <1>1, FrameTypes DEF Inner
<1>3. Len(xact) = Top.base + Len(explicit_subtransactions) - Top.save
  BY <1>1, <1>2 DEF Depth
<1>4. Top.pc = "run" => ObjectsOK(Top, Len(explicit_subtransactions), xact, objs)
  BY <1>1, SMTT(30) DEF FrameOK
<1> QED BY <1>1, <1>2, <1>3, <1>4

\* A statement begins.
LEMMA SqlBeginsKeeps ==
    ASSUME IInv, SqlBegins
    PROVE  IInv'
<1> DEFINE n == Len(stack)
           m == Len(explicit_subtransactions)
           e == [kind |-> "spi", call |-> Top.id, undo |-> effect]
<1>1. /\ stack # <<>> /\ Top.pc = "run"
      /\ stack' = [stack EXCEPT ![Len(stack)] = Moved(Top, "sql", owner)]
      /\ xact' = Append(xact, e) /\ owner' = Len(xact')
      /\ UNCHANGED <<calls, explicit_subtransactions, effect, objs>>
  BY DEF SqlBegins, At, Begin
<1>2. /\ Top \in Frames /\ xact \in Xacts /\ explicit_subtransactions \in Lists /\ objs \in Objs
      /\ m \in Nat /\ effect \in Nat /\ owner = Len(xact) /\ Len(xact) \in Nat
      /\ FrameOK(Top, m, xact, explicit_subtransactions, objs)
  BY <1>1, TopFacts
<1>3. /\ Len(xact) = Top.base + m - Top.save /\ Top.base \in Nat /\ Top.save \in Nat
      /\ Top.base <= Len(xact) /\ ObjectsOK(Top, m, xact, objs)
  BY <1>1, RunFacts
<1>4. /\ stack' \in Stacks /\ Len(stack') = n /\ SameFrames(stack, stack', n)
      /\ stack'[n] \in Frames /\ SameCall(Top, stack'[n]) /\ stack'[n].pc = "sql"
      /\ stack'[n].oldowner = owner
  <2>1. "sql" \in PCs /\ owner \in Nat
    BY <1>2 DEF PCs
  <2> QED BY <1>1, <2>1, GotoFacts, Zenon
<1>5. e \in Levels /\ e.kind = "spi" /\ e.call = Top.id
  <2>1. Top.id \in 0 .. MaxCalls
    BY <1>2, FrameTypes, SubxAssumption, SMTT(30)
  <2> QED BY <1>2, <2>1 DEF Levels
<1> HIDE DEF n, m, e
<1>6. /\ xact' \in Xacts /\ Len(xact') = Len(xact) + 1 /\ xact'[Len(xact) + 1] = e
      /\ SameStack(xact, xact', Len(xact)) /\ SameStack(xact, xact', Top.base)
  BY <1>1, <1>2, <1>3, <1>5, AppendFacts, SMTT(30) DEF Xacts
<1>7. stack'[n].save = Top.save /\ stack'[n].base = Top.base /\ stack'[n].id = Top.id
  BY <1>4, SMTT(30) DEF SameCall
<1>8. ObjectsOK(stack'[n], m, xact', objs)
  <2>1. Top.save <= m
    BY <1>2 DEF FrameOK
  <2>2. SameStack(xact, xact', Top.base + m - Top.save)
    BY <1>3, <1>6
  <2> QED BY <1>2, <1>3, <1>4, <1>6, <2>1, <2>2, ObjectsKept, SMTT(30)
<1>9. Depth(stack'[n], m) = Len(xact')
  <2>1. Inner(stack'[n]) = 1
    BY <1>4, SMTT(30) DEF Inner
  <2> QED BY <1>2, <1>3, <1>6, <1>7, <2>1 DEF Depth
<1>10. FrameOK(stack'[n], m, xact', explicit_subtransactions, objs)
  <2>1. /\ xact'[Depth(stack'[n], m)].kind = "spi"
        /\ xact'[Depth(stack'[n], m)].call = stack'[n].id
        /\ stack'[n].oldowner = Depth(stack'[n], m) - 1
    BY <1>2, <1>4, <1>5, <1>6, <1>7, <1>9
  <2>2. Depth(stack'[n], m) <= Len(xact')
    BY <1>2, <1>6, <1>9
  <2>3. BlockOK(stack'[n], xact')
    BY <1>2, <1>4, <1>6, BlockKept DEF FrameOK
  <2> QED BY <1>2, <1>7, <1>8, <2>1, <2>2, <2>3, SMTT(30) DEF FrameOK
<1> QED BY <1>1, <1>2, <1>4, <1>6, <1>9, <1>10, NothingElse, TopStep DEF n, m

\* No object of another call is open in this one, and the reverse.
LEMMA OwnObject ==
    ASSUME NEW ob \in Objs, NEW oc, NEW id \in Nat, NEW c \in Nat, id <= c,
           NEW o \in Objects, NEW st \in ObjectStates, oc = [ob EXCEPT ![o] = st],
           ob[o].state # "started" \/ ob[o].run = id,
           st.state # "started" \/ st.run = id, st.run <= c,
           \A p \in Objects : ob[p].run <= c
    PROVE  oc \in Objs /\ SameObjects(ob, oc, id) /\ \A p \in Objects : oc[p].run <= c
<1>1. oc \in Objs /\ oc[o] = st /\ \A p \in Objects : p # o => oc[p] = ob[p]
  BY DEF Objs
<1>2. \A j \in Nat : j < id => o \notin OpenIn(ob, j) /\ o \notin OpenIn(oc, j)
  BY <1>1 DEF OpenIn
<1> QED BY <1>1, <1>2, Zenon DEF SameObjects

\* Entering a subtransaction fails.
LEMMA EnterFailsKeeps ==
    ASSUME IInv, NEW o \in Objects, EnterFails(o)
    PROVE  IInv'
<1> DEFINE st == [state |-> "started", run |-> Top.id, level |-> Len(xact) + 1, undo |-> effect]
<1>1. /\ stack # <<>> /\ Top.pc = "run" /\ Goto("error") /\ objs[o].state = "unused"
      /\ objs' = [objs EXCEPT ![o] = st]
      /\ UNCHANGED <<calls, xact, owner, explicit_subtransactions, effect>>
  BY DEF EnterFails, At, Started
<1>2. /\ Top \in Frames /\ xact \in Xacts /\ objs \in Objs /\ effect \in Nat /\ calls \in Nat
      /\ owner = Len(xact) /\ Top.id <= calls /\ Len(xact) \in Nat
  BY <1>1, TopFacts
<1>3. /\ Len(xact) = Top.base + Len(explicit_subtransactions) - Top.save /\ Top.id \in Nat
  BY <1>1, RunFacts
<1>4. st \in ObjectStates /\ st.run = Top.id
  <2>1. Top.id \in 0 .. MaxCalls
    BY <1>2, FrameTypes, SubxAssumption
  <2> QED BY <1>2, <2>1 DEF ObjectStates
<1> HIDE DEF st
<1>5. \A p \in Objects : objs[p].run <= calls
  BY NothingElse
<1>6. objs' \in Objs /\ SameObjects(objs, objs', Top.id) /\ \A p \in Objects : objs'[p].run <= calls
  BY <1>1, <1>2, <1>3, <1>4, <1>5, OwnObject, ZenonT(30)
<1> QED BY <1>1, <1>2, <1>3, <1>6, NothingElse, ToError

\* Exiting a subtransaction fails.
LEMMA ExitFailsKeeps ==
    ASSUME Habits = {}, IInv, NEW o \in Objects, ExitFails(o), WellNested(o)
    PROVE  IInv'
<1> DEFINE st == Idle("exited")
<1>1. /\ stack # <<>> /\ Top.pc = "run" /\ Goto("error")
      /\ objs' = [objs EXCEPT ![o] = st]
      /\ UNCHANGED <<calls, xact, owner, explicit_subtransactions, effect>>
  BY DEF ExitFails, At
<1>2. /\ Top \in Frames /\ xact \in Xacts /\ objs \in Objs /\ effect \in Nat /\ calls \in Nat
      /\ owner = Len(xact) /\ Top.id <= calls
  BY <1>1, TopFacts
<1>3. /\ Len(xact) = Top.base + Len(explicit_subtransactions) - Top.save /\ Top.id \in Nat
  BY <1>1, RunFacts
<1>4. st \in ObjectStates /\ st.state # "started" /\ st.run <= calls
  <2>1. st.run = 0 /\ st.state = "exited"
    BY DEF Idle
  <2>2. st \in ObjectStates
    BY SubxAssumption DEF ObjectStates, Idle
  <2> QED BY <1>2, <2>1, <2>2
<1>5. objs[o].run = Top.id
  BY DEF WellNested, OpenObjects
<1> HIDE DEF st
<1>6. \A p \in Objects : objs[p].run <= calls
  BY NothingElse
<1>7. objs' \in Objs /\ SameObjects(objs, objs', Top.id) /\ \A p \in Objects : objs'[p].run <= calls
  BY <1>1, <1>2, <1>3, <1>4, <1>5, <1>6, OwnObject, ZenonT(30)
<1> QED BY <1>1, <1>2, <1>3, <1>7, NothingElse, ToError

\* A statement changes something.
LEMMA SqlWritesKeeps ==
    ASSUME IInv, SqlWrites
    PROVE  IInv'
<1>1. effect \in Nat /\ TypeOK
  BY DEF IInv, TypeOK
<1>2. effect' \in Nat /\ UNCHANGED <<stack, calls, xact, owner, explicit_subtransactions, objs>>
  BY <1>1 DEF SqlWrites
<1>3. TypeOK'
  BY <1>1, <1>2 DEF TypeOK
<1> QED BY <1>2, <1>3 DEF IInv

-----------------------------------------------------------------------------
(* Entering and exiting *)

\* A call that enters a subtransaction owns one more level, entry and object.
LEMMA EnteredObjects ==
    ASSUME NEW f \in Frames, NEW u \in Nat, f.save <= u,
           NEW x \in Xacts, NEW y \in Xacts, NEW ob \in Objs, NEW oc \in Objs,
           ObjectsOK(f, u, x, ob), SameStack(x, y, f.base + u - f.save),
           NEW o \in Objects, o \notin OpenIn(ob, f.id),
           oc[o].state = "started", oc[o].run = f.id,
           oc[o].level = f.base + u - f.save + 1,
           oc[o].undo = y[f.base + u - f.save + 1].undo,
           \A p \in Objects : p # o => oc[p] = ob[p]
    PROVE  ObjectsOK(f, u + 1, y, oc)
<1>1. /\ f.save \in Nat /\ f.base \in Nat
  BY FrameTypes
<1>2. /\ o \in OpenIn(oc, f.id)
      /\ \A p \in OpenIn(ob, f.id) : p # o /\ p \in OpenIn(oc, f.id) /\ oc[p] = ob[p]
      /\ \A p \in OpenIn(oc, f.id) : p = o \/ (p \in OpenIn(ob, f.id) /\ oc[p] = ob[p])
  BY DEF OpenIn
<1>3. ASSUME NEW p \in OpenIn(ob, f.id)
      PROVE  /\ f.base + 1 <= ob[p].level /\ ob[p].level <= f.base + u - f.save
             /\ y[ob[p].level].undo = ob[p].undo /\ ob[p].level \in Nat
  <2>1. /\ f.base + 1 <= ob[p].level /\ ob[p].level <= f.base + u - f.save
        /\ x[ob[p].level].undo = ob[p].undo
    BY DEF ObjectsOK
  <2>2. ob[p].level \in Nat
    BY DEF Objs, ObjectStates, OpenIn
  <2>3. 1 <= ob[p].level
    BY <1>1, <2>1, <2>2
  <2>4. y[ob[p].level] = x[ob[p].level]
    BY <2>1, <2>2, <2>3, SMTT(30) DEF SameStack
  <2> QED BY <2>1, <2>2, <2>4
<1>4. ASSUME NEW p \in OpenIn(oc, f.id)
      PROVE  /\ f.base + 1 <= oc[p].level /\ oc[p].level <= f.base + (u + 1) - f.save
             /\ y[oc[p].level].undo = oc[p].undo
  <2>1. CASE p = o
    BY <1>1, <2>1
  <2>2. CASE p \in OpenIn(ob, f.id) /\ oc[p] = ob[p]
    BY <1>1, <1>3, <2>2
  <2> QED BY <1>2, <2>1, <2>2
<1>5. ASSUME NEW p \in OpenIn(oc, f.id), NEW q \in OpenIn(oc, f.id), oc[p].level = oc[q].level
      PROVE  p = q
  <2>1. \A r \in OpenIn(ob, f.id) : oc[r].level # oc[o].level
    BY <1>1, <1>2, <1>3
  <2>2. CASE p = o \/ q = o
    BY <1>2, <1>5, <2>1, <2>2
  <2>3. CASE p # o /\ q # o
    BY <1>2, <1>5, <2>3, SMTT(30) DEF ObjectsOK
  <2> QED BY <2>2, <2>3, SMTT(30)
<1>6. ASSUME NEW i \in Nat, f.base + 1 <= i, i <= f.base + (u + 1) - f.save
      PROVE  \E p \in OpenIn(oc, f.id) : oc[p].level = i
  <2>1. CASE i = f.base + u - f.save + 1
    BY <1>2, <2>1, SMTT(30)
  <2>2. CASE i <= f.base + u - f.save
    <3>1. PICK p \in OpenIn(ob, f.id) : ob[p].level = i
      BY <1>6, <2>2, SMTT(30) DEF ObjectsOK
    <3> QED BY <1>2, <3>1
  <2> QED BY <1>1, <1>6, <2>1, <2>2, SMTT(30)
<1> QED BY <1>4, <1>5, <1>6 DEF ObjectsOK

\* A call that exits its innermost subtransaction owns one less of each.
LEMMA ExitedObjects ==
    ASSUME NEW f \in Frames, NEW u \in Nat, f.save + 1 <= u,
           NEW x \in Xacts, NEW y \in Xacts, NEW ob \in Objs, NEW oc \in Objs,
           ObjectsOK(f, u, x, ob), SameStack(x, y, f.base + u - f.save - 1),
           NEW o \in OpenIn(ob, f.id), ob[o].level = f.base + u - f.save,
           oc[o].state # "started",
           \A p \in Objects : p # o => oc[p] = ob[p]
    PROVE  ObjectsOK(f, u - 1, y, oc)
<1>1. /\ f.save \in Nat /\ f.base \in Nat
  BY FrameTypes, SMTT(30)
<1>2. /\ \A p \in OpenIn(ob, f.id) : p # o => p \in OpenIn(oc, f.id) /\ oc[p] = ob[p]
      /\ \A p \in OpenIn(oc, f.id) : p # o /\ p \in OpenIn(ob, f.id) /\ oc[p] = ob[p]
  BY SMTT(30) DEF OpenIn
<1>3. ASSUME NEW p \in OpenIn(oc, f.id)
      PROVE  /\ f.base + 1 <= oc[p].level /\ oc[p].level <= f.base + (u - 1) - f.save
             /\ y[oc[p].level].undo = oc[p].undo
  <2>1. /\ f.base + 1 <= ob[p].level /\ ob[p].level <= f.base + u - f.save
        /\ x[ob[p].level].undo = ob[p].undo /\ ob[p].level # ob[o].level
    BY <1>2 DEF ObjectsOK
  <2>2. ob[p].level \in Nat
    BY DEF Objs, ObjectStates, OpenIn
  <2>3. 1 <= ob[p].level /\ ob[p].level <= f.base + u - f.save - 1
    BY <1>1, <2>1, <2>2
  <2>4. y[ob[p].level] = x[ob[p].level]
    BY <2>2, <2>3 DEF SameStack
  <2>5. oc[p] = ob[p]
    BY <1>2
  <2> QED BY <1>1, <2>1, <2>2, <2>3, <2>4, <2>5, SMTT(30)
<1>4. \A p, q \in OpenIn(oc, f.id) : oc[p].level = oc[q].level => p = q
  BY <1>2, SMTT(30) DEF ObjectsOK
<1>5. ASSUME NEW i \in Nat, f.base + 1 <= i, i <= f.base + (u - 1) - f.save
      PROVE  \E p \in OpenIn(oc, f.id) : oc[p].level = i
  <2>1. i <= f.base + u - f.save /\ i # f.base + u - f.save
    BY <1>1, <1>5
  <2>2. PICK p \in OpenIn(ob, f.id) : ob[p].level = i
    BY <1>5, <2>1, SMTT(30) DEF ObjectsOK
  <2> QED BY <1>2, <2>1, <2>2
<1> QED BY <1>3, <1>4, <1>5, SMTT(30) DEF ObjectsOK

\* The frame of a running function, with its entries and its objects in order.
LEMMA RunningFrame ==
    ASSUME NEW f \in Frames, f.pc = "run", NEW u \in Nat, NEW x, NEW l, NEW ob,
           f.save <= u, u <= Len(l), f.base + u - f.save <= Len(x),
           \A p \in Nat : f.save + 1 <= p /\ p <= u => Entry(l, p) = f.base + (p - f.save) - 1,
           ObjectsOK(f, u, x, ob), BlockOK(f, x)
    PROVE  FrameOK(f, u, x, l, ob) /\ Depth(f, u) = f.base + u - f.save
<1>1. f.save \in Nat /\ f.base \in Nat
  BY FrameTypes
<1>2. Depth(f, u) = f.base + u - f.save
  BY <1>1 DEF Depth, Inner
<1> QED BY <1>2 DEF FrameOK

\* A function enters a subtransaction.
LEMMA EnterKeeps ==
    ASSUME IInv, NEW o \in Objects, Enter(o)
    PROVE  IInv'
<1> DEFINE n == Len(stack)
           m == Len(explicit_subtransactions)
           e == [kind |-> "explicit", call |-> Top.id, undo |-> effect]
           st == [state |-> "started", run |-> Top.id, level |-> Len(xact) + 1, undo |-> effect]
<1>1. /\ stack # <<>> /\ Top.pc = "run" /\ objs[o].state = "unused"
      /\ objs' = [objs EXCEPT ![o] = st]
      /\ xact' = Append(xact, e) /\ owner' = Len(xact')
      /\ explicit_subtransactions' = <<owner>> \o explicit_subtransactions
      /\ UNCHANGED <<stack, calls, effect>>
  BY DEF Enter, At, Begin, Started
<1>2. /\ Top \in Frames /\ xact \in Xacts /\ explicit_subtransactions \in Lists /\ objs \in Objs
      /\ m \in Nat /\ effect \in Nat /\ owner = Len(xact) /\ Len(xact) \in Nat
      /\ stack \in Stacks /\ Top = stack[n] /\ calls \in Nat /\ Top.id <= calls
      /\ Top.save <= m
      /\ FrameOK(Top, m, xact, explicit_subtransactions, objs)
  BY <1>1, TopFacts
<1>3. /\ Len(xact) = Top.base + m - Top.save /\ Top.base \in Nat /\ Top.save \in Nat
      /\ Top.base <= Len(xact) /\ ObjectsOK(Top, m, xact, objs) /\ Top.id \in Nat
  BY <1>1, RunFacts
<1>4. /\ e \in Levels /\ e.undo = effect
      /\ st \in ObjectStates /\ st.run = Top.id /\ st.state = "started"
      /\ st.level = Len(xact) + 1 /\ st.undo = effect
  <2>1. Top.id \in 0 .. MaxCalls
    BY <1>2, FrameTypes, SubxAssumption, SMTT(30)
  <2> QED BY <1>2, <2>1 DEF Levels, ObjectStates
<1>0. /\ Len(xact) = Top.base + m - Top.save /\ Top.base \in Nat /\ Top.save \in Nat
      /\ Top.save <= m /\ m \in Nat /\ Len(xact) \in Nat /\ owner = Len(xact)
  BY <1>2, <1>3
<1> HIDE DEF n, m, e, st
<1>5. /\ xact' \in Xacts /\ Len(xact') = Len(xact) + 1 /\ xact'[Len(xact) + 1] = e
      /\ SameStack(xact, xact', Len(xact)) /\ SameStack(xact, xact', Top.base)
  <2>1. /\ xact \in Seq(Levels) /\ e \in Levels /\ xact' = Append(xact, e)
        /\ Top.base \in Nat /\ Len(xact) \in Nat /\ Top.base <= Len(xact)
    BY <1>1, <1>2, <1>3, <1>4, SMTT(30) DEF Xacts
  <2> QED BY <2>1, AppendFacts, SMTT(30) DEF Xacts
<1>6. /\ explicit_subtransactions' \in Lists /\ Len(explicit_subtransactions') = m + 1
      /\ Entry(explicit_subtransactions', m + 1) = owner
      /\ \A b \in Nat : b <= m => SameList(explicit_subtransactions, explicit_subtransactions', b)
  BY <1>1, <1>2, ConsFacts DEF m
<1>7. \A p \in Objects : objs[p].run <= calls
  BY NothingElse
<1>8. /\ objs' \in Objs /\ SameObjects(objs, objs', Top.id)
      /\ \A p \in Objects : objs'[p].run <= calls
  <2>1. /\ objs \in Objs /\ Top.id \in Nat /\ calls \in Nat /\ Top.id <= calls
        /\ st \in ObjectStates /\ objs' = [objs EXCEPT ![o] = st]
        /\ objs[o].state # "started" /\ st.run = Top.id
    BY <1>1, <1>2, <1>3, <1>4, SMTT(30)
  <2> QED BY <1>7, <2>1, OwnObject, ZenonT(30)
<1>9. ObjectsOK(Top, m + 1, xact', objs')
  <2>1. objs'[o] = st /\ \A p \in Objects : p # o => objs'[p] = objs[p]
    BY <1>1, <1>2, SMTT(30) DEF Objs
  <2>2. o \notin OpenIn(objs, Top.id)
    BY <1>1 DEF OpenIn
  <2>3. /\ objs'[o].level = Top.base + m - Top.save + 1
        /\ objs'[o].undo = xact'[Top.base + m - Top.save + 1].undo
    BY <1>3, <1>4, <1>5, <2>1, Zenon
  <2>4. SameStack(xact, xact', Top.base + m - Top.save)
    BY <1>3, <1>5
  <2> QED BY <1>2, <1>3, <1>4, <1>5, <1>8, <2>1, <2>2, <2>3, <2>4, EnteredObjects, ZenonT(30)
<1>10. ASSUME NEW p \in Nat, Top.save + 1 <= p, p <= m + 1
       PROVE  Entry(explicit_subtransactions', p) = Top.base + (p - Top.save) - 1
  <2>1. CASE p = m + 1
    BY <1>0, <1>6, <2>1, SMTT(30)
  <2>2. CASE p <= m
    <3>1. Entry(explicit_subtransactions, p) = Top.base + (p - Top.save) - 1
      BY <1>2, <1>10, <2>2, SMTT(30) DEF FrameOK
    <3>2. Entry(explicit_subtransactions', p) = Entry(explicit_subtransactions, p)
      <4>1. 1 <= p
        BY <1>3, <1>10
      <4> QED BY <1>2, <1>6, <2>2, <4>1 DEF SameList
    <3> QED BY <3>1, <3>2
  <2> QED BY <1>2, <1>10, <2>1, <2>2
<1>11. /\ FrameOK(Top, m + 1, xact', explicit_subtransactions', objs')
       /\ Depth(Top, m + 1) = Len(xact')
  <2>1. /\ m + 1 \in Nat /\ Top.save <= m + 1 /\ m + 1 <= Len(explicit_subtransactions')
        /\ Top.base + (m + 1) - Top.save = Len(xact')
        /\ Top.base + (m + 1) - Top.save <= Len(xact')
    <3>1. Len(xact') = Len(xact) + 1 /\ Len(explicit_subtransactions') = m + 1
      BY <1>5, <1>6
    <3>2. /\ m + 1 \in Nat /\ Top.save <= m + 1
          /\ Top.base + (m + 1) - Top.save = Len(xact) + 1 /\ Len(xact) + 1 \in Nat
      BY <1>0, SMTT(30)
    <3> QED BY <3>1, <3>2
  <2>2. Top \in Frames /\ Top.pc = "run"
    BY <1>1, <1>2
  <2>3. BlockOK(Top, xact')
    <3>1. SameCall(Top, Top)
      BY DEF SameCall
    <3> QED BY <1>2, <1>5, <3>1, BlockKept DEF FrameOK
  <2> QED BY <1>9, <1>10, <2>1, <2>2, <2>3, RunningFrame, ZenonT(30)
<1>12. SameFrames(stack, stack', n) /\ SameCall(Top, Top) /\ stack' = stack /\ effect' = effect
  BY <1>1, SMTT(30) DEF SameFrames, SameCall
<1>13. SameList(explicit_subtransactions, explicit_subtransactions', Top.save)
  BY <1>2, <1>3, <1>6, SMTT(30)
<1> QED BY <1>1, <1>2, <1>5, <1>6, <1>8, <1>11, <1>12, <1>13, TopStep, ZenonT(30) DEF n, m

\* What a function that exits what it entered, innermost first, exits.
LEMMA ExitFacts ==
    ASSUME Habits = {}, IInv, NEW o \in Objects, stack # <<>>, Top.pc = "run", WellNested(o)
    PROVE  /\ o \in OpenIn(objs, Top.id)
           /\ Top.save + 1 <= Len(explicit_subtransactions)
           /\ objs[o].level = Len(xact) /\ Len(xact) >= 1
           /\ xact[Len(xact)].undo = objs[o].undo
<1> DEFINE m == Len(explicit_subtransactions)
<1>1. m \in Nat /\ Len(xact) \in Nat /\ objs \in Objs
  BY TopFacts
<1>2. /\ Len(xact) = Top.base + m - Top.save /\ Top.base \in Nat /\ Top.save \in Nat
      /\ ObjectsOK(Top, m, xact, objs)
  BY RunFacts
<1> HIDE DEF m
<1>3. /\ o \in OpenIn(objs, Top.id)
      /\ \A p \in OpenIn(objs, Top.id) : objs[p].level <= objs[o].level
  BY DEF WellNested, OpenObjects, OpenIn
<1>4. /\ Top.base + 1 <= objs[o].level /\ objs[o].level <= Top.base + m - Top.save
      /\ xact[objs[o].level].undo = objs[o].undo
  BY <1>2, <1>3 DEF ObjectsOK
<1>5. objs[o].level \in Nat
  BY <1>1 DEF Objs, ObjectStates
<1>6. Top.base + 1 <= Len(xact)
  BY <1>1, <1>2, <1>4, <1>5, SMTT(30)
<1>7. PICK p \in OpenIn(objs, Top.id) : objs[p].level = Len(xact)
  BY <1>1, <1>2, <1>6, SMTT(30) DEF ObjectsOK
<1>8. objs[o].level = Len(xact)
  BY <1>1, <1>2, <1>3, <1>4, <1>5, <1>7
<1> QED BY <1>1, <1>2, <1>3, <1>4, <1>6, <1>8 DEF m

\* A function exits a subtransaction.
LEMMA ExitKeeps ==
    ASSUME Habits = {}, IInv, NEW o \in Objects, NEW how, Exit(o, how), WellNested(o)
    PROVE  IInv'
<1> DEFINE n == Len(stack)
           m == Len(explicit_subtransactions)
           st == Idle("exited")
<1>1. /\ stack # <<>> /\ Top.pc = "run" /\ explicit_subtransactions # <<>>
      /\ objs' = [objs EXCEPT ![o] = st]
      /\ xact' = SubSeq(xact, 1, Len(xact) - 1)
      /\ effect' = (IF how = "n" THEN TopOf(xact).undo ELSE effect)
      /\ owner' = Head(explicit_subtransactions)
      /\ explicit_subtransactions' = Tail(explicit_subtransactions)
      /\ UNCHANGED <<stack, calls>>
  BY SMTT(30) DEF Exit, At, Pop
<1>2. /\ Top \in Frames /\ xact \in Xacts /\ explicit_subtransactions \in Lists /\ objs \in Objs
      /\ m \in Nat /\ effect \in Nat /\ owner = Len(xact) /\ Len(xact) \in Nat
      /\ stack \in Stacks /\ Top = stack[n] /\ calls \in Nat /\ Top.id <= calls
      /\ FrameOK(Top, m, xact, explicit_subtransactions, objs)
  BY <1>1, TopFacts
<1>3. /\ Len(xact) = Top.base + m - Top.save /\ Top.base \in Nat /\ Top.save \in Nat
      /\ ObjectsOK(Top, m, xact, objs) /\ Top.id \in Nat
  BY <1>1, RunFacts
<1>4. /\ o \in OpenIn(objs, Top.id) /\ Top.save + 1 <= m
      /\ objs[o].level = Len(xact) /\ Len(xact) >= 1
  BY <1>1, ExitFacts
<1>5. st \in ObjectStates /\ st.state # "started" /\ st.run <= calls
  <2>1. st.run = 0 /\ st.state = "exited"
    BY DEF Idle
  <2>2. st \in ObjectStates
    BY SubxAssumption DEF ObjectStates, Idle
  <2> QED BY <1>2, <2>1, <2>2
<1>6. effect' \in Nat
  <2>1. Len(xact) \in 1 .. Len(xact)
    BY <1>2, <1>4
  <2>2. TopOf(xact).undo \in Nat
    BY <1>2, <2>1, LevelFacts, SMTT(30) DEF TopOf
  <2> QED BY <1>1, <1>2, <2>2, SMTT(30)
<1>0. /\ Len(xact) = Top.base + m - Top.save /\ Top.base \in Nat /\ Top.save \in Nat
      /\ Top.save + 1 <= m /\ Len(xact) >= 1 /\ m \in Nat /\ Len(xact) \in Nat /\ owner = Len(xact)
  BY <1>2, <1>3, <1>4
<1> HIDE DEF n, m, st
<1>7. /\ xact' \in Xacts /\ Len(xact') = Len(xact) - 1
      /\ SameStack(xact, xact', Len(xact) - 1) /\ SameStack(xact, xact', Top.base)
  <2>1. Len(xact) - 1 \in Nat /\ Len(xact) - 1 <= Len(xact) /\ Top.base <= Len(xact) - 1
    BY <1>0, SMTT(30)
  <2> DEFINE j == Len(xact) - 1
  <2>2. /\ j \in Nat /\ j <= Len(xact) /\ Top.base <= j /\ j = Len(xact) - 1
        /\ xact' = SubSeq(xact, 1, j) /\ xact \in Seq(Levels) /\ Top.base \in Nat
    BY <1>1, <1>2, <1>3, <2>1 DEF Xacts
  <2> HIDE DEF j
  <2> QED BY <2>2, PrefixFacts DEF Xacts
<1>8. /\ explicit_subtransactions' \in Lists /\ Len(explicit_subtransactions') = m - 1
      /\ owner' = Entry(explicit_subtransactions, m)
      /\ \A b \in Nat : b <= m - 1 =>
            SameList(explicit_subtransactions, explicit_subtransactions', b)
  BY <1>1, <1>2, TailFacts, Zenon DEF m
<1>9. owner' = Len(xact')
  <2>1. Entry(explicit_subtransactions, m) = Top.base + (m - Top.save) - 1
    <3>1. \A p \in Nat : Top.save + 1 <= p /\ p <= m =>
             Entry(explicit_subtransactions, p) = Top.base + (p - Top.save) - 1
      BY <1>2, Zenon DEF FrameOK
    <3> QED BY <1>0, <3>1
  <2>2. Len(xact') = Len(xact) - 1 /\ owner' = Entry(explicit_subtransactions, m)
    BY <1>7, <1>8
  <2> QED BY <1>0, <2>1, <2>2
<1>10. \A p \in Objects : objs[p].run <= calls
  BY NothingElse, ZenonT(30)
<1>11. /\ objs' \in Objs /\ SameObjects(objs, objs', Top.id)
       /\ \A p \in Objects : objs'[p].run <= calls
  <2>1. objs[o].run = Top.id
    BY <1>4 DEF OpenIn
  <2> QED BY <1>1, <1>2, <1>3, <1>5, <1>10, <2>1, OwnObject, ZenonT(30)
<1>12. ObjectsOK(Top, m - 1, xact', objs')
  <2>1. objs'[o] = st /\ \A p \in Objects : p # o => objs'[p] = objs[p]
    BY <1>1, <1>2, ZenonT(30) DEF Objs
  <2>2. objs[o].level = Top.base + m - Top.save
    BY <1>3, <1>4
  <2>3. SameStack(xact, xact', Top.base + m - Top.save - 1)
    <3>1. Top.base + m - Top.save - 1 = Len(xact) - 1
      BY <1>0, SMTT(30)
    <3> QED BY <1>7, <3>1
  <2> QED BY <1>2, <1>3, <1>4, <1>5, <1>7, <1>11, <2>1, <2>2, <2>3, ExitedObjects, ZenonT(30)
<1>13. ASSUME NEW p \in Nat, Top.save + 1 <= p, p <= m - 1
       PROVE  Entry(explicit_subtransactions', p) = Top.base + (p - Top.save) - 1
  <2>1. m - 1 \in Nat /\ 1 <= p /\ p <= m
    BY <1>2, <1>3, <1>4, <1>13
  <2>2. Entry(explicit_subtransactions, p) = Top.base + (p - Top.save) - 1
    BY <1>2, <1>13, <2>1 DEF FrameOK
  <2>3. Entry(explicit_subtransactions', p) = Entry(explicit_subtransactions, p)
    BY <1>2, <1>8, <1>13, <2>1 DEF SameList
  <2> QED BY <2>2, <2>3, SMTT(30)
<1>14. /\ FrameOK(Top, m - 1, xact', explicit_subtransactions', objs')
       /\ Depth(Top, m - 1) = Len(xact')
  <2>1. /\ m - 1 \in Nat /\ Top.save <= m - 1 /\ m - 1 <= Len(explicit_subtransactions')
        /\ Top.base + (m - 1) - Top.save = Len(xact')
        /\ Top.base + (m - 1) - Top.save <= Len(xact')
    <3>1. Len(xact') = Len(xact) - 1 /\ Len(explicit_subtransactions') = m - 1
      BY <1>7, <1>8
    <3> QED BY <1>0, <3>1, SMTT(30)
  <2>2. Top \in Frames /\ Top.pc = "run"
    BY <1>1, <1>2
  <2>3. BlockOK(Top, xact')
    <3>1. SameCall(Top, Top)
      BY DEF SameCall
    <3> QED BY <1>2, <1>7, <3>1, BlockKept DEF FrameOK
  <2> QED BY <1>12, <1>13, <2>1, <2>2, <2>3, RunningFrame
<1>15. SameFrames(stack, stack', n) /\ SameCall(Top, Top) /\ stack' = stack
  BY <1>1 DEF SameFrames, SameCall
<1>16. SameList(explicit_subtransactions, explicit_subtransactions', Top.save)
  <2>1. Top.save <= m - 1
    BY <1>2, <1>3, <1>4
  <2> QED BY <1>3, <1>8, <2>1
<1> QED BY <1>1, <1>2, <1>6, <1>7, <1>8, <1>9, <1>11, <1>14, <1>15, <1>16, TopStep, ZenonT(30) DEF n, m
=============================================================================
