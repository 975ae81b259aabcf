------------------------ MODULE SubtransactionsProofs ------------------------
(***************************************************************************)
(* Proof that the server's stack of subtransactions and the list of        *)
(* explicit ones agree, for any number of calls, objects and statements,   *)
(* when functions exit what they entered, innermost first (Habits = {}).   *)
(* That is an assumption about functions: neither the client nor the QE    *)
(* enforces it.                                                            *)
(***************************************************************************)
EXTENDS SubtransactionsSteps

-----------------------------------------------------------------------------
(* Calls *)

\* A call that begins owns nothing: no level, no entry and no object.
LEMMA NewFrame ==
    ASSUME NEW g \in Frames, NEW y \in Xacts, NEW l \in Lists, NEW ob \in Objs,
           g.pc = "run", g.save = Len(l), g.base = Len(y),
           \A o \in Objects : ob[o].run < g.id, BlockOK(g, y)
    PROVE  FrameOK(g, Len(l), y, l, ob) /\ Depth(g, Len(l)) = Len(y)
<1>1. Len(l) \in Nat /\ Len(y) \in Nat /\ g.id \in Nat
  BY LenProperties, FrameTypes DEF Lists, Xacts
<1>2. OpenIn(ob, g.id) = {}
  <2> SUFFICES ASSUME NEW o \in OpenIn(ob, g.id) PROVE FALSE
    OBVIOUS
  <2>1. o \in Objects /\ ob[o].run = g.id
    BY DEF OpenIn
  <2>2. ob[o].run < g.id
    BY <2>1
  <2> QED BY <1>1, <2>1, <2>2
<1>3. ObjectsOK(g, Len(l), y, ob)
  BY <1>1, <1>2 DEF ObjectsOK
<1>4. /\ g.base + Len(l) - g.save = Len(y) /\ g.base + Len(l) - g.save <= Len(y)
      /\ g.save <= Len(l) /\ Len(l) <= Len(l)
      /\ \A p \in Nat : g.save + 1 <= p /\ p <= Len(l) =>
            Entry(l, p) = g.base + (p - g.save) - 1
  BY <1>1
<1> QED BY <1>1, <1>3, <1>4, RunningFrame, Zenon

\* A call is made in a statement of the top frame.
Pushes(s, x, l, ob, y, g, t) ==
    /\ s \in Stacks /\ s # <<>> /\ x \in Xacts /\ l \in Lists /\ ob \in Objs
    /\ Nested(s, Len(l)) /\ FramesOK(s, x, l, ob)
    /\ Len(x) = Depth(s[Len(s)], Len(l)) /\ s[Len(s)].pc = "sql"
    /\ y \in Xacts /\ SameStack(x, y, Len(x))
    /\ g \in Frames /\ g.pc = "run" /\ g.save = Len(l) /\ g.base = Len(y)
    /\ Len(y) = Len(x) + Block(g)
    /\ \A i \in 1 .. Len(s) : s[i].id < g.id
    /\ \A o \in Objects : ob[o].run < g.id
    /\ BlockOK(g, y)
    /\ t = Append(s, g)

\* The frames of such a call and of those around it are in order.
LEMMA PushFrames ==
    ASSUME NEW s, NEW x, NEW l, NEW ob, NEW y, NEW g, NEW t, Pushes(s, x, l, ob, y, g, t)
    PROVE  /\ Nested(t, Len(l)) /\ FramesOK(t, y, l, ob)
           /\ Len(t) = Len(s) + 1 /\ Len(y) = Depth(t[Len(t)], Len(l))
<1>a. /\ s \in Stacks /\ s # <<>> /\ x \in Xacts /\ l \in Lists /\ ob \in Objs
      /\ y \in Xacts /\ g \in Frames /\ t = Append(s, g)
  BY DEF Pushes
<1>b. /\ g.pc = "run" /\ g.save = Len(l) /\ g.base = Len(y) /\ Len(y) = Len(x) + Block(g)
      /\ \A o \in Objects : ob[o].run < g.id
      /\ BlockOK(g, y)
  BY DEF Pushes
<1>c. Nested(s, Len(l)) /\ FramesOK(s, x, l, ob)
  BY DEF Pushes
<1> DEFINE N == Len(s)
           m == Len(l)
<1>1. /\ N \in Nat /\ N >= 1 /\ m \in Nat /\ Len(x) \in Nat /\ Len(y) \in Nat
      /\ Len(x) <= Len(y)
  <2>1. Len(s) \in Nat /\ Len(x) \in Nat /\ Len(y) \in Nat /\ Len(l) \in Nat
    BY <1>a, LenProperties DEF Stacks, Lists, Xacts
  <2>2. Len(s) # 0
    BY <1>a, EmptySeq DEF Stacks
  <2>3. Block(g) \in {0, 1}
    BY DEF Block
  <2> QED BY <1>b, <2>1, <2>2, <2>3
<1>2. /\ Len(t) = N + 1 /\ t[N + 1] = g
      /\ \A i \in 1 .. N : t[i] = s[i] /\ s[i] \in Frames
  BY <1>a, AppendProperties DEF Stacks
<1>3. FrameOK(g, m, y, l, ob) /\ Depth(g, m) = Len(y)
  BY <1>a, <1>b, NewFrame
<1> HIDE DEF N, m
<1>4. ASSUME NEW i \in 1 .. N
      PROVE  Upper(t, m, i) = Upper(s, m, i) /\ Upper(s, m, i) \in Nat
  <2>1. CASE i = N
    <3>1. i # Len(t) /\ t[i + 1] = g
      BY <1>1, <1>2, <2>1
    <3>2. Upper(s, m, i) = m
      BY <2>1 DEF Upper, N
    <3>3. Upper(t, m, i) = g.save
      BY <1>2, <3>1 DEF Upper
    <3> QED BY <1>1, <1>b, <3>2, <3>3 DEF m
  <2>2. CASE i # N
    <3>1. i + 1 \in 1 .. N /\ i # Len(t)
      BY <1>1, <1>2, <2>2
    <3>2. t[i + 1] = s[i + 1] /\ s[i + 1] \in Frames
      BY <1>2, <3>1
    <3>3. s[i + 1].save \in Nat
      BY <3>2, FrameTypes
    <3> QED BY <2>2, <3>1, <3>2, <3>3 DEF Upper, N
  <2> QED BY <2>1, <2>2
<1>5. ASSUME NEW i \in 1 .. N
      PROVE  /\ FrameOK(s[i], Upper(s, m, i), x, l, ob)
             /\ Upper(s, m, i) <= m
             /\ Depth(s[i], Upper(s, m, i)) <= Len(x)
             /\ Depth(s[i], Upper(s, m, i)) \in Nat
  <2>1. FrameOK(s[i], Upper(s, m, i), x, l, ob)
    BY <1>c DEF FramesOK, N, m
  <2>2. /\ Upper(s, m, i) <= m /\ Depth(s[i], Upper(s, m, i)) <= Len(x)
        /\ s[i].save <= Upper(s, m, i)
    BY <2>1 DEF FrameOK, m
  <2>3. Depth(s[i], Upper(s, m, i)) \in Nat
    BY <1>2, <1>4, <2>2, FrameTypes
  <2> QED BY <2>1, <2>2, <2>3
<1>6. Nested(t, m)
  <2>1. ASSUME NEW i \in 1 .. Len(t), NEW j \in 1 .. Len(t), i < j
        PROVE  /\ t[i].id < t[j].id
               /\ Depth(t[i], Upper(t, m, i)) <= t[j].base
               /\ Upper(t, m, i) <= t[j].save
    <3>1. i \in 1 .. N /\ t[i] = s[i] /\ Upper(t, m, i) = Upper(s, m, i)
      BY <1>1, <1>2, <1>4, <2>1
    <3>2. CASE j = N + 1
      <4>1. t[j] = g /\ s[i].id < g.id
        BY <1>2, <3>1, <3>2 DEF N, Pushes
      <4>2. /\ Depth(s[i], Upper(s, m, i)) <= Len(x) /\ Depth(s[i], Upper(s, m, i)) \in Nat
            /\ Upper(s, m, i) <= m
        BY <1>5, <3>1
      <4>3. g.base = Len(y) /\ g.save = m
        BY <1>b DEF m
      <4> QED BY <1>1, <3>1, <4>1, <4>2, <4>3
    <3>3. CASE j # N + 1
      <4>1. j \in 1 .. N
        BY <1>1, <1>2, <3>3
      <4>2. /\ s[i].id < s[j].id
            /\ Depth(s[i], Upper(s, m, i)) <= s[j].base
            /\ Upper(s, m, i) <= s[j].save
        BY <1>c, <2>1, <3>1, <4>1 DEF Nested, N, m
      <4> QED BY <1>2, <3>1, <4>1, <4>2
    <3> QED BY <3>2, <3>3
  <2>2. ASSUME NEW i \in 1 .. Len(t), i < Len(t)
        PROVE  /\ t[i].pc = "sql"
               /\ t[i + 1].base = Depth(t[i], t[i + 1].save)
                                    + Block(t[i + 1])
    <3>1. i \in 1 .. N /\ t[i] = s[i]
      BY <1>1, <1>2, <2>2
    <3>2. CASE i = N
      <4>1. t[i + 1] = g /\ t[i] = s[N]
        BY <1>2, <3>1, <3>2
      <4>2. s[N].pc = "sql" /\ Len(x) = Depth(s[N], m)
        BY DEF N, m, Pushes
      <4>3. g.save = m /\ g.base = Len(x) + Block(g)
        BY <1>b DEF m
      <4> QED BY <4>1, <4>2, <4>3
    <3>3. CASE i # N
      <4>1. i + 1 \in 1 .. N /\ i < N
        BY <1>1, <3>1, <3>3
      <4>2. /\ s[i].pc = "sql"
            /\ s[i + 1].base = Depth(s[i], s[i + 1].save)
                                 + Block(s[i + 1])
        BY <1>c, <3>1, <4>1 DEF Nested, N
      <4> QED BY <1>2, <3>1, <4>1, <4>2
    <3> QED BY <3>2, <3>3
  <2>3. t[1].base = 0 /\ t[1].save = 0 /\ t[1].block = "plain"
    <3>1. s[1].base = 0 /\ s[1].save = 0 /\ s[1].block = "plain"
      BY <1>1, <1>c DEF Nested, N
    <3> QED BY <1>1, <1>2, <3>1
  <2> QED BY <2>1, <2>2, <2>3 DEF Nested
<1>7. ASSUME NEW i \in 1 .. Len(t)
      PROVE  FrameOK(t[i], Upper(t, m, i), y, l, ob)
  <2>1. CASE i = N + 1
    <3>1. Upper(t, m, i) = m /\ t[i] = g
      BY <1>2, <2>1 DEF Upper
    <3> QED BY <1>3, <3>1
  <2>2. CASE i # N + 1
    <3>1. i \in 1 .. N
      BY <1>1, <1>2, <2>2
    <3>2. /\ t[i] = s[i] /\ s[i] \in Frames
          /\ Upper(t, m, i) = Upper(s, m, i) /\ Upper(s, m, i) \in Nat
      BY <1>2, <1>4, <3>1
    <3> DEFINE u == Upper(s, m, i)
    <3>3. /\ FrameOK(s[i], u, x, l, ob) /\ u \in Nat /\ u <= Len(l)
          /\ Depth(s[i], u) <= Len(x) /\ Depth(s[i], u) \in Nat
      BY <1>5, <3>1, <3>2 DEF m
    <3> HIDE DEF u
    <3>4. Depth(s[i], u) <= Len(y) /\ SameStack(x, y, Depth(s[i], u)) /\ SameList(l, l, u)
      <4>1. SameStack(x, y, Len(x))
        BY Zenon DEF Pushes
      <4>2. Depth(s[i], u) <= Len(y)
        BY <1>1, <3>3
      <4> QED BY <1>1, <3>3, <4>1, <4>2 DEF SameStack, SameList
    <3>5. FrameOK(s[i], u, y, l, ob)
      BY <1>a, <3>2, <3>3, <3>4, FrameKept
    <3> QED BY <3>2, <3>5 DEF u
  <2> QED BY <2>1, <2>2
<1> QED BY <1>2, <1>3, <1>6, <1>7 DEF FramesOK, N, m

\* SQL calls a function.
LEMMA CallKeeps ==
    ASSUME IInv, NEW block \in {"plain", "block"}, Call(block)
    PROVE  IInv'
<1> DEFINE m == Len(explicit_subtransactions)
           e == [kind |-> "block", call |-> calls + 1, undo |-> effect]
           g == [id |-> calls + 1, pc |-> "run", save |-> Len(explicit_subtransactions),
                 oldowner |-> 0, block |-> block, base |-> Len(xact')]
<1>1. /\ calls < MaxCalls
      /\ IF stack = <<>> THEN block = "plain" ELSE Top.pc = "sql"
      /\ xact' = (IF block = "block" THEN Append(xact, e) ELSE xact)
      /\ owner' = Len(xact') /\ calls' = calls + 1 /\ stack' = Append(stack, g)
      /\ UNCHANGED <<explicit_subtransactions, effect, objs>>
  BY DEF Call, Begin
<1>2. /\ stack \in Stacks /\ xact \in Xacts /\ explicit_subtransactions \in Lists
      /\ objs \in Objs /\ effect \in Nat /\ calls \in Nat /\ calls + 1 \in 0 .. MaxCalls
      /\ m \in Nat /\ Len(xact) \in Nat /\ Len(stack) \in Nat
  <2>1. /\ stack \in Stacks /\ xact \in Xacts /\ explicit_subtransactions \in Lists
        /\ objs \in Objs /\ effect \in Nat /\ calls \in Nat
    BY SubxAssumption DEF IInv, TypeOK, Stacks, Xacts, Lists, Objs
  <2>2. m \in Nat /\ Len(xact) \in Nat /\ Len(stack) \in Nat
    BY <2>1, LenProperties DEF Stacks, Xacts, Lists
  <2>3. calls + 1 \in 0 .. MaxCalls
    BY <1>1, <2>1, SubxAssumption
  <2> QED BY <2>1, <2>2, <2>3
<1>3. e \in Levels /\ e.kind = "block" /\ e.call = calls + 1
  BY <1>2 DEF Levels
<1> HIDE DEF e
<1>4. /\ xact' \in Xacts /\ SameStack(xact, xact', Len(xact)) /\ Len(xact') \in Nat
      /\ Len(xact') = Len(xact) + (IF block = "block" THEN 1 ELSE 0)
      /\ block = "block" => Len(xact') >= 1 /\ xact'[Len(xact')] = e
  <2>1. CASE block = "block"
    <3>1. xact' = Append(xact, e) /\ xact \in Seq(Levels) /\ Len(xact) \in Nat
      BY <1>1, <1>2, <2>1 DEF Xacts
    <3>2. /\ xact' \in Seq(Levels) /\ Len(xact') = Len(xact) + 1 /\ xact'[Len(xact) + 1] = e
          /\ SameStack(xact, xact', Len(xact))
      BY <1>3, <3>1, AppendFacts
    <3> QED BY <1>2, <2>1, <3>2 DEF Xacts
  <2>2. CASE block # "block"
    BY <1>1, <1>2, <2>2 DEF SameStack
  <2> QED BY <2>1, <2>2
<1>5. /\ g \in Frames /\ g.pc = "run" /\ g.save = m /\ g.base = Len(xact')
      /\ g.id = calls + 1 /\ g.block = block
  <2>1. calls + 1 \in 1 .. MaxCalls
    BY <1>2
  <2> QED BY <1>2, <1>4, <2>1 DEF Frames, PCs
<1>6. /\ \A i \in 1 .. Len(stack) : stack[i].id < g.id
      /\ \A o \in Objects : objs[o].run < g.id
  <2>1. /\ \A i \in 1 .. Len(stack) : stack[i].id <= calls
        /\ \A o \in Objects : objs[o].run <= calls
    BY DEF IInv, Numbered
  <2>2. /\ \A i \in 1 .. Len(stack) : stack[i].id \in Nat
        /\ \A o \in Objects : objs[o].run \in Nat
    <3>1. \A i \in 1 .. Len(stack) : stack[i] \in Frames
      BY <1>2 DEF Stacks
    <3>2. \A o \in Objects : objs[o].run \in Nat
      BY <1>2, SubxAssumption DEF Objs, ObjectStates
    <3> QED BY <3>1, <3>2, FrameTypes
  <2> QED BY <1>2, <1>5, <2>1, <2>2
<1> HIDE DEF g
<1>12. BlockOK(g, xact')
  BY <1>3, <1>4, <1>5 DEF BlockOK
<1>7. /\ stack' \in Stacks /\ Len(stack') = Len(stack) + 1 /\ stack'[Len(stack) + 1] = g
      /\ \A i \in 1 .. Len(stack) : stack'[i] = stack[i]
  BY <1>1, <1>2, <1>5, AppendProperties DEF Stacks
<1>8. /\ Nested(stack', m) /\ FramesOK(stack', xact', explicit_subtransactions, objs)
      /\ Len(xact') = Depth(stack'[Len(stack')], m)
  <2>1. CASE stack = <<>>
    <3>1. Len(stack) = 0 /\ Len(xact) = 0 /\ m = 0 /\ block = "plain"
      BY <1>1, <2>1, EmptySeq DEF IInv, TopOK
    <3>2. FrameOK(g, m, xact', explicit_subtransactions, objs) /\ Depth(g, m) = Len(xact')
      BY <1>2, <1>4, <1>5, <1>6, <1>12, NewFrame
    <3>3. Len(stack') = 1 /\ stack'[1] = g
      BY <1>7, <3>1
    <3>4. g.base = 0 /\ g.save = 0 /\ g.block = "plain"
      BY <1>2, <1>4, <1>5, <3>1
    <3>5. Nested(stack', m)
      BY <3>3, <3>4 DEF Nested
    <3>6. Upper(stack', m, 1) = m
      BY <3>3 DEF Upper
    <3> QED BY <3>2, <3>3, <3>5, <3>6 DEF FramesOK
  <2>2. CASE stack # <<>>
    <3>1. /\ Nested(stack, m) /\ FramesOK(stack, xact, explicit_subtransactions, objs)
      BY DEF IInv
    <3>2. Len(xact) = Depth(stack[Len(stack)], m) /\ stack[Len(stack)].pc = "sql"
      BY <1>1, <2>2, TopFacts
    <3>3. stack' = Append(stack, g)
      BY <1>1 DEF g
    <3>4. /\ stack \in Stacks /\ xact \in Xacts /\ xact' \in Xacts /\ objs \in Objs
          /\ explicit_subtransactions \in Lists /\ SameStack(xact, xact', Len(xact))
          /\ Len(xact') = Len(xact) + Block(g)
      BY <1>2, <1>4, <1>5 DEF Block
    <3>5. Pushes(stack, xact, explicit_subtransactions, objs, xact', g, stack')
      BY <1>5, <1>6, <1>12, <2>2, <3>1, <3>2, <3>3, <3>4 DEF Pushes
    <3> QED BY <3>5, PushFrames
  <2> QED BY <2>1, <2>2
<1>9. Numbered(stack', calls', objs')
  <2>1. \A i \in 1 .. Len(stack') : stack'[i].id <= calls'
    <3> SUFFICES ASSUME NEW i \in 1 .. Len(stack')
                 PROVE  stack'[i].id <= calls + 1
      BY <1>1
    <3>1. CASE i = Len(stack) + 1
      BY <1>2, <1>5, <1>7, <3>1
    <3>2. CASE i # Len(stack) + 1
      <4>1. i \in 1 .. Len(stack) /\ stack'[i] = stack[i]
        BY <1>2, <1>7, <3>2
      <4>2. stack[i] \in Frames /\ stack[i].id < calls + 1
        BY <1>2, <1>5, <1>6, <4>1 DEF Stacks
      <4>3. stack[i].id \in Nat
        BY <4>2, FrameTypes, Zenon
      <4> QED BY <1>2, <4>1, <4>2, <4>3
    <3> QED BY <3>1, <3>2
  <2>2. \A o \in Objects : objs'[o].run <= calls'
    <3>1. \A o \in Objects : objs[o].run <= calls /\ objs[o].run \in Nat
      BY <1>2, NothingElse, SubxAssumption DEF Objs, ObjectStates
    <3> QED BY <1>1, <1>2, <3>1
  <2> QED BY <2>1, <2>2 DEF Numbered
<1>10. TypeOK'
  <2>1. /\ stack' \in Stacks /\ xact' \in Xacts /\ owner' \in Nat /\ calls' \in 0 .. MaxCalls
        /\ explicit_subtransactions' \in Lists /\ effect' \in Nat /\ objs' \in Objs
    BY <1>1, <1>2, <1>4, <1>7
  <2> QED BY <2>1 DEF TypeOK, Stacks, Xacts, Lists, Objs
<1>11. TopOK(stack', xact', explicit_subtransactions')
  <2>1. Len(stack') # 0
    BY <1>2, <1>7
  <2> QED BY <1>1, <1>8, <2>1 DEF TopOK, m
<1> QED BY <1>1, <1>8, <1>9, <1>10, <1>11 DEF IInv, m

\* What plcontainer_abort_open_subtransactions leaves when a call ends.
LEMMA AbortFacts ==
    ASSUME IInv, stack # <<>>, Top.pc \in {"run", "error"}
    PROVE  /\ AbortedXact(Top.save) \in Xacts /\ Len(AbortedXact(Top.save)) = Top.base
           /\ SameStack(xact, AbortedXact(Top.save), Top.base)
           /\ AbortedList(Top.save) \in Lists /\ Len(AbortedList(Top.save)) = Top.save
           /\ SameList(explicit_subtransactions, AbortedList(Top.save), Top.save)
           /\ AbortedEffect(Top.save) \in Nat
           /\ AbortedOwner(Top.save) = Top.base
<1> DEFINE m == Len(explicit_subtransactions)
           d == Lingering(Top.save)
<1>1. /\ xact \in Xacts /\ explicit_subtransactions \in Lists /\ m \in Nat /\ Len(xact) \in Nat
      /\ effect \in Nat /\ owner = Len(xact) /\ Top.save <= m /\ Top \in Frames
      /\ FrameOK(Top, m, xact, explicit_subtransactions, objs)
  BY TopFacts
<1>2. Len(xact) = Top.base + m - Top.save /\ Top.base \in Nat /\ Top.save \in Nat
  BY RunFacts
<1>0. /\ Top.base \in Nat /\ Top.save \in Nat /\ m \in Nat /\ Len(xact) \in Nat
      /\ Top.save <= m /\ Len(xact) = Top.base + m - Top.save /\ d = m - Top.save
  BY <1>1, <1>2 DEF Lingering
<1> HIDE DEF d, m
<1>3. /\ d \in Nat /\ d <= m /\ Len(xact) = Top.base + d
      /\ Len(xact) - d = Top.base /\ Top.base <= Len(xact) /\ m - d = Top.save
      /\ m - (Top.save + 1) + 1 = d
      /\ d # 0 => Top.save + 1 <= m /\ Top.base + 1 <= Len(xact)
  BY <1>0, SMTT(30)
<1>4. CASE d = 0
  <2>1. ~(Lingering(Top.save) > 0)
    BY <1>3, <1>4 DEF d
  <2>2. /\ AbortedXact(Top.save) = xact /\ AbortedList(Top.save) = explicit_subtransactions
        /\ AbortedEffect(Top.save) = effect /\ AbortedOwner(Top.save) = owner
    BY <2>1 DEF AbortedXact, AbortedList, AbortedEffect, AbortedOwner
  <2>3. Len(xact) = Top.base /\ m = Top.save
    BY <1>0, <1>3, <1>4
  <2> QED BY <1>1, <2>2, <2>3, NothingElse, Zenon DEF m
<1>5. CASE d # 0
  <2>1. Lingering(Top.save) > 0
    BY <1>3, <1>5 DEF d
  <2>2. /\ AbortedXact(Top.save) = SubSeq(xact, 1, Len(xact) - d)
        /\ AbortedList(Top.save) = SubSeq(explicit_subtransactions, d + 1, m)
        /\ AbortedEffect(Top.save) = xact[Len(xact) - d + 1].undo
        /\ AbortedOwner(Top.save) = explicit_subtransactions[d]
    BY <2>1, Zenon DEF AbortedXact, AbortedList, AbortedEffect, AbortedOwner, d, m
  <2>3. Len(xact) - d = Top.base /\ Top.base <= Len(xact) /\ m - d = Top.save
    BY <1>3
  <2>4. /\ AbortedXact(Top.save) \in Xacts /\ Len(AbortedXact(Top.save)) = Top.base
        /\ SameStack(xact, AbortedXact(Top.save), Top.base)
    <3>1. AbortedXact(Top.save) = SubSeq(xact, 1, Top.base) /\ xact \in Seq(Levels)
      BY <1>1, <2>2, <2>3, Zenon DEF Xacts
    <3> QED BY <1>2, <2>3, <3>1, PrefixFacts DEF Xacts
  <2>5. /\ AbortedList(Top.save) \in Lists /\ Len(AbortedList(Top.save)) = Top.save
        /\ SameList(explicit_subtransactions, AbortedList(Top.save), Top.save)
    <3>1. /\ explicit_subtransactions \in Lists /\ d \in Nat /\ d <= m /\ m - d = Top.save
          /\ AbortedList(Top.save) = SubSeq(explicit_subtransactions, d + 1, m)
          /\ Top.save \in Nat
      BY <1>1, <1>2, <1>3, <2>2, <2>3
    <3> QED BY <3>1, SuffixFacts DEF m
  <2>6. AbortedEffect(Top.save) \in Nat
    <3>1. Top.base + 1 \in 1 .. Len(xact)
      <4>1. Top.base + 1 <= Len(xact)
        BY <1>3, <1>5
      <4>2. Top.base \in Nat /\ Len(xact) \in Nat
        BY <1>0
      <4> QED BY <4>1, <4>2
    <3>2. xact[Top.base + 1].undo \in Nat
      BY <1>1, <3>1, LevelFacts
    <3> QED BY <2>2, <2>3, <3>2
  <2>7. AbortedOwner(Top.save) = Top.base
    <3> DEFINE q == Top.save + 1
    <3>1. q \in Nat /\ Top.save + 1 <= q /\ q - Top.save = 1
      BY <1>0
    <3>5. q <= m /\ m - q + 1 = d
      BY <1>3, <1>5
    <3> HIDE DEF q
    <3>2. Entry(explicit_subtransactions, q) = Top.base + (q - Top.save) - 1
      <4>1. FrameOK(Top, m, xact, explicit_subtransactions, objs)
        BY <1>1
      <4> QED BY <3>1, <3>5, <4>1 DEF FrameOK
    <3>3. Entry(explicit_subtransactions, q) = explicit_subtransactions[d]
      BY <3>5 DEF Entry, m
    <3>4. Top.base + (q - Top.save) - 1 = Top.base
      BY <1>0, <3>1
    <3> QED BY <2>2, <3>2, <3>3, <3>4
  <2> QED BY <2>4, <2>5, <2>6, <2>7
<1> QED BY <1>4, <1>5

\* The outermost call is over.
LEMMA LastCallKeeps ==
    ASSUME IInv, Len(stack) = 1, TypeOK', Len(stack') = 0, Len(xact') = 0, owner' = 0,
           Len(explicit_subtransactions') = 0, calls' = calls, objs' = objs
    PROVE  IInv'
<1>1. Numbered(stack', calls', objs')
  BY NothingElse DEF Numbered
<1>2. /\ Nested(stack', Len(explicit_subtransactions'))
      /\ FramesOK(stack', xact', explicit_subtransactions', objs')
      /\ TopOK(stack', xact', explicit_subtransactions')
  BY DEF Nested, FramesOK, TopOK
<1> QED BY <1>1, <1>2 DEF IInv

\* The frame below the top one made its call inside a statement.
LEMMA CallerFacts ==
    ASSUME IInv, NEW n \in Nat, n >= 1, Len(stack) = n + 1
    PROVE  /\ stack[n] \in Frames /\ stack[n].pc = "sql" /\ Top \in Frames /\ Top = stack[n + 1]
           /\ Top.base = Depth(stack[n], Top.save) + Block(Top)
           /\ Top.save \in Nat /\ Depth(stack[n], Top.save) \in Nat
           /\ Depth(stack[n], Top.save) <= Top.base
           /\ stack[n].save <= Top.save /\ stack[n].base <= Depth(stack[n], Top.save)
           /\ FrameOK(stack[n], Top.save, xact, explicit_subtransactions, objs)
<1>1. stack # <<>> /\ n \in 1 .. Len(stack) /\ n < Len(stack)
  BY EmptySeq DEF IInv, TypeOK
<1>2. Top = stack[n + 1] /\ Top \in Frames /\ stack \in Stacks
  BY <1>1, TopFacts
<1>3. stack[n] \in Frames /\ Top.save \in Nat
  BY <1>1, <1>2, FrameTypes DEF Stacks
<1>4. stack[n].pc = "sql" /\ Top.base = Depth(stack[n], Top.save) + Block(Top)
  BY <1>1, <1>2, Zenon DEF IInv, Nested
<1>5. FrameOK(stack[n], Top.save, xact, explicit_subtransactions, objs)
  <2>1. Upper(stack, Len(explicit_subtransactions), n) = Top.save
    BY <1>1, <1>2 DEF Upper
  <2> QED BY <1>1, <2>1 DEF IInv, FramesOK
<1>6. stack[n].save <= Top.save
  BY <1>5 DEF FrameOK
<1>7. Depth(stack[n], Top.save) \in Nat /\ stack[n].base <= Depth(stack[n], Top.save)
  BY <1>3, <1>6, FrameTypes, SMTT(30)
<1>8. Depth(stack[n], Top.save) <= Top.base
  BY <1>4, <1>7 DEF Block
<1> QED BY <1>2, <1>3, <1>4, <1>5, <1>6, <1>7, <1>8

\* A statement that fails has its frame where it was.
LEMMA FailedStatement ==
    ASSUME NEW f \in Frames, NEW g \in Frames, SameCall(f, g), g.oldowner = f.oldowner,
           f.pc = "sql", g.pc \in {"sql", "fail"}, NEW u \in Nat,
           NEW x \in Xacts, NEW l \in Lists, NEW ob \in Objs, FrameOK(f, u, x, l, ob)
    PROVE  FrameOK(g, u, x, l, ob) /\ Depth(g, u) = Depth(f, u)
<1>1. /\ f.save \in Nat /\ f.base \in Nat /\ f.save <= u
      /\ g.id = f.id /\ g.save = f.save /\ g.base = f.base
  BY FrameTypes DEF SameCall, FrameOK
<1>2. Depth(g, u) = Depth(f, u)
  BY <1>1 DEF Depth, Inner
<1>3. ObjectsOK(f, u, x, ob)
  BY DEF FrameOK
<1>4. SameStack(x, x, f.base + u - f.save)
  BY DEF SameStack
<1>5. ObjectsOK(g, u, x, ob)
  BY <1>1, <1>3, <1>4, ObjectsKept
<1>6. BlockOK(g, x)
  <2>1. SameStack(x, x, f.base) /\ BlockOK(f, x)
    BY DEF SameStack, FrameOK
  <2> QED BY <2>1, BlockKept
<1> QED BY <1>1, <1>2, <1>5, <1>6, SMTT(30) DEF FrameOK

\* A nested call is over, and all it began has been ended: n frames are left,
\* and the server's stack and the list are what they were when it was made.
Over(n) ==
    /\ stack' \in Stacks /\ Len(stack') = n /\ SameFrames(stack, stack', n)
    /\ SameCall(stack[n], stack'[n]) /\ stack'[n].oldowner = stack[n].oldowner
    /\ stack'[n].pc \in {"sql", "fail"}
    /\ xact' \in Xacts /\ Len(xact') = Depth(stack[n], Top.save)
    /\ SameStack(xact, xact', Depth(stack[n], Top.save))
    /\ explicit_subtransactions' \in Lists /\ Len(explicit_subtransactions') = Top.save
    /\ SameList(explicit_subtransactions, explicit_subtransactions', Top.save)
    /\ owner' = Len(xact') /\ effect' \in Nat /\ calls' = calls /\ objs' = objs

\* Such a step keeps the invariant.
LEMMA CallOver ==
    ASSUME IInv, NEW n \in Nat, n >= 1, Len(stack) = n + 1, Over(n)
    PROVE  IInv'
<1> DEFINE f == stack[n]
           g == stack'[n]
           u == Top.save
<1>1. /\ f \in Frames /\ f.pc = "sql" /\ u \in Nat /\ Depth(f, u) \in Nat
      /\ f.save <= u /\ f.base <= Depth(f, u)
      /\ FrameOK(f, u, xact, explicit_subtransactions, objs)
  BY CallerFacts, Zenon
<1>2. /\ stack' \in Stacks /\ Len(stack') = n /\ SameCall(f, g) /\ g.oldowner = f.oldowner
      /\ g.pc \in {"sql", "fail"} /\ SameFrames(stack, stack', n)
  BY DEF Over
<1>3. /\ xact' \in Xacts /\ Len(xact') = Depth(f, u) /\ SameStack(xact, xact', Depth(f, u))
      /\ explicit_subtransactions' \in Lists /\ Len(explicit_subtransactions') = u
      /\ SameList(explicit_subtransactions, explicit_subtransactions', u)
  BY DEF Over
<1>4. owner' = Len(xact') /\ effect' \in Nat /\ calls' = calls /\ objs' = objs
  BY DEF Over
<1>5. n \in 1 .. Len(stack) /\ g \in Frames
  <2>1. n \in 1 .. Len(stack) /\ n \in 1 .. Len(stack')
    BY <1>2
  <2> QED BY <1>2, <2>1 DEF Stacks
<1> HIDE DEF f, g, u
<1>6. /\ xact \in Xacts /\ explicit_subtransactions \in Lists /\ objs \in Objs /\ TypeOK
  BY DEF IInv, TypeOK, Xacts, Lists, Objs
<1>7. f.base \in Nat /\ f.save \in Nat
  BY <1>1, FrameTypes
<1>8. FrameOK(f, u, xact', explicit_subtransactions', objs)
  <2>1. Depth(f, u) <= Len(xact') /\ u <= Len(explicit_subtransactions')
    BY <1>1, <1>3
  <2> QED BY <1>1, <1>3, <1>6, <2>1, FrameKept
<1>9. FrameOK(g, u, xact', explicit_subtransactions', objs) /\ Depth(g, u) = Len(xact')
  BY <1>1, <1>2, <1>3, <1>5, <1>6, <1>8, FailedStatement
<1>10. TypeOK'
  <2>1. owner' \in Nat
    BY <1>1, <1>3, <1>4
  <2> QED BY <1>2, <1>3, <1>4, <1>6, <2>1, Zenon DEF TypeOK, Stacks, Xacts, Lists, Objs
<1>11. SameStack(xact, xact', f.base)
  BY <1>1, <1>3, <1>7 DEF SameStack
<1>12. SameList(explicit_subtransactions, explicit_subtransactions', f.save)
  BY <1>1, <1>3, <1>7 DEF SameList
<1>13. SameObjects(objs, objs', f.id) /\ \A o \in Objects : objs'[o].run <= calls
  BY <1>4, NothingElse
<1>14. /\ FrameOK(g, Len(explicit_subtransactions'), xact', explicit_subtransactions', objs')
       /\ Len(xact') = Depth(g, Len(explicit_subtransactions'))
  BY <1>3, <1>4, <1>9
<1> QED BY <1>2, <1>4, <1>5, <1>10, <1>11, <1>12, <1>13, <1>14, Restack, Zenon DEF f, g

\* The subtransaction of an exception block ends.
LEMMA BlockEnds ==
    ASSUME NEW x \in Xacts, NEW r \in Xacts, NEW b \in Nat, Len(r) = b + 1,
           SameStack(x, r, b + 1)
    PROVE  /\ Pop(r) \in Xacts /\ Len(Pop(r)) = b /\ SameStack(x, Pop(r), b)
           /\ TopOf(r).undo \in Nat
<1>1. Pop(r) = SubSeq(r, 1, b) /\ r \in Seq(Levels) /\ b <= Len(r)
  BY DEF Pop, Xacts
<1>2. Pop(r) \in Seq(Levels) /\ Len(Pop(r)) = b /\ SameStack(r, Pop(r), b)
  BY <1>1, PrefixFacts
<1>3. SameStack(x, Pop(r), b)
  BY <1>2 DEF SameStack
<1>4. Len(r) \in 1 .. Len(r)
  OBVIOUS
<1>5. TopOf(r).undo \in Nat
  BY <1>4, LevelFacts DEF TopOf
<1> QED BY <1>2, <1>3, <1>5 DEF Xacts

\* The top frame is dropped.
LEMMA PopFacts ==
    ASSUME NEW s \in Stacks, NEW n \in Nat, Len(s) = n + 1
    PROVE  /\ Pop(s) \in Stacks /\ Len(Pop(s)) = n
           /\ \A i \in 1 .. n : Pop(s)[i] = s[i]
<1>1. Pop(s) = SubSeq(s, 1, n) /\ s \in Seq(Frames) /\ n <= Len(s)
  BY DEF Pop, Stacks
<1>2. Pop(s) \in Seq(Frames) /\ Len(Pop(s)) = n /\ SameStack(s, Pop(s), n)
  BY <1>1, PrefixFacts, SMTT(30)
<1> QED BY <1>2 DEF SameStack, Stacks

\* The outermost call, when it is the only one.
LEMMA OnlyCall ==
    ASSUME IInv, Len(stack) = 1
    PROVE  Top.base = 0 /\ Top.save = 0 /\ Top.block = "plain"
BY DEF IInv, Nested, Top, TopOf

\* How many calls there are.
LEMMA StackLength ==
    ASSUME IInv, stack # <<>>
    PROVE  Len(stack) = 1 \/ \E n \in Nat : n >= 1 /\ Len(stack) = n + 1
<1>1. Len(stack) \in Nat /\ Len(stack) \in 1 .. Len(stack)
  BY TopFacts
<1>2. CASE Len(stack) = 1
  BY <1>2
<1>3. CASE Len(stack) # 1
  <2>1. Len(stack) - 1 \in Nat /\ Len(stack) - 1 >= 1 /\ Len(stack) = (Len(stack) - 1) + 1
    BY <1>1, <1>3
  <2> QED BY <2>1, Zenon
<1> QED BY <1>2, <1>3

\* A call ends with a result.
LEMMA CallReturnsKeeps ==
    ASSUME IInv, CallReturns
    PROVE  IInv'
<1> DEFINE rest == AbortedXact(Top.save)
<1>1. /\ stack # <<>> /\ Top.pc = "run"
      /\ xact' = (IF Top.block = "block" THEN Pop(rest) ELSE rest)
      /\ owner' = (IF Top.block = "block" THEN Len(xact') ELSE AbortedOwner(Top.save))
      /\ explicit_subtransactions' = AbortedList(Top.save)
      /\ effect' = AbortedEffect(Top.save)
      /\ stack' = Pop(stack) /\ calls' = calls /\ objs' = objs
  BY DEF CallReturns, At
<1>2. stack \in Stacks /\ xact \in Xacts /\ Top \in Frames /\ TypeOK
  BY <1>1, TopFacts, Zenon DEF IInv
<1>3. /\ rest \in Xacts /\ Len(rest) = Top.base /\ SameStack(xact, rest, Top.base)
      /\ explicit_subtransactions' \in Lists /\ Len(explicit_subtransactions') = Top.save
      /\ SameList(explicit_subtransactions, explicit_subtransactions', Top.save)
      /\ effect' \in Nat /\ AbortedOwner(Top.save) = Top.base
  BY <1>1, AbortFacts
<1> HIDE DEF rest
<1>4. CASE Len(stack) = 1
  <2>1. Top.base = 0 /\ Top.save = 0 /\ Top.block = "plain"
    BY <1>4, OnlyCall
  <2>2. stack' \in Stacks /\ Len(stack') = 0
    <3>1. Len(stack) = 0 + 1 /\ stack \in Stacks /\ stack' = Pop(stack)
      BY <1>1, <1>2, <1>4
    <3> QED BY <3>1, PopFacts, Zenon
  <2>3. xact' \in Xacts /\ Len(xact') = 0 /\ owner' = 0 /\ Len(explicit_subtransactions') = 0
    BY <1>1, <1>3, <2>1
  <2>4. TypeOK'
    BY <1>1, <1>2, <1>3, <2>2, <2>3 DEF TypeOK, Stacks, Xacts, Lists
  <2> QED BY <1>1, <1>4, <2>2, <2>3, <2>4, LastCallKeeps, SMTT(30)
<1>5. ASSUME NEW n \in Nat, n >= 1, Len(stack) = n + 1
      PROVE  IInv'
  <2> DEFINE b == Depth(stack[n], Top.save)
  <2>1. /\ b \in Nat /\ Top.base = b + Block(Top) /\ stack[n] \in Frames /\ stack[n].pc = "sql"
    BY <1>5, CallerFacts
  <2>2. /\ stack' \in Stacks /\ Len(stack') = n /\ \A i \in 1 .. n : stack'[i] = stack[i]
    BY <1>1, <1>2, <1>5, PopFacts, Zenon
  <2>3. /\ SameFrames(stack, stack', n) /\ SameCall(stack[n], stack'[n])
        /\ stack'[n].oldowner = stack[n].oldowner /\ stack'[n].pc \in {"sql", "fail"}
    <3>1. stack'[n] = stack[n]
      BY <1>5, <2>2
    <3> QED BY <2>1, <2>2, <3>1 DEF SameFrames, SameCall
  <2> HIDE DEF b
  <2>4. /\ xact' \in Xacts /\ Len(xact') = b /\ SameStack(xact, xact', b) /\ owner' = Len(xact')
    <3>1. CASE Top.block = "block"
      <4>1. Top.base = b + 1 /\ xact' = Pop(rest) /\ owner' = Len(xact')
        BY <1>1, <2>1, <3>1 DEF Block
      <4> QED BY <1>2, <1>3, <2>1, <4>1, BlockEnds
    <3>2. CASE Top.block # "block"
      <4>1. Top.base = b /\ xact' = rest /\ owner' = Top.base
        BY <1>1, <1>3, <2>1, <3>2 DEF Block
      <4> QED BY <1>3, <4>1
    <3> QED BY <3>1, <3>2
  <2>5. Over(n)
    BY <1>1, <1>3, <2>2, <2>3, <2>4 DEF Over, b
  <2> QED BY <1>5, <2>5, CallOver
<1> QED BY <1>1, <1>4, <1>5, StackLength

\* A call ends with an error.
LEMMA CallFailsKeeps ==
    ASSUME IInv, CallFails
    PROVE  IInv'
<1> DEFINE rest == AbortedXact(Top.save)
<1>1. /\ stack # <<>> /\ Top.pc = "error"
      /\ explicit_subtransactions' = AbortedList(Top.save)
      /\ calls' = calls /\ objs' = objs
  BY DEF CallFails, At
<1>2. stack \in Stacks /\ xact \in Xacts /\ Top \in Frames /\ TypeOK
  BY <1>1, TopFacts DEF IInv
<1>3. /\ rest \in Xacts /\ Len(rest) = Top.base /\ SameStack(xact, rest, Top.base)
      /\ explicit_subtransactions' \in Lists /\ Len(explicit_subtransactions') = Top.save
      /\ SameList(explicit_subtransactions, explicit_subtransactions', Top.save)
      /\ AbortedEffect(Top.save) \in Nat /\ AbortedOwner(Top.save) = Top.base
  BY <1>1, AbortFacts
<1>4. CASE Len(stack) = 1
  <2>1. Top.save = 0
    BY <1>4, OnlyCall
  <2>2. xact' = <<>> /\ effect' = 0 /\ owner' = 0 /\ stack' = <<>>
    BY <1>4 DEF CallFails
  <2>3. /\ stack' \in Stacks /\ Len(stack') = 0 /\ xact' \in Xacts /\ Len(xact') = 0
    BY <2>2 DEF Stacks, Xacts
  <2>4. TypeOK'
    BY <1>1, <1>2, <1>3, <2>2, <2>3 DEF TypeOK, Stacks, Xacts, Lists
  <2> QED BY <1>1, <1>3, <1>4, <2>1, <2>2, <2>3, <2>4, LastCallKeeps
<1>5. ASSUME NEW n \in Nat, n >= 1, Len(stack) = n + 1
      PROVE  IInv'
  <2> DEFINE b == Depth(stack[n], Top.save)
             s == Pop(stack)
  <2>1. /\ b \in Nat /\ Top.base = b + Block(Top) /\ stack[n] \in Frames /\ stack[n].pc = "sql"
    BY <1>5, CallerFacts
  <2>2. /\ s \in Stacks /\ Len(s) = n /\ s # <<>> /\ \A i \in 1 .. n : s[i] = stack[i]
    <3>1. s \in Stacks /\ Len(s) = n /\ \A i \in 1 .. n : s[i] = stack[i]
      BY <1>2, <1>5, PopFacts, Zenon
    <3>2. Len(s) # 0 => s # <<>>
      OBVIOUS
    <3> QED BY <1>5, <3>1, <3>2
  <2>3. s[n] = stack[n]
    BY <1>5, <2>2
  <2>4. Len(stack) # 1 /\ Len(stack) - 1 = n
    BY <1>5
  <2>5. CASE Top.block = "block"
    <3>1. /\ xact' = Pop(rest) /\ effect' = TopOf(rest).undo /\ owner' = Len(xact') /\ stack' = s
      BY <2>4, <2>5 DEF CallFails
    <3>2. /\ SameFrames(stack, stack', n) /\ SameCall(stack[n], stack'[n])
          /\ stack'[n].oldowner = stack[n].oldowner /\ stack'[n].pc \in {"sql", "fail"}
      BY <2>1, <2>2, <2>3, <3>1 DEF SameFrames, SameCall
    <3>3. Top.base = b + 1
      BY <2>1, <2>5 DEF Block
    <3> HIDE DEF b, s, rest
    <3>4. /\ xact' \in Xacts /\ Len(xact') = b /\ SameStack(xact, xact', b) /\ effect' \in Nat
      <4>1. Len(rest) = b + 1 /\ SameStack(xact, rest, b + 1)
        BY <1>3, <3>3
      <4>2. /\ Pop(rest) \in Xacts /\ Len(Pop(rest)) = b /\ SameStack(xact, Pop(rest), b)
            /\ TopOf(rest).undo \in Nat
        BY <1>2, <1>3, <2>1, <4>1, BlockEnds, Zenon
      <4> QED BY <3>1, <4>2
    <3>5. Over(n)
      BY <1>1, <1>3, <2>2, <3>1, <3>2, <3>4 DEF Over, b
    <3> QED BY <1>5, <3>5, CallOver
  <2>6. CASE Top.block # "block"
    <3>1. /\ xact' = rest /\ effect' = AbortedEffect(Top.save)
          /\ owner' = AbortedOwner(Top.save)
          /\ stack' = [s EXCEPT ![n] = Moved(TopOf(s), "fail", TopOf(s).oldowner)]
      BY <2>4, <2>6 DEF CallFails
    <3>2. TopOf(s) = stack[n]
      BY <2>2, <2>3 DEF TopOf
    <3> DEFINE g == Moved(stack[n], "fail", stack[n].oldowner)
    <3>3. /\ g \in Frames /\ SameCall(stack[n], g) /\ g.pc = "fail"
          /\ g.oldowner = stack[n].oldowner
      <4>1. "fail" \in PCs /\ stack[n].oldowner \in Nat
        BY <2>1, FrameTypes DEF PCs
      <4> QED BY <2>1, <4>1, MovedFacts, SMTT(30)
    <3>4. stack' = [s EXCEPT ![Len(s)] = g]
      BY <2>2, <3>1, <3>2
    <3>5. Top.base = b
      BY <2>1, <2>6 DEF Block
    <3> HIDE DEF b, s, g, rest
    <3>6. stack' \in Stacks /\ Len(stack') = n /\ stack'[n] = g /\ SameFrames(s, stack', n)
      <4>1. s \in Stacks /\ s # <<>> /\ Len(s) = n /\ g \in Frames
        BY <2>2, <3>3
      <4>2. /\ stack' \in Stacks /\ Len(stack') = Len(s) /\ stack'[Len(s)] = g
            /\ SameFrames(s, stack', Len(s))
        BY <3>4, <4>1, SetTopFacts, Zenon
      <4> QED BY <4>1, <4>2
    <3>7. SameFrames(stack, stack', n)
      BY <1>5, <2>2, <3>6 DEF SameFrames
    <3>8. /\ SameCall(stack[n], stack'[n]) /\ stack'[n].oldowner = stack[n].oldowner
          /\ stack'[n].pc \in {"sql", "fail"}
      BY <3>3, <3>6
    <3>9. /\ xact' \in Xacts /\ Len(xact') = b /\ SameStack(xact, xact', b)
          /\ effect' \in Nat /\ owner' = Len(xact')
      BY <1>3, <3>1, <3>5, SMTT(30)
    <3>10. Over(n)
      BY <1>1, <1>3, <3>6, <3>7, <3>8, <3>9, SMTT(30) DEF Over, b
    <3> QED BY <1>5, <3>10, CallOver
  <2> QED BY <2>5, <2>6
<1> QED BY <1>1, <1>4, <1>5, StackLength

-----------------------------------------------------------------------------
(* The theorems *)

\* The invariant holds to begin with.
LEMMA InitHolds == Init => IInv
<1> SUFFICES ASSUME Init PROVE IInv
  OBVIOUS
<1>1. TypeOK
  <2>1. objs \in [Objects -> ObjectStates]
    BY SubxAssumption DEF Init, Idle, ObjectStates
  <2> QED BY <2>1, SubxAssumption DEF Init, TypeOK
<1>2. /\ Len(stack) = 0 /\ Len(xact) = 0 /\ Len(explicit_subtransactions) = 0
      /\ owner = 0 /\ calls = 0
  BY DEF Init
<1>3. \A o \in Objects : objs[o].run <= 0
  BY DEF Init, Idle
<1> QED BY <1>1, <1>2, <1>3 DEF IInv, Nested, FramesOK, Numbered, TopOK

\* Every step keeps the invariant, when functions exit what they entered.
LEMMA NextKeeps ==
    ASSUME Habits = {}, IInv, [Next]_vars
    PROVE  IInv'
<1>1. ASSUME NEW block \in {"plain", "block"}, Call(block) PROVE IInv'
  BY <1>1, CallKeeps
<1>2. ASSUME NEW o \in Objects, Enter(o) \/ EnterFails(o) \/ (ExitFails(o) /\ WellNested(o))
      PROVE  IInv'
  BY <1>2, EnterKeeps, EnterFailsKeeps, ExitFailsKeeps
<1>3. ASSUME NEW o \in Objects, NEW how \in {"e", "n"}, Exit(o, how), WellNested(o)
      PROVE  IInv'
  BY <1>3, ExitKeeps
<1>4. CASE UNCHANGED vars
  <2>1. UNCHANGED <<stack, calls, xact, owner, explicit_subtransactions, effect, objs>>
    BY <1>4 DEF vars
  <2>2. TypeOK'
    BY <2>1 DEF IInv, TypeOK
  <2> QED BY <2>1, <2>2 DEF IInv
<1> QED BY <1>1, <1>2, <1>3, <1>4, CallReturnsKeeps, FunctionFailsKeeps, CallFailsKeeps,
           SqlBeginsKeeps, SqlWritesKeeps, SqlEndsKeeps, SqlFailsKeeps DEF Next

\* The frames, the list and the server's stack agree in every reachable state
\* of a session whose functions exit what they entered, innermost first.
THEOREM Agreement == Habits = {} => (Spec => []IInv)
<1> SUFFICES ASSUME Habits = {} PROVE Spec => []IInv
  OBVIOUS
<1>1. IInv /\ [Next]_vars => IInv'
  BY NextKeeps
<1> QED BY <1>1, InitHolds, PTL DEF Spec

\* EndsItsOwn, for every number of calls, objects and statements.
THEOREM EndsItsOwnHolds == Habits = {} => (Spec => []EndsItsOwn)
<1> SUFFICES ASSUME Habits = {} PROVE Spec => []EndsItsOwn
  OBVIOUS
<1>1. IInv => EndsItsOwn
  <2> SUFFICES ASSUME IInv PROVE EndsItsOwn
    OBVIOUS
  <2>1. owner = Len(xact)
    BY DEF IInv
  <2>2. ASSUME stack # <<>>
        PROVE  /\ Len(xact) = Expected
               /\ Top.pc \in {"sql", "fail"} =>
                     TopOf(xact).kind = "spi" /\ TopOf(xact).call = Top.id
    <3>1. /\ Len(xact) = Depth(Top, Len(explicit_subtransactions))
          /\ FrameOK(Top, Len(explicit_subtransactions), xact, explicit_subtransactions, objs)
      BY <2>2, TopFacts
    <3>2. Len(xact) = Expected
      BY <3>1 DEF Expected, Depth, Inner
    <3>3. Top.pc \in {"sql", "fail"} =>
             TopOf(xact).kind = "spi" /\ TopOf(xact).call = Top.id
      BY <3>1 DEF FrameOK, TopOf
    <3> QED BY <3>2, <3>3
  <2> QED BY <2>1, <2>2 DEF EndsItsOwn
<1> QED BY <1>1, Agreement, PTL

\* SurroundingsStand, for every number of calls, objects and statements: each
\* frame's place was fixed when the call was made, and no call above it reaches
\* below its own.
THEOREM SurroundingsStandHolds == Habits = {} => (Spec => []SurroundingsStand)
<1> SUFFICES ASSUME Habits = {} PROVE Spec => []SurroundingsStand
  OBVIOUS
<1>1. IInv => SurroundingsStand
  <2> SUFFICES ASSUME IInv, NEW i \in 2 .. Len(stack)
               PROVE  LET base == stack[i].base
                          caller == IF stack[i].block = "block" THEN base - 1 ELSE base
                      IN  /\ base <= Len(xact)
                          /\ xact[caller].kind = "spi" /\ xact[caller].call = stack[i - 1].id
                          /\ stack[i].block = "block" =>
                                xact[base].kind = "block" /\ xact[base].call = stack[i].id
    BY DEF SurroundingsStand
  <2> DEFINE m == Len(explicit_subtransactions)
             u == Upper(stack, m, i)
             d == Depth(stack[i - 1], stack[i].save)
  <2>1. /\ Len(stack) \in Nat /\ i \in 1 .. Len(stack) /\ i - 1 \in 1 .. Len(stack)
        /\ i - 1 < Len(stack) /\ (i - 1) + 1 = i /\ stack \in Stacks
        /\ Len(xact) \in Nat /\ m \in Nat
    <3>1. /\ stack \in Stacks /\ xact \in Xacts /\ explicit_subtransactions \in Lists
      BY DEF IInv, TypeOK, Stacks, Xacts, Lists
    <3>2. Len(stack) \in Nat /\ Len(xact) \in Nat /\ m \in Nat
      BY <3>1, LenProperties DEF Stacks, Xacts, Lists
    <3> QED BY <3>1, <3>2
  <2>2. stack[i] \in Frames /\ stack[i - 1] \in Frames
    BY <2>1 DEF Stacks
  <2>3. FrameOK(stack[i], u, xact, explicit_subtransactions, objs)
    BY <2>1 DEF IInv, FramesOK
  <2>4. FrameOK(stack[i - 1], stack[i].save, xact, explicit_subtransactions, objs)
    <3>1. Upper(stack, m, i - 1) = stack[i].save
      BY <2>1 DEF Upper
    <3> QED BY <2>1, <3>1 DEF IInv, FramesOK
  <2>5. stack[i - 1].pc = "sql" /\ stack[i].base = d + Block(stack[i])
    <3>1. \A k \in 1 .. Len(stack) : k < Len(stack) =>
             stack[k].pc = "sql" /\ stack[k + 1].base = Depth(stack[k], stack[k + 1].save)
                                                           + Block(stack[k + 1])
      BY DEF IInv, Nested
    <3> QED BY <2>1, <3>1
  <2>6. xact[d].kind = "spi" /\ xact[d].call = stack[i - 1].id
    BY <2>4, <2>5 DEF FrameOK
  <2>7. u \in Nat /\ stack[i].save <= u /\ Depth(stack[i], u) <= Len(xact)
    <3>1. stack[i].save <= u /\ Depth(stack[i], u) <= Len(xact)
      BY <2>3 DEF FrameOK
    <3>2. u \in Nat
      <4>1. CASE i = Len(stack)
        BY <2>1, <4>1 DEF Upper
      <4>2. CASE i # Len(stack)
        <5>1. i + 1 \in 1 .. Len(stack)
          BY <2>1, <4>2
        <5>2. stack[i + 1] \in Frames
          BY <2>1, <5>1 DEF Stacks
        <5>3. stack[i + 1].save \in Nat
          BY <2>1, <5>2, FrameTypes, Zenon
        <5> QED BY <2>1, <4>2, <5>3 DEF Upper
      <4> QED BY <4>1, <4>2
    <3> QED BY <3>1, <3>2
  <2>8. d \in Int /\ stack[i].base \in Nat /\ stack[i].save \in Nat
    BY <2>2, FrameTypes
  <2> HIDE DEF u, d
  <2>9. stack[i].base <= Len(xact)
    <3>1. stack[i].base <= Depth(stack[i], u) /\ Depth(stack[i], u) \in Nat
      BY <2>2, <2>7, FrameTypes
    <3> QED BY <2>1, <2>7, <2>8, <3>1
  <2>10. BlockOK(stack[i], xact)
    BY <2>3 DEF FrameOK
  <2>11. (IF stack[i].block = "block" THEN stack[i].base - 1 ELSE stack[i].base) = d
    BY <2>5, <2>8 DEF Block
  <2> QED BY <2>6, <2>9, <2>10, <2>11 DEF BlockOK
<1> QED BY <1>1, Agreement, PTL

\* NothingLeftOpen, for every number of calls, objects and statements.
THEOREM NothingLeftOpenHolds == Habits = {} => (Spec => []NothingLeftOpen)
<1> SUFFICES ASSUME Habits = {} PROVE Spec => []NothingLeftOpen
  OBVIOUS
<1>1. IInv => NothingLeftOpen
  <2> SUFFICES ASSUME IInv, stack = <<>> PROVE xact = <<>> /\ explicit_subtransactions = <<>>
    BY DEF NothingLeftOpen
  <2>1. Len(xact) = 0 /\ Len(explicit_subtransactions) = 0
    BY EmptySeq DEF IInv, TopOK
  <2>2. xact \in Seq(Levels) /\ explicit_subtransactions \in Seq(Nat)
    BY DEF IInv, TypeOK
  <2> QED BY <2>1, <2>2, EmptySeq
<1> QED BY <1>1, Agreement, PTL

\* ExitUndoes, for every number of calls, objects and statements: the level
\* that is rolled back is that of the object, and it remembers what the effect
\* was when the object was entered.
THEOREM ExitUndoesHolds == Habits = {} => (Spec => ExitUndoes)
<1> SUFFICES ASSUME Habits = {} PROVE Spec => ExitUndoes
  OBVIOUS
<1>1. ASSUME IInv, NEW o \in Objects, Exit(o, "n"), WellNested(o)
      PROVE  effect' = objs[o].undo
  <2>1. stack # <<>> /\ Top.pc = "run" /\ effect' = TopOf(xact).undo
    BY <1>1 DEF Exit, At
  <2>2. xact[Len(xact)].undo = objs[o].undo
    BY <1>1, <2>1, ExitFacts
  <2> QED BY <2>1, <2>2 DEF TopOf
<1>2. IInv => [\A o \in Objects : Exit(o, "n") /\ WellNested(o) => effect' = objs[o].undo]_vars
  BY <1>1
<1> QED BY <1>2, Agreement, PTL DEF ExitUndoes
=============================================================================
