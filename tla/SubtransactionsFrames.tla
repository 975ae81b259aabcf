------------------------ MODULE SubtransactionsFrames ------------------------
(***************************************************************************)
(* The invariant that relates the server's stack of subtransactions, the   *)
(* list of explicit ones, the calls on the stack and the objects they have *)
(* open, and what a step of the innermost call has to show to keep it.     *)
(***************************************************************************)
EXTENDS Subtransactions, SequenceTheorems, TLAPS

-----------------------------------------------------------------------------
(* The invariant *)

\* The subtransaction of a statement that is being executed, if any.
Inner(f) == IF f.pc \in {"sql", "fail"} THEN 1 ELSE 0

\* The subtransaction of the exception block around a call, if any.
Block(f) == IF f.block = "block" THEN 1 ELSE 0

\* The depth of the server's stack as frame f has it, when the list had u
\* entries at the time the frame made its last call.
Depth(f, u) == f.base + u - f.save + Inner(f)

\* How many entries of a list of m frame i and those below it own.
Upper(s, m, i) == IF i = Len(s) THEN m ELSE s[i + 1].save

\* The entry of the list that was made when it had p - 1 entries.
Entry(l, p) == l[Len(l) - p + 1]

OpenIn(ob, id) == {o \in Objects : ob[o].state = "started" /\ ob[o].run = id}

\* The objects a call has open are its explicit subtransactions, one each.
ObjectsOK(f, u, x, ob) ==
    /\ \A o \in OpenIn(ob, f.id) :
          /\ f.base + 1 <= ob[o].level /\ ob[o].level <= f.base + u - f.save
          /\ x[ob[o].level].undo = ob[o].undo
    /\ \A o, p \in OpenIn(ob, f.id) : ob[o].level = ob[p].level => o = p
    /\ \A k \in Nat :
          f.base + 1 <= k /\ k <= f.base + u - f.save =>
             \E o \in OpenIn(ob, f.id) : ob[o].level = k

\* The exception block around a call has its level right below the call's own.
BlockOK(f, x) ==
    f.block = "block" => /\ f.base >= 1
                         /\ x[f.base].kind = "block" /\ x[f.base].call = f.id

\* What the server's stack x, the list l and the objects ob owe a frame.
FrameOK(f, u, x, l, ob) ==
    /\ f.save <= u
    /\ u <= Len(l)
    /\ Depth(f, u) <= Len(x)
    /\ f.pc \in {"sql", "fail"} =>
          /\ x[Depth(f, u)].kind = "spi" /\ x[Depth(f, u)].call = f.id
          /\ f.oldowner = Depth(f, u) - 1
    /\ \A p \in Nat : f.save + 1 <= p /\ p <= u => Entry(l, p) = f.base + (p - f.save) - 1
    /\ f.pc # "error" => ObjectsOK(f, u, x, ob)
    /\ BlockOK(f, x)

\* How the frames below the top one sit on each other.
Nested(s, m) ==
    /\ \A i, j \in 1 .. Len(s) : i < j =>
          /\ s[i].id < s[j].id
          /\ Depth(s[i], Upper(s, m, i)) <= s[j].base
          /\ Upper(s, m, i) <= s[j].save
    /\ \A i \in 1 .. Len(s) : i < Len(s) =>
          /\ s[i].pc = "sql"
          /\ s[i + 1].base = Depth(s[i], s[i + 1].save)
                               + Block(s[i + 1])
    /\ Len(s) > 0 => s[1].base = 0 /\ s[1].save = 0 /\ s[1].block = "plain"

FramesOK(s, x, l, ob) ==
    \A i \in 1 .. Len(s) : FrameOK(s[i], Upper(s, Len(l), i), x, l, ob)

Numbered(s, n, ob) ==
    /\ \A i \in 1 .. Len(s) : s[i].id <= n
    /\ \A o \in Objects : ob[o].run <= n

TopOK(s, x, l) ==
    IF Len(s) = 0 THEN Len(x) = 0 /\ Len(l) = 0
    ELSE Len(x) = Depth(s[Len(s)], Len(l))

IInv ==
    /\ TypeOK
    /\ Nested(stack, Len(explicit_subtransactions))
    /\ FramesOK(stack, xact, explicit_subtransactions, objs)
    /\ Numbered(stack, calls, objs)
    /\ TopOK(stack, xact, explicit_subtransactions)
    /\ owner = Len(xact)

Stacks == Seq(Frames)
Lists == Seq(Nat)
Xacts == Seq(Levels)
Objs == [Objects -> ObjectStates]

\* What two states have in common below some depth, list length or call.
SameStack(x, y, b) == \A i \in Nat : 1 <= i /\ i <= b => y[i] = x[i]
SameList(l, k, b) == \A p \in Nat : 1 <= p /\ p <= b => Entry(k, p) = Entry(l, p)
SameObjects(ob, oc, b) ==
    \A o \in Objects : oc[o] = ob[o] \/
        \A id \in Nat : id < b => o \notin OpenIn(ob, id) /\ o \notin OpenIn(oc, id)
SameFrames(s, t, n) == \A i \in Nat : 1 <= i /\ i < n => t[i] = s[i]
SameCall(f, g) == g.id = f.id /\ g.save = f.save /\ g.base = f.base /\ g.block = f.block

-----------------------------------------------------------------------------
(* Frames *)

\* The numbers about a frame are natural.
LEMMA FrameTypes ==
    ASSUME NEW f \in Frames, NEW u \in Nat
    PROVE  /\ f.id \in Nat /\ f.save \in Nat /\ f.base \in Nat /\ f.oldowner \in Nat
           /\ f.id > 0 /\ f.id <= MaxCalls
           /\ f.pc \in PCs /\ f.block \in {"plain", "block"}
           /\ Inner(f) \in {0, 1} /\ Depth(f, u) \in Int
           /\ f.save <= u => Depth(f, u) \in Nat /\ f.base <= Depth(f, u)
<1>1. /\ f.id \in Nat /\ f.save \in Nat /\ f.base \in Nat /\ f.oldowner \in Nat
      /\ f.id > 0 /\ f.id <= MaxCalls
      /\ f.pc \in PCs /\ f.block \in {"plain", "block"}
  BY SubxAssumption DEF Frames
<1>2. Inner(f) \in {0, 1}
  BY DEF Inner
<1> QED BY <1>1, <1>2 DEF Depth

\* The block of a call stays where the stack below the call does.
LEMMA BlockKept ==
    ASSUME NEW f \in Frames, NEW g \in Frames, SameCall(f, g), NEW x, NEW y,
           BlockOK(f, x), SameStack(x, y, f.base)
    PROVE  BlockOK(g, y)
<1>1. f.base \in Nat
  BY FrameTypes
<1> QED BY <1>1 DEF BlockOK, SameStack, SameCall

\* The objects of a call go with the part of the server's stack it owns.
LEMMA ObjectsKept ==
    ASSUME NEW f \in Frames, NEW g \in Frames, SameCall(f, g), NEW u \in Nat,
           NEW x \in Xacts, NEW y \in Xacts, NEW ob \in Objs, NEW oc \in Objs,
           ObjectsOK(f, u, x, ob), f.save <= u, SameStack(x, y, f.base + u - f.save),
           \A o \in Objects : \/ oc[o] = ob[o]
                              \/ o \notin OpenIn(ob, f.id) /\ o \notin OpenIn(oc, f.id)
    PROVE  ObjectsOK(g, u, y, oc)
<1>1. /\ f.save \in Nat /\ f.base \in Nat
      /\ g.id = f.id /\ g.save = f.save /\ g.base = f.base
  BY FrameTypes DEF SameCall
<1>2. /\ \A o \in OpenIn(ob, f.id) : o \in OpenIn(oc, f.id) /\ oc[o] = ob[o]
      /\ \A o \in OpenIn(oc, f.id) : o \in OpenIn(ob, f.id) /\ oc[o] = ob[o]
  BY DEF OpenIn
<1>3. ASSUME NEW o \in OpenIn(oc, f.id)
      PROVE  /\ f.base + 1 <= oc[o].level /\ oc[o].level <= f.base + u - f.save
             /\ y[oc[o].level].undo = oc[o].undo
  <2>1. /\ f.base + 1 <= ob[o].level /\ ob[o].level <= f.base + u - f.save
        /\ x[ob[o].level].undo = ob[o].undo
    BY <1>2 DEF ObjectsOK
  <2>2. ob[o].level \in Nat
    BY DEF Objs, ObjectStates, OpenIn
  <2>3. 1 <= ob[o].level
    BY <1>1, <2>1, <2>2
  <2>4. y[ob[o].level] = x[ob[o].level]
    BY <2>1, <2>2, <2>3 DEF SameStack
  <2> QED BY <1>2, <2>1, <2>4
<1>4. \A o, p \in OpenIn(oc, f.id) : oc[o].level = oc[p].level => o = p
  BY <1>2 DEF ObjectsOK
<1>5. \A i \in Nat : f.base + 1 <= i /\ i <= f.base + u - f.save =>
           \E o \in OpenIn(oc, f.id) : oc[o].level = i
  BY <1>2 DEF ObjectsOK
<1> QED BY <1>1, <1>3, <1>4, <1>5 DEF ObjectsOK

\* A frame is owed nothing more when what lies above it changes: stack, list
\* and objects may change beyond what the frame and those below it own.
LEMMA FrameKept ==
    ASSUME NEW f \in Frames, NEW u \in Nat,
           NEW x \in Xacts, NEW l \in Lists, NEW ob \in Objs,
           NEW y \in Xacts, NEW k \in Lists, NEW oc \in Objs,
           FrameOK(f, u, x, l, ob),
           Depth(f, u) <= Len(y),
           SameStack(x, y, Depth(f, u)),
           u <= Len(k),
           SameList(l, k, u),
           \A o \in Objects : \/ oc[o] = ob[o]
                              \/ o \notin OpenIn(ob, f.id) /\ o \notin OpenIn(oc, f.id)
    PROVE  FrameOK(f, u, y, k, oc)
<1>1. /\ f.save \in Nat /\ f.base \in Nat /\ f.save <= u /\ Inner(f) \in {0, 1}
      /\ Depth(f, u) \in Nat
  BY FrameTypes, SMTT(30) DEF FrameOK
<1>2. f.pc \in {"sql", "fail"} =>
        /\ y[Depth(f, u)].kind = "spi" /\ y[Depth(f, u)].call = f.id
        /\ f.oldowner = Depth(f, u) - 1
  <2> SUFFICES ASSUME f.pc \in {"sql", "fail"}
               PROVE  y[Depth(f, u)] = x[Depth(f, u)]
    BY DEF FrameOK
  <2>1. Depth(f, u) >= 1
    BY <1>1 DEF Depth, Inner
  <2> QED BY <1>1, <2>1 DEF SameStack
<1>3. \A p \in Nat : f.save + 1 <= p /\ p <= u => Entry(k, p) = f.base + (p - f.save) - 1
  <2> SUFFICES ASSUME NEW p \in Nat, f.save + 1 <= p, p <= u
               PROVE  Entry(k, p) = f.base + (p - f.save) - 1
    OBVIOUS
  <2>1. Entry(l, p) = f.base + (p - f.save) - 1
    BY DEF FrameOK
  <2> QED BY <1>1, <2>1 DEF SameList
<1>4. ASSUME ObjectsOK(f, u, x, ob)
      PROVE  ObjectsOK(f, u, y, oc)
  <2>1. f.base + u - f.save <= Depth(f, u) /\ f.base + u - f.save \in Int
    BY <1>1 DEF Depth
  <2>2. SameStack(x, y, f.base + u - f.save)
    BY <1>1, <2>1 DEF SameStack
  <2>3. SameCall(f, f)
    BY DEF SameCall
  <2> QED BY <1>1, <1>4, <2>2, <2>3, ObjectsKept
<1>5. BlockOK(f, y)
  <2>1. f.base <= Depth(f, u)
    BY <1>1, FrameTypes
  <2>2. SameStack(x, y, f.base) /\ SameCall(f, f)
    BY <1>1, <2>1 DEF SameStack, SameCall
  <2>3. BlockOK(f, x)
    BY DEF FrameOK
  <2> QED BY <2>2, <2>3, BlockKept
<1> QED BY <1>1, <1>2, <1>3, <1>4, <1>5 DEF FrameOK

-----------------------------------------------------------------------------
(* Stacks of frames *)

\* The stack is cut to n frames of which the last may go on elsewhere: all that
\* the others are owed stays as it was, so it is enough to look at the last.
LEMMA CutFrames ==
    ASSUME NEW s \in Stacks, NEW x \in Xacts, NEW l \in Lists, NEW ob \in Objs,
           NEW t \in Stacks, NEW y \in Xacts, NEW k \in Lists, NEW oc \in Objs,
           NEW n \in 1 .. Len(s), Len(t) = n,
           Nested(s, Len(l)), FramesOK(s, x, l, ob),
           SameFrames(s, t, n), SameCall(s[n], t[n]),
           FrameOK(t[n], Len(k), y, k, oc),
           SameStack(x, y, s[n].base), SameList(l, k, s[n].save), SameObjects(ob, oc, s[n].id)
    PROVE  Nested(t, Len(k)) /\ FramesOK(t, y, k, oc)
<1>1. Len(s) \in Nat /\ Len(l) \in Nat /\ Len(k) \in Nat /\ Len(y) \in Nat
  BY LenProperties DEF Stacks, Lists, Xacts
<1>2. /\ \A i \in 1 .. Len(s) : s[i] \in Frames
      /\ \A i \in 1 .. n : t[i] \in Frames
  BY DEF Stacks
<1>3. ASSUME NEW i \in 1 .. n
      PROVE  i \in 1 .. Len(s) /\ i \in Nat /\ SameCall(s[i], t[i])
  <2>1. CASE i = n
    BY <2>1
  <2>2. CASE i < n
    BY <1>1, <2>2 DEF SameFrames, SameCall
  <2> QED BY <1>1, <2>1, <2>2
<1>4. ASSUME NEW i \in 1 .. n, i < n
      PROVE  /\ Upper(t, Len(k), i) = s[i + 1].save
             /\ Upper(s, Len(l), i) = s[i + 1].save
             /\ t[i] = s[i]
             /\ s[i + 1].save \in Nat
             /\ SameCall(s[i + 1], t[i + 1])
  <2>1. i + 1 \in 1 .. n /\ i + 1 \in 1 .. Len(s) /\ i # Len(s) /\ i # Len(t)
    BY <1>1, <1>4
  <2>2. SameCall(s[i + 1], t[i + 1])
    BY <1>3, <2>1
  <2>3. t[i] = s[i]
    BY <1>4 DEF SameFrames
  <2>4. s[i + 1].save \in Nat
    BY <1>2, <2>1, Zenon DEF Frames
  <2> QED BY <2>1, <2>2, <2>3, <2>4 DEF Upper, SameCall
<1>5. Nested(t, Len(k))
  <2>2. ASSUME NEW i \in 1 .. n, NEW j \in 1 .. n, i < j
        PROVE  /\ t[i].id < t[j].id
               /\ Depth(t[i], Upper(t, Len(k), i)) <= t[j].base
               /\ Upper(t, Len(k), i) <= t[j].save
    <3>1. i \in 1 .. Len(s) /\ j \in 1 .. Len(s) /\ i < n
      BY <1>1, <2>2
    <3>2. /\ s[i].id < s[j].id
          /\ Depth(s[i], Upper(s, Len(l), i)) <= s[j].base
          /\ Upper(s, Len(l), i) <= s[j].save
      BY <2>2, <3>1 DEF Nested
    <3>3. SameCall(s[j], t[j])
      BY <1>3
    <3>4. t[i] = s[i] /\ Upper(t, Len(k), i) = Upper(s, Len(l), i)
      BY <1>4, <3>1
    <3> QED BY <3>2, <3>3, <3>4 DEF SameCall
  <2>3. ASSUME NEW i \in 1 .. n, i < n
        PROVE  /\ t[i].pc = "sql"
               /\ t[i + 1].base = Depth(t[i], t[i + 1].save)
                                    + Block(t[i + 1])
    <3>1. i \in 1 .. Len(s) /\ i < Len(s)
      BY <1>1, <2>3
    <3>2. /\ s[i].pc = "sql"
          /\ s[i + 1].base = Depth(s[i], s[i + 1].save)
                               + Block(s[i + 1])
      BY <3>1 DEF Nested
    <3> QED BY <1>4, <2>3, <3>2 DEF SameCall, Block
  <2>4. t[1].base = 0 /\ t[1].save = 0 /\ t[1].block = "plain"
    <3>1. s[1].base = 0 /\ s[1].save = 0 /\ s[1].block = "plain"
      BY <1>1 DEF Nested
    <3>2. SameCall(s[1], t[1])
      BY <1>1, <1>3
    <3> QED BY <3>1, <3>2 DEF SameCall
  <2> QED BY <2>2, <2>3, <2>4 DEF Nested
<1>6. ASSUME NEW i \in 1 .. n
      PROVE  FrameOK(t[i], Upper(t, Len(k), i), y, k, oc)
  <2>1. CASE i = n
    BY <2>1 DEF Upper
  <2>2. CASE i < n
    <3> DEFINE u == s[i + 1].save
    <3>1. FrameOK(s[i], u, x, l, ob)
      BY <1>3, <1>4, <2>2 DEF FramesOK
    <3>2. u \in Nat /\ s[i] \in Frames /\ u = Upper(t, Len(k), i) /\ t[i] = s[i]
      BY <1>2, <1>3, <1>4, <2>2
    <3>3. s[i].id < s[n].id /\ Depth(s[i], u) <= s[n].base /\ u <= s[n].save
      BY <1>3, <1>4, <2>2 DEF Nested
    <3> HIDE DEF u
    <3>4. s[n] \in Frames /\ t[n] \in Frames
      BY <1>2
    <3>5. /\ s[n].save \in Nat /\ s[n].base \in Nat /\ s[i].id \in Nat
          /\ s[n].id \in Nat
      BY <3>2, <3>4, FrameTypes, Zenon
    <3>6. Depth(s[i], u) \in Nat
      BY <3>1, <3>2, FrameTypes, Zenon DEF FrameOK
    <3>7. t[n].save <= Len(k) /\ Depth(t[n], Len(k)) <= Len(y)
      BY DEF FrameOK
    <3>8. t[n].base <= Depth(t[n], Len(k)) /\ Depth(t[n], Len(k)) \in Nat
      BY <1>1, <3>4, <3>7, FrameTypes, ZenonT(30)
    <3>9. Depth(s[i], u) <= Len(y) /\ u <= Len(k)
      <4>1. t[n].save = s[n].save /\ t[n].base = s[n].base
        BY Zenon DEF SameCall
      <4>2. u <= s[n].save /\ s[n].save <= Len(k)
        BY <3>3, <3>7, <4>1, Zenon
      <4>3. Depth(s[i], u) <= s[n].base /\ s[n].base <= Depth(t[n], Len(k))
        BY <3>3, <3>8, <4>1, Zenon
      <4>4. u <= Len(k)
        BY <1>1, <3>2, <3>5, <4>2
      <4>5. Depth(s[i], u) <= Len(y)
        BY <1>1, <3>5, <3>6, <3>7, <3>8, <4>3
      <4> QED BY <4>4, <4>5
    <3>10. SameStack(x, y, Depth(s[i], u)) /\ SameList(l, k, u)
      BY <3>2, <3>3, <3>5, <3>6, SMTT(30) DEF SameStack, SameList
    <3>11. \A o \in Objects : \/ oc[o] = ob[o]
                              \/ o \notin OpenIn(ob, s[i].id) /\ o \notin OpenIn(oc, s[i].id)
      BY <3>3, <3>5 DEF SameObjects
    <3>12. FrameOK(s[i], u, y, k, oc)
      BY <3>1, <3>2, <3>9, <3>10, <3>11, FrameKept, SMTT(30)
    <3> QED BY <3>2, <3>12
  <2> QED BY <2>1, <2>2
<1> QED BY <1>5, <1>6 DEF FramesOK

\* What the invariant says of the top frame.
LEMMA TopFacts ==
    ASSUME IInv, stack # <<>>
    PROVE  /\ Len(stack) \in Nat /\ Len(stack) \in 1 .. Len(stack)
           /\ stack \in Stacks /\ Top = stack[Len(stack)] /\ Top \in Frames
           /\ xact \in Xacts /\ explicit_subtransactions \in Lists /\ objs \in Objs
           /\ Len(xact) \in Nat /\ Len(explicit_subtransactions) \in Nat
           /\ effect \in Nat /\ calls \in Nat /\ calls <= MaxCalls
           /\ FrameOK(Top, Len(explicit_subtransactions), xact, explicit_subtransactions, objs)
           /\ Len(xact) = Depth(Top, Len(explicit_subtransactions))
           /\ owner = Len(xact)
           /\ Top.id <= calls
           /\ Top.save <= Len(explicit_subtransactions)
           /\ Top.base <= Len(xact)
<1>1. /\ stack \in Stacks /\ xact \in Xacts /\ explicit_subtransactions \in Lists
      /\ objs \in Objs /\ effect \in Nat /\ calls \in Nat /\ calls <= MaxCalls
  BY SubxAssumption DEF IInv, TypeOK, Stacks, Xacts, Lists, Objs
<1>2. /\ Len(stack) \in Nat /\ Len(xact) \in Nat /\ Len(explicit_subtransactions) \in Nat
      /\ Len(stack) # 0
  BY <1>1, EmptySeq, LenProperties DEF Stacks, Xacts, Lists
<1>3. Len(stack) \in 1 .. Len(stack)
  BY <1>2
<1>4. Top = stack[Len(stack)] /\ Top \in Frames
  BY <1>1, <1>3 DEF Top, TopOf, Stacks
<1>5. FrameOK(Top, Len(explicit_subtransactions), xact, explicit_subtransactions, objs)
  <2>1. Upper(stack, Len(explicit_subtransactions), Len(stack)) = Len(explicit_subtransactions)
    BY DEF Upper
  <2> QED BY <1>3, <1>4, <2>1 DEF IInv, FramesOK
<1>6. Len(xact) = Depth(Top, Len(explicit_subtransactions)) /\ owner = Len(xact)
  BY <1>2, <1>4 DEF IInv, TopOK
<1>7. Top.id <= calls
  BY <1>3, <1>4 DEF IInv, Numbered
<1>8. Top.save <= Len(explicit_subtransactions)
  BY <1>5 DEF FrameOK
<1>9. Top.base <= Len(xact)
  BY <1>2, <1>4, <1>6, <1>8, FrameTypes
<1> QED BY <1>1, <1>2, <1>3, <1>4, <1>5, <1>6, <1>7, <1>8, <1>9

\* A step that leaves n frames, and the n-th in order, keeps the invariant.
LEMMA Restack ==
    ASSUME IInv, NEW n \in 1 .. Len(stack), TypeOK', calls' = calls, Len(stack') = n,
           SameFrames(stack, stack', n), SameCall(stack[n], stack'[n]),
           FrameOK(stack'[n], Len(explicit_subtransactions'), xact',
                   explicit_subtransactions', objs'),
           Len(xact') = Depth(stack'[n], Len(explicit_subtransactions')),
           owner' = Len(xact'),
           SameStack(xact, xact', stack[n].base),
           SameList(explicit_subtransactions, explicit_subtransactions', stack[n].save),
           SameObjects(objs, objs', stack[n].id),
           \A o \in Objects : objs'[o].run <= calls
    PROVE  IInv'
<1>1. /\ stack \in Stacks /\ stack' \in Stacks
      /\ explicit_subtransactions \in Lists /\ explicit_subtransactions' \in Lists
      /\ xact \in Xacts /\ xact' \in Xacts /\ objs \in Objs /\ objs' \in Objs
  BY SMTT(30) DEF IInv, TypeOK, Stacks, Lists, Xacts, Objs
<1>2. /\ Nested(stack, Len(explicit_subtransactions))
      /\ FramesOK(stack, xact, explicit_subtransactions, objs)
      /\ Numbered(stack, calls, objs)
  BY SMTT(30) DEF IInv
<1>3. /\ Nested(stack', Len(explicit_subtransactions'))
      /\ FramesOK(stack', xact', explicit_subtransactions', objs')
  BY <1>1, <1>2, CutFrames
<1>4. Numbered(stack', calls', objs')
  <2>0. Len(stack) \in Nat
    BY <1>1, LenProperties DEF Stacks
  <2> SUFFICES ASSUME NEW i \in 1 .. n
               PROVE  stack'[i].id <= calls
    BY DEF Numbered
  <2>1. stack[i].id <= calls
    BY <1>2, <2>0, SMTT(30) DEF Numbered
  <2>2. CASE i = n
    BY <2>1, <2>2 DEF SameCall
  <2>3. CASE i < n
    BY <2>1, <2>3 DEF SameFrames
  <2> QED BY <2>2, <2>3
<1>5. TopOK(stack', xact', explicit_subtransactions')
  BY DEF TopOK
<1> QED BY <1>3, <1>4, <1>5 DEF IInv

-----------------------------------------------------------------------------
(* Stacks and lists of subtransactions *)

\* The top frame is replaced.
LEMMA SetTopFacts ==
    ASSUME NEW s \in Stacks, s # <<>>, NEW g \in Frames, NEW t,
           t = [s EXCEPT ![Len(s)] = g]
    PROVE  t \in Stacks /\ Len(t) = Len(s) /\ t[Len(s)] = g /\ SameFrames(s, t, Len(s))
<1>1. Len(s) \in Nat /\ Len(s) > 0
  BY LenProperties, EmptySeq DEF Stacks
<1> QED BY <1>1 DEF Stacks, SameFrames

\* A stack is cut to its first j levels.
LEMMA PrefixFacts ==
    ASSUME NEW S, NEW x \in Seq(S), NEW j \in Nat, j <= Len(x)
    PROVE  LET y == SubSeq(x, 1, j)
           IN  /\ y \in Seq(S) /\ Len(y) = j
               /\ \A b \in Nat : b <= j => SameStack(x, y, b)
<1>1. Len(x) \in Nat
  BY LenProperties
<1>2. /\ SubSeq(x, 1, j) \in Seq(S)
      /\ Len(SubSeq(x, 1, j)) = IF 1 <= j THEN j - 1 + 1 ELSE 0
      /\ \A i \in 1 .. j - 1 + 1 : SubSeq(x, 1, j)[i] = x[1 + i - 1]
  BY <1>1, SubSeqProperties
<1> QED BY <1>1, <1>2 DEF SameStack

\* What is at a level of the server's stack.
LEMMA LevelFacts ==
    ASSUME NEW x \in Xacts, NEW i \in 1 .. Len(x)
    PROVE  x[i] \in Levels /\ x[i].undo \in Nat
<1>1. x[i] \in Levels
  BY DEF Xacts
<1> QED BY <1>1 DEF Levels

\* A level is added.
LEMMA AppendFacts ==
    ASSUME NEW S, NEW x \in Seq(S), NEW e \in S
    PROVE  LET y == Append(x, e)
           IN  /\ y \in Seq(S) /\ Len(y) = Len(x) + 1 /\ y[Len(x) + 1] = e
               /\ \A b \in Nat : b <= Len(x) => SameStack(x, y, b)
<1>1. Len(x) \in Nat
  BY LenProperties
<1> QED BY <1>1, AppendProperties DEF SameStack

\* The d entries made last are dropped from the list.
LEMMA SuffixFacts ==
    ASSUME NEW l \in Lists, NEW d \in Nat, d <= Len(l)
    PROVE  LET k == SubSeq(l, d + 1, Len(l))
           IN  /\ k \in Lists /\ Len(k) = Len(l) - d
               /\ \A b \in Nat : b <= Len(l) - d => SameList(l, k, b)
<1> DEFINE k == SubSeq(l, d + 1, Len(l))
<1>1. Len(l) \in Nat /\ l \in Seq(Nat)
  BY LenProperties DEF Lists
<1>2. /\ k \in Seq(Nat) /\ Len(k) = Len(l) - d
      /\ \A i \in 1 .. Len(l) - d : k[i] = l[d + i]
  BY <1>1
<1> HIDE DEF k
<1>3. ASSUME NEW p \in Nat, 1 <= p, p <= Len(l) - d
      PROVE  Entry(k, p) = Entry(l, p)
  <2> DEFINE q == Len(l) - d - p + 1
  <2>1. q \in 1 .. Len(l) - d /\ q = Len(k) - p + 1 /\ d + q = Len(l) - p + 1
    BY <1>1, <1>2, <1>3
  <2> HIDE DEF q
  <2>2. k[q] = l[d + q]
    BY <1>2, <2>1, Zenon
  <2> QED BY <2>1, <2>2, SMTT(30) DEF Entry
<1>4. \A b \in Nat : b <= Len(l) - d => SameList(l, k, b)
  BY <1>1, <1>3 DEF SameList
<1> QED BY <1>2, <1>4 DEF k, Lists

\* Leaving a subtransaction drops the entry made last.
LEMMA TailFacts ==
    ASSUME NEW l \in Lists, l # <<>>
    PROVE  /\ Tail(l) \in Lists /\ Len(Tail(l)) = Len(l) - 1
           /\ Head(l) = Entry(l, Len(l))
           /\ \A b \in Nat : b <= Len(l) - 1 => SameList(l, Tail(l), b)
<1>1. Len(l) \in Nat /\ l \in Seq(Nat) /\ Len(l) >= 1
  BY LenProperties, EmptySeq DEF Lists
<1>2. /\ Tail(l) \in Seq(Nat) /\ Len(Tail(l)) = Len(l) - 1
      /\ \A i \in 1 .. Len(l) - 1 : Tail(l)[i] = l[i + 1]
  BY <1>1, HeadTailProperties
<1>3. Head(l) = Entry(l, Len(l))
  BY <1>1 DEF Entry
<1>4. ASSUME NEW p \in Nat, 1 <= p, p <= Len(l) - 1
      PROVE  Entry(Tail(l), p) = Entry(l, p)
  <2>1. /\ Len(Tail(l)) - p + 1 \in 1 .. Len(l) - 1
        /\ (Len(Tail(l)) - p + 1) + 1 = Len(l) - p + 1
    BY <1>1, <1>2, <1>4
  <2> QED BY <1>2, <2>1 DEF Entry
<1>5. \A b \in Nat : b <= Len(l) - 1 => SameList(l, Tail(l), b)
  BY <1>1, <1>4 DEF SameList
<1> QED BY <1>2, <1>3, <1>5 DEF Lists

\* Entering one adds an entry.
LEMMA ConsFacts ==
    ASSUME NEW l \in Lists, NEW v \in Nat
    PROVE  LET k == <<v>> \o l
           IN  /\ k \in Lists /\ Len(k) = Len(l) + 1 /\ Entry(k, Len(l) + 1) = v
               /\ \A b \in Nat : b <= Len(l) => SameList(l, k, b)
<1> DEFINE k == <<v>> \o l
<1>1. Len(l) \in Nat /\ l \in Seq(Nat) /\ <<v>> \in Seq(Nat) /\ Len(<<v>>) = 1
  BY LenProperties DEF Lists
<1>2. /\ k \in Seq(Nat) /\ Len(k) = Len(l) + 1 /\ k[1] = v
      /\ \A i \in 1 .. Len(l) : k[i + 1] = l[i]
  BY <1>1, ConcatProperties
<1> HIDE DEF k
<1>3. Entry(k, Len(l) + 1) = v
  BY <1>1, <1>2 DEF Entry
<1>4. ASSUME NEW p \in Nat, 1 <= p, p <= Len(l)
      PROVE  Entry(k, p) = Entry(l, p)
  <2> DEFINE q == Len(l) - p + 1
  <2>1. q \in 1 .. Len(l) /\ q = Len(l) - p + 1 /\ q + 1 = Len(k) - p + 1
    BY <1>1, <1>2, <1>4
  <2> HIDE DEF q
  <2>2. k[q + 1] = l[q]
    BY <1>2, <2>1, Zenon
  <2> QED BY <2>1, <2>2 DEF Entry
<1>5. \A b \in Nat : b <= Len(l) => SameList(l, k, b)
  BY <1>1, <1>4 DEF SameList
<1> QED BY <1>2, <1>3, <1>5 DEF k, Lists

\* A frame that moves stays the frame of its call.
LEMMA MovedFacts ==
    ASSUME NEW f \in Frames, NEW pc \in PCs, NEW oldowner \in Nat
    PROVE  LET g == Moved(f, pc, oldowner)
           IN  g \in Frames /\ SameCall(f, g) /\ g.pc = pc /\ g.oldowner = oldowner
BY DEF Moved, Frames, SameCall

\* The top frame goes on elsewhere.
LEMMA GotoFacts ==
    ASSUME IInv, stack # <<>>, NEW pc \in PCs, NEW oldowner \in Nat,
           stack' = [stack EXCEPT ![Len(stack)] = Moved(Top, pc, oldowner)]
    PROVE  /\ stack' \in Stacks /\ Len(stack') = Len(stack)
           /\ SameFrames(stack, stack', Len(stack))
           /\ stack'[Len(stack)] \in Frames /\ SameCall(Top, stack'[Len(stack)])
           /\ stack'[Len(stack)].pc = pc /\ stack'[Len(stack)].oldowner = oldowner
<1> DEFINE g == Moved(Top, pc, oldowner)
<1>1. stack \in Stacks /\ Top \in Frames
  BY TopFacts
<1>2. g \in Frames /\ SameCall(Top, g) /\ g.pc = pc /\ g.oldowner = oldowner
  BY <1>1, MovedFacts
<1>3. stack' = [stack EXCEPT ![Len(stack)] = g]
  OBVIOUS
<1> HIDE DEF g
<1>4. /\ stack' \in Stacks /\ Len(stack') = Len(stack) /\ stack'[Len(stack)] = g
      /\ SameFrames(stack, stack', Len(stack))
  BY <1>1, <1>2, <1>3, SetTopFacts, Zenon
<1> QED BY <1>2, <1>4

\* A frame that leaves with an error is owed its place in the stack and the
\* list, whatever becomes of its objects.
LEMMA ErrorFrame ==
    ASSUME NEW f \in Frames, NEW g \in Frames, SameCall(f, g), g.pc = "error",
           NEW u \in Nat, NEW x, NEW y, NEW l, NEW ob, NEW oc,
           FrameOK(f, u, x, l, ob), f.base + u - f.save <= Len(y), SameStack(x, y, f.base)
    PROVE  FrameOK(g, u, y, l, oc) /\ Depth(g, u) = f.base + u - f.save
<1>1. /\ f.save \in Nat /\ f.base \in Nat
      /\ g.id = f.id /\ g.save = f.save /\ g.base = f.base
  BY FrameTypes DEF SameCall
<1>2. Depth(g, u) = f.base + u - f.save
  BY <1>1, SMTT(30) DEF Depth, Inner
<1>3. BlockOK(g, y)
  BY BlockKept DEF FrameOK
<1> QED BY <1>1, <1>2, <1>3 DEF FrameOK

\* A step to "error" with no change of the list keeps the invariant.
LEMMA ToError ==
    ASSUME IInv, stack # <<>>, Goto("error"), calls' = calls,
           explicit_subtransactions' = explicit_subtransactions,
           xact' \in Xacts, objs' \in Objs, effect' \in Nat,
           Len(xact') = Top.base + Len(explicit_subtransactions) - Top.save,
           SameStack(xact, xact', Top.base), owner' = Len(xact'),
           SameObjects(objs, objs', Top.id), \A o \in Objects : objs'[o].run <= calls
    PROVE  IInv'
<1> DEFINE n == Len(stack)
<1>1. /\ n \in Nat /\ n > 0 /\ n \in 1 .. Len(stack) /\ stack \in Stacks
      /\ Top = stack[n] /\ Top \in Frames
      /\ xact \in Xacts /\ explicit_subtransactions \in Lists
      /\ Len(explicit_subtransactions) \in Nat
      /\ FrameOK(Top, Len(explicit_subtransactions), xact, explicit_subtransactions, objs)
  BY TopFacts
<1>2. /\ stack' \in Stacks /\ Len(stack') = n /\ SameFrames(stack, stack', n)
      /\ stack'[n] \in Frames /\ SameCall(stack[n], stack'[n]) /\ stack'[n].pc = "error"
  <2>1. "error" \in PCs /\ Top.oldowner \in Nat
    BY <1>1, FrameTypes, Zenon DEF PCs
  <2>2. stack' = [stack EXCEPT ![Len(stack)] = Moved(Top, "error", Top.oldowner)]
    BY DEF Goto
  <2> QED BY <1>1, <2>1, <2>2, GotoFacts, Zenon
<1> HIDE DEF n
<1>3. Len(xact') \in Nat
  BY LenProperties DEF Xacts
<1>4. /\ FrameOK(stack'[n], Len(explicit_subtransactions), xact', explicit_subtransactions, objs')
      /\ Depth(stack'[n], Len(explicit_subtransactions)) = Len(xact')
  BY <1>1, <1>2, <1>3, ErrorFrame, SMTT(30)
<1>5. TypeOK'
  <2>1. TypeOK
    BY DEF IInv
  <2> QED BY <1>1, <1>2, <1>3, <2>1, SMTT(30) DEF TypeOK, Stacks, Xacts, Lists, Objs
<1>6. SameList(explicit_subtransactions, explicit_subtransactions', stack[n].save)
  BY SMTT(30) DEF SameList
<1> QED BY <1>1, <1>2, <1>4, <1>5, <1>6, Restack, SMTT(30)

\* A step of the top frame that leaves it in order keeps the invariant.
LEMMA TopStep ==
    ASSUME IInv, stack # <<>>, calls' = calls, effect' \in Nat,
           stack' \in Stacks, Len(stack') = Len(stack),
           SameFrames(stack, stack', Len(stack)), SameCall(Top, stack'[Len(stack)]),
           xact' \in Xacts, explicit_subtransactions' \in Lists, objs' \in Objs,
           FrameOK(stack'[Len(stack)], Len(explicit_subtransactions'), xact',
                   explicit_subtransactions', objs'),
           Len(xact') = Depth(stack'[Len(stack)], Len(explicit_subtransactions')),
           owner' = Len(xact'),
           SameStack(xact, xact', Top.base),
           SameList(explicit_subtransactions, explicit_subtransactions', Top.save),
           SameObjects(objs, objs', Top.id), \A o \in Objects : objs'[o].run <= calls
    PROVE  IInv'
<1>1. Top = stack[Len(stack)] /\ Len(stack) \in 1 .. Len(stack)
  BY TopFacts
<1>2. TypeOK'
  <2>1. TypeOK
    BY SMTT(30) DEF IInv
  <2>2. Len(xact') \in Nat
    BY LenProperties DEF Xacts
  <2> QED BY <2>1, <2>2, SMTT(30) DEF TypeOK, Stacks, Xacts, Lists, Objs
<1> QED BY <1>1, <1>2, Restack, SMTT(30)

\* What no step of the top frame but its own changes.
LEMMA NothingElse ==
    ASSUME IInv
    PROVE  /\ \A o \in Objects : objs[o].run <= calls
           /\ \A b : /\ SameStack(xact, xact, b)
                     /\ SameList(explicit_subtransactions, explicit_subtransactions, b)
                     /\ SameObjects(objs, objs, b)
BY DEF IInv, Numbered, SameStack, SameList, SameObjects
=============================================================================
