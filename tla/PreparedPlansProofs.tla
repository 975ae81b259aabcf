------------------------- MODULE PreparedPlansProofs -------------------------
(***************************************************************************)
(* Proofs about the table of prepared plans, for any number of slots and   *)
(* of addresses.                                                           *)
(***************************************************************************)
EXTENDS PreparedPlans, FiniteSetTheorems, TLAPS

-----------------------------------------------------------------------------
(* The inductive invariant *)

Tables == [pplan : [Slots -> Addresses \cup {0}],
           next : [Slots -> Slots \cup {-1}],
           head : Slots \cup {-1}]

Types ==
    /\ table \in Tables
    /\ connected \in {"open", "closed"}
    /\ heap \in [Addresses -> {"free", "plan", "lost"}]
    /\ plans \subseteq Addresses
    /\ abandoned \subseteq Addresses

\* The free slots of t are the elements of s, each once.
Lists(t, n, s) ==
    /\ \A i, j \in 1 .. n : s[i] = s[j] => i = j
    /\ {s[i] : i \in 1 .. n} = Slots \ InUse(t)

\* FreeListOK, of any table.
FreeList(t) ==
    \E n \in 0 .. MAX_PPLAN : \E s \in [1 .. n -> Slots] : Chained(t, n, s) /\ Lists(t, n, s)

\* While the connection is open, each plan is in one slot, and the slots hold
\* nothing but plans that the client has or has given up.
OneSlotEach ==
    /\ \A i, j \in InUse(table) : table.pplan[i] = table.pplan[j] => i = j
    /\ \A i \in InUse(table) : table.pplan[i] \in plans \cup abandoned
    /\ \A i \in InUse(table) : heap[table.pplan[i]] = "plan"
    /\ \A a \in Addresses : heap[a] = "plan" => Holding(table, a) # {}
    /\ \A a \in plans : heap[a] = "plan"

\* A closed connection has left nothing.
NothingLeft == plans = {} /\ \A a \in Addresses : heap[a] # "plan"

IInv ==
    /\ Types
    /\ FreeList(table)
    /\ connected = "open" => OneSlotEach
    /\ connected = "closed" => NothingLeft

-----------------------------------------------------------------------------
(* The table *)

\* A new table is empty, and all its slots are on the free list.
LEMMA InitFacts ==
    /\ init_pplan_slots \in Tables
    /\ FreeList(init_pplan_slots)
    /\ InUse(init_pplan_slots) = {}
<1> DEFINE t == init_pplan_slots
           s == [i \in 1 .. MAX_PPLAN |-> i - 1]
<1>0. MAX_PPLAN \in Nat /\ MAX_PPLAN > 0
  BY PlanAssumption
<1>1. /\ t.pplan = [i \in Slots |-> 0] /\ t.head = 0
      /\ t.next = [i \in Slots |-> IF i = MAX_PPLAN - 1 THEN -1 ELSE i + 1]
  BY DEF init_pplan_slots, Table
<1>2. t \in Tables
  <2>1. [i \in Slots |-> 0] \in [Slots -> Addresses \cup {0}]
    OBVIOUS
  <2>2. [i \in Slots |-> IF i = MAX_PPLAN - 1 THEN -1 ELSE i + 1] \in [Slots -> Slots \cup {-1}]
    BY <1>0 DEF Slots
  <2>3. 0 \in Slots \cup {-1}
    BY <1>0 DEF Slots
  <2> QED BY <2>1, <2>2, <2>3 DEF init_pplan_slots, Table, Tables
<1> HIDE DEF t
<1>3. InUse(t) = {}
  BY <1>1 DEF InUse
<1>4. s \in [1 .. MAX_PPLAN -> Slots]
  BY <1>0 DEF Slots
<1>5. Chained(t, MAX_PPLAN, s)
  <2>1. t.head = s[1] /\ MAX_PPLAN # 0
    BY <1>0, <1>1
  <2>2. ASSUME NEW i \in 1 .. MAX_PPLAN
        PROVE  t.next[s[i]] = IF i = MAX_PPLAN THEN -1 ELSE s[i + 1]
    <3>1. s[i] = i - 1 /\ i - 1 \in Slots
      BY <1>0 DEF Slots
    <3>2. t.next[i - 1] = IF i - 1 = MAX_PPLAN - 1 THEN -1 ELSE (i - 1) + 1
      BY <1>1, <3>1
    <3>3. i # MAX_PPLAN => s[i + 1] = (i - 1) + 1
      BY <1>0
    <3>4. i = MAX_PPLAN <=> i - 1 = MAX_PPLAN - 1
      BY <1>0
    <3> HIDE DEF s
    <3> QED BY <3>1, <3>2, <3>3, <3>4
  <2> HIDE DEF s
  <2> QED BY <2>1, <2>2 DEF Chained
<1>6. Lists(t, MAX_PPLAN, s)
  <2>1. \A i, j \in 1 .. MAX_PPLAN : s[i] = s[j] => i = j
    BY <1>0
  <2>2. ASSUME NEW x \in Slots
        PROVE  \E i \in 1 .. MAX_PPLAN : s[i] = x
    <3>1. x + 1 \in 1 .. MAX_PPLAN /\ s[x + 1] = x
      BY <1>0 DEF Slots
    <3> QED BY <3>1
  <2>3. {s[i] : i \in 1 .. MAX_PPLAN} = Slots
    BY <1>4, <2>2
  <2> QED BY <1>3, <2>1, <2>3 DEF Lists
<1>7. MAX_PPLAN \in 0 .. MAX_PPLAN
  BY <1>0
<1>8. FreeList(t)
  <2> HIDE DEF s
  <2> QED BY <1>4, <1>5, <1>6, <1>7 DEF FreeList
<1> QED BY <1>2, <1>3, <1>8 DEF t

\* insert_pplan takes a free slot for the plan.
LEMMA InsertFacts ==
    ASSUME NEW t \in Tables, FreeList(t), t.head >= 0, NEW a \in Addresses
    PROVE  LET u == insert_pplan(t, a)
           IN  /\ u \in Tables
               /\ FreeList(u)
               /\ t.head \in Slots \ InUse(t)
               /\ u.pplan = [t.pplan EXCEPT ![t.head] = a]
               /\ InUse(u) = InUse(t) \cup {t.head}
<1> DEFINE u == insert_pplan(t, a)
<1>0. /\ t.pplan \in [Slots -> Addresses \cup {0}] /\ t.next \in [Slots -> Slots \cup {-1}]
      /\ t.head \in Slots \cup {-1}
  BY DEF Tables
<1>1. PICK n \in 0 .. MAX_PPLAN : \E s \in [1 .. n -> Slots] : Chained(t, n, s) /\ Lists(t, n, s)
  BY DEF FreeList
<1>2. PICK s \in [1 .. n -> Slots] : Chained(t, n, s) /\ Lists(t, n, s)
  BY <1>1
<1>3. n # 0 /\ n \in Nat /\ n <= MAX_PPLAN /\ MAX_PPLAN \in Nat
  BY <1>2, PlanAssumption DEF Chained
<1>4. t.head = s[1] /\ 1 \in 1 .. n
  BY <1>2, <1>3 DEF Chained
<1>5. t.head \in Slots \ InUse(t)
  BY <1>2, <1>4 DEF Lists
<1>6. a # 0 /\ a \in Addresses
  BY PlanAssumption
<1>7. /\ u.pplan = [t.pplan EXCEPT ![t.head] = a] /\ u.next = t.next
      /\ u.head = t.next[t.head]
      /\ u = [pplan |-> u.pplan, next |-> u.next, head |-> u.head]
  BY DEF insert_pplan, Table
<1> HIDE DEF u
<1>8. u \in Tables
  <2>1. u.pplan \in [Slots -> Addresses \cup {0}]
    BY <1>0, <1>7
  <2>2. u.next \in [Slots -> Slots \cup {-1}] /\ u.head \in Slots \cup {-1}
    BY <1>0, <1>5, <1>7
  <2> QED BY <1>7, <2>1, <2>2 DEF Tables
<1>9. InUse(u) = InUse(t) \cup {t.head}
  <2>1. \A x \in Slots : u.pplan[x] = IF x = t.head THEN a ELSE t.pplan[x]
    BY <1>0, <1>7
  <2> QED BY <1>5, <1>6, <2>1 DEF InUse
<1> DEFINE r == [i \in 1 .. (n - 1) |-> s[i + 1]]
<1>10. /\ n - 1 \in 0 .. MAX_PPLAN
       /\ \A i \in 1 .. (n - 1) : i + 1 \in 1 .. n /\ r[i] = s[i + 1] /\ i + 1 # 1
  BY <1>3
<1>11. r \in [1 .. (n - 1) -> Slots]
  BY <1>10
<1> HIDE DEF r
<1>12. Chained(u, n - 1, r)
  <2>1. u.head = IF n = 1 THEN -1 ELSE s[2]
    BY <1>2, <1>4, <1>7, <1>3 DEF Chained
  <2>2. n # 1 => 1 \in 1 .. (n - 1) /\ r[1] = s[2]
    BY <1>3, <1>10
  <2>3. u.head = IF n - 1 = 0 THEN -1 ELSE r[1]
    BY <1>3, <2>1, <2>2
  <2>4. ASSUME NEW i \in 1 .. (n - 1)
        PROVE  u.next[r[i]] = IF i = n - 1 THEN -1 ELSE r[i + 1]
    <3>1. t.next[s[i + 1]] = IF i + 1 = n THEN -1 ELSE s[(i + 1) + 1]
      BY <1>2, <1>10 DEF Chained
    <3>2. i # n - 1 => i + 1 \in 1 .. (n - 1)
      BY <1>3
    <3>3. i # n - 1 => r[i + 1] = s[(i + 1) + 1]
      BY <1>10, <3>2
    <3>4. i + 1 = n <=> i = n - 1
      BY <1>3
    <3> QED BY <1>7, <1>10, <3>1, <3>3, <3>4
  <2> QED BY <2>3, <2>4 DEF Chained
<1>13. Lists(u, n - 1, r)
  <2>1. ASSUME NEW i \in 1 .. (n - 1), NEW j \in 1 .. (n - 1), r[i] = r[j]
        PROVE  i = j
    <3>1. i + 1 = j + 1
      BY <1>2, <1>10, <2>1 DEF Lists
    <3> QED BY <3>1, <1>3
  <2>2. ASSUME NEW x \in Slots \ InUse(u)
        PROVE  \E i \in 1 .. (n - 1) : r[i] = x
    <3>1. PICK i \in 1 .. n : s[i] = x
      BY <1>2, <1>9 DEF Lists
    <3>2. i # 1
      BY <1>4, <1>9, <3>1
    <3>3. i - 1 \in 1 .. (n - 1) /\ (i - 1) + 1 = i
      BY <1>3, <3>2
    <3> QED BY <1>10, <3>1, <3>3
  <2>3. ASSUME NEW i \in 1 .. (n - 1)
        PROVE  r[i] \in Slots \ InUse(u)
    <3>1. r[i] = s[i + 1] /\ i + 1 \in 1 .. n /\ i + 1 # 1
      BY <1>10
    <3>2. s[i + 1] \in Slots \ InUse(t)
      BY <1>2, <3>1 DEF Lists
    <3>3. s[i + 1] # s[1]
      BY <1>2, <1>4, <3>1 DEF Lists
    <3> QED BY <1>4, <1>9, <3>1, <3>2, <3>3
  <2> QED BY <2>1, <2>2, <2>3 DEF Lists
<1>14. FreeList(u)
  BY <1>10, <1>11, <1>12, <1>13 DEF FreeList
<1> QED BY <1>5, <1>7, <1>8, <1>9, <1>14 DEF u

\* A list of different slots is no longer than the table.
LEMMA NoLonger ==
    ASSUME NEW n \in Nat, NEW s \in [1 .. n -> Slots],
           \A i, j \in 1 .. n : s[i] = s[j] => i = j
    PROVE  n <= MAX_PPLAN
<1>0. MAX_PPLAN \in Nat /\ MAX_PPLAN > 0
  BY PlanAssumption
<1>1. IsFiniteSet(Slots) /\ Cardinality(Slots) = MAX_PPLAN
  <2>1. /\ IsFiniteSet(0 .. (MAX_PPLAN - 1))
        /\ Cardinality(0 .. (MAX_PPLAN - 1)) =
             IF 0 > MAX_PPLAN - 1 THEN 0 ELSE (MAX_PPLAN - 1) - 0 + 1
    BY <1>0, FS_Interval
  <2> QED BY <1>0, <2>1 DEF Slots
<1>2. IsFiniteSet(1 .. n) /\ Cardinality(1 .. n) = IF 1 > n THEN 0 ELSE n - 1 + 1
  BY FS_Interval
<1>3. Cardinality(1 .. n) = n
  BY <1>2
<1>4. ~(Cardinality(Slots) < Cardinality(1 .. n))
  BY <1>1, <1>2, FS_PigeonHole
<1> QED BY <1>0, <1>1, <1>3, <1>4

\* Freeing a slot puts it on the free list and touches no other.
LEMMA FreeFacts ==
    ASSUME NEW t \in Tables, FreeList(t), NEW x \in InUse(t)
    PROVE  LET u == FreeSlot(t, x)
           IN  /\ u \in Tables
               /\ FreeList(u)
               /\ InUse(u) = InUse(t) \ {x}
               /\ \A y \in InUse(u) : u.pplan[y] = t.pplan[y]
<1> DEFINE u == FreeSlot(t, x)
<1>0. /\ t.pplan \in [Slots -> Addresses \cup {0}] /\ t.next \in [Slots -> Slots \cup {-1}]
      /\ t.head \in Slots \cup {-1} /\ x \in Slots
  BY DEF Tables, InUse
<1>1. PICK n \in 0 .. MAX_PPLAN : \E s \in [1 .. n -> Slots] : Chained(t, n, s) /\ Lists(t, n, s)
  BY DEF FreeList
<1>2. PICK s \in [1 .. n -> Slots] : Chained(t, n, s) /\ Lists(t, n, s)
  BY <1>1
<1>3. n \in Nat /\ MAX_PPLAN \in Nat
  BY PlanAssumption
<1>4. /\ u.pplan = [t.pplan EXCEPT ![x] = 0] /\ u.next = [t.next EXCEPT ![x] = t.head]
      /\ u.head = x
      /\ u = [pplan |-> u.pplan, next |-> u.next, head |-> u.head]
  BY DEF FreeSlot, Table
<1> HIDE DEF u
<1>5. u \in Tables
  <2>1. u.pplan \in [Slots -> Addresses \cup {0}]
    BY <1>0, <1>4
  <2>2. u.next \in [Slots -> Slots \cup {-1}] /\ u.head \in Slots \cup {-1}
    BY <1>0, <1>4
  <2> QED BY <1>4, <2>1, <2>2 DEF Tables
<1>6. \A y \in Slots : /\ u.pplan[y] = IF y = x THEN 0 ELSE t.pplan[y]
                       /\ u.next[y] = IF y = x THEN t.head ELSE t.next[y]
  BY <1>0, <1>4
<1>7. InUse(u) = InUse(t) \ {x} /\ \A y \in InUse(u) : u.pplan[y] = t.pplan[y]
  BY <1>6 DEF InUse
<1> DEFINE r == [i \in 1 .. (n + 1) |-> IF i = 1 THEN x ELSE s[i - 1]]
<1>8. /\ r \in [1 .. (n + 1) -> Slots] /\ 1 \in 1 .. (n + 1) /\ r[1] = x
      /\ \A i \in 1 .. (n + 1) : i # 1 => i - 1 \in 1 .. n /\ r[i] = s[i - 1]
  BY <1>0, <1>3
<1> HIDE DEF r
<1>9. \A i \in 1 .. n : s[i] \in Slots \ InUse(t)
  BY <1>2 DEF Lists
<1>10. \A i \in 1 .. (n + 1) : i # 1 => r[i] # x
  BY <1>8, <1>9
<1>11. Lists(u, n + 1, r)
  <2>1. ASSUME NEW i \in 1 .. (n + 1), NEW j \in 1 .. (n + 1), r[i] = r[j]
        PROVE  i = j
    <3>1. CASE i = 1 \/ j = 1
      BY <1>8, <1>10, <2>1, <3>1
    <3>2. CASE i # 1 /\ j # 1
      <4>1. i - 1 = j - 1
        BY <1>2, <1>8, <2>1, <3>2 DEF Lists
      <4> QED BY <1>3, <4>1
    <3> QED BY <3>1, <3>2
  <2>2. ASSUME NEW y \in Slots \ InUse(u)
        PROVE  \E i \in 1 .. (n + 1) : r[i] = y
    <3>1. CASE y = x
      BY <1>8, <3>1
    <3>2. CASE y # x
      <4>1. PICK i \in 1 .. n : s[i] = y
        BY <1>2, <1>7, <3>2 DEF Lists
      <4>2. i + 1 \in 1 .. (n + 1) /\ i + 1 # 1 /\ (i + 1) - 1 = i
        BY <1>3
      <4> QED BY <1>8, <4>1, <4>2
    <3> QED BY <3>1, <3>2
  <2>3. ASSUME NEW i \in 1 .. (n + 1)
        PROVE  r[i] \in Slots \ InUse(u)
    BY <1>0, <1>7, <1>8, <1>9
  <2> QED BY <2>1, <2>2, <2>3 DEF Lists
<1>12. n + 1 \in 0 .. MAX_PPLAN
  <2>1. n + 1 \in Nat
    BY <1>3
  <2>2. n + 1 <= MAX_PPLAN
    BY <1>8, <1>11, <2>1, NoLonger DEF Lists
  <2> QED BY <1>3, <2>1, <2>2
<1>13. Chained(u, n + 1, r)
  <2>1. u.head = r[1] /\ n + 1 # 0
    BY <1>3, <1>4, <1>8
  <2>2. ASSUME NEW i \in 1 .. (n + 1)
        PROVE  u.next[r[i]] = IF i = n + 1 THEN -1 ELSE r[i + 1]
    <3>1. CASE i = 1
      <4>1. u.next[r[i]] = t.head
        BY <1>0, <1>6, <1>8, <3>1
      <4>2. t.head = IF n = 0 THEN -1 ELSE s[1]
        BY <1>2 DEF Chained
      <4>3. n # 0 => 2 \in 1 .. (n + 1) /\ r[2] = s[1]
        BY <1>3, <1>8
      <4> QED BY <1>3, <3>1, <4>1, <4>2, <4>3
    <3>2. CASE i # 1
      <4>1. r[i] = s[i - 1] /\ i - 1 \in 1 .. n
        BY <1>8, <3>2
      <4>2. u.next[r[i]] = t.next[s[i - 1]]
        BY <1>6, <1>8, <1>10, <3>2, <4>1
      <4>3. t.next[s[i - 1]] = IF i - 1 = n THEN -1 ELSE s[(i - 1) + 1]
        BY <1>2, <4>1 DEF Chained
      <4>4. i # n + 1 => i + 1 \in 1 .. (n + 1) /\ i + 1 # 1
        BY <1>3, <3>2
      <4>5. i # n + 1 => r[i + 1] = s[(i + 1) - 1]
        BY <1>8, <4>4
      <4>6. (i - 1) + 1 = (i + 1) - 1 /\ (i - 1 = n <=> i = n + 1)
        BY <1>3
      <4> QED BY <4>2, <4>3, <4>5, <4>6
    <3> QED BY <3>1, <3>2
  <2> QED BY <2>1, <2>2 DEF Chained
<1>14. FreeList(u)
  BY <1>8, <1>11, <1>12, <1>13 DEF FreeList
<1> QED BY <1>5, <1>7, <1>14 DEF u

-----------------------------------------------------------------------------
(* The steps *)

\* A heap that differs from the QE's only where no plan is.
Harmless(h) ==
    /\ h \in [Addresses -> {"free", "plan", "lost"}]
    /\ \A a \in Addresses : h[a] = "plan" <=> heap[a] = "plan"

\* A plcPlan without a plan is lost at a free address.
LEMMA LostIsHarmless ==
    ASSUME Types, NEW a \in Addresses, heap[a] = "free"
    PROVE  Harmless([heap EXCEPT ![a] = "lost"])
BY DEF Types, Harmless

\* Closing the connection frees every plan.
LEMMA DisconnectKeepsIInv ==
    ASSUME IInv, connected = "open", NEW h, Harmless(h), Disconnect(h)
    PROVE  IInv'
<1>1. /\ heap' = [a \in Addresses |-> IF Holding(table, a) # {} THEN "free" ELSE h[a]]
      /\ connected' = "closed" /\ plans' = {} /\ abandoned' = {} /\ table' = table
  BY DEF Disconnect
<1>2. Types' /\ FreeList(table)'
  <2>1. Types'
    BY <1>1 DEF IInv, Types, Harmless
  <2>2. FreeList(table)'
    BY <1>1 DEF IInv
  <2> QED BY <2>1, <2>2
<1>3. \A a \in Addresses : heap[a] = "plan" => Holding(table, a) # {}
  BY DEF IInv, OneSlotEach
<1>4. NothingLeft'
  BY <1>1, <1>3 DEF NothingLeft, Harmless
<1> QED BY <1>1, <1>2, <1>4 DEF IInv

\* The error of a statement closes the connection or leaves all plans alone.
LEMMA FailureKeepsIInv ==
    ASSUME IInv, connected = "open", NEW h, Harmless(h), StatementFails(h)
    PROVE  IInv'
<1>1. CASE Disconnect(h)
  BY <1>1, DisconnectKeepsIInv
<1>2. CASE heap' = h /\ UNCHANGED <<table, connected, plans, abandoned, lang, terminated>>
  <2>1. heap' = h /\ table' = table /\ connected' = connected /\ plans' = plans
        /\ abandoned' = abandoned
    BY <1>2
  <2>2. Types'
    BY <2>1 DEF IInv, Types, Harmless
  <2>3. FreeList(table)'
    BY <2>1 DEF IInv
  <2>4. \A i \in InUse(table) : table.pplan[i] \in Addresses
    BY DEF IInv, Types, OneSlotEach
  <2>5. OneSlotEach'
    <3>1. InUse(table)' = InUse(table) /\ \A a : Holding(table, a)' = Holding(table, a)
      BY <2>1 DEF InUse, Holding
    <3> QED BY <2>1, <2>4, <3>1 DEF IInv, OneSlotEach, Harmless, Types
  <2> QED BY <2>1, <2>2, <2>3, <2>5 DEF IInv
<1> QED BY <1>1, <1>2 DEF StatementFails

\* A new plan gets a slot of its own.
LEMMA PrepareKeepsIInv ==
    ASSUME IInv, NEW a \in Addresses, Prepare(a)
    PROVE  IInv'
<1> DEFINE x == table.head
<1>1. /\ connected = "open" /\ heap[a] = "free" /\ table.head >= 0
      /\ table' = insert_pplan(table, a) /\ heap' = [heap EXCEPT ![a] = "plan"]
      /\ plans' = plans \cup {a} /\ connected' = connected /\ abandoned' = abandoned
  BY DEF Prepare, Preparing
<1>2. Types /\ FreeList(table) /\ OneSlotEach
  BY <1>1 DEF IInv
<1>3. /\ table' \in Tables /\ FreeList(table') /\ x \in Slots \ InUse(table)
      /\ table'.pplan = [table.pplan EXCEPT ![x] = a]
      /\ InUse(table') = InUse(table) \cup {x}
  BY <1>1, <1>2, InsertFacts DEF Types
<1> HIDE DEF x
<1>4. /\ table'.pplan[x] = a
      /\ \A i \in InUse(table) : /\ table'.pplan[i] = table.pplan[i]
                                 /\ table.pplan[i] \in Addresses /\ table.pplan[i] # a
  <2>1. \A i \in InUse(table) : i \in Slots /\ i # x
    BY <1>3 DEF InUse
  <2>2. table.pplan \in [Slots -> Addresses \cup {0}]
    BY <1>2 DEF Types, Tables
  <2>3. \A i \in InUse(table) : table.pplan[i] \in Addresses
    BY <2>1, <2>2 DEF InUse
  <2>4. \A i \in InUse(table) : table.pplan[i] # a
    BY <1>1, <1>2 DEF OneSlotEach
  <2> QED BY <1>3, <2>1, <2>2, <2>3, <2>4
<1>5. heap' \in [Addresses -> {"free", "plan", "lost"}] /\ heap'[a] = "plan"
      /\ \A b \in Addresses : b # a => heap'[b] = heap[b]
  BY <1>1, <1>2 DEF Types
<1>6. Types'
  BY <1>1, <1>2, <1>3, <1>5 DEF Types
<1>7. OneSlotEach'
  <2>1. \A i, j \in InUse(table') : table'.pplan[i] = table'.pplan[j] => i = j
    BY <1>2, <1>3, <1>4 DEF OneSlotEach
  <2>2. \A i \in InUse(table') : table'.pplan[i] \in plans' \cup abandoned'
    BY <1>1, <1>2, <1>3, <1>4 DEF OneSlotEach
  <2>3. \A i \in InUse(table') : heap'[table'.pplan[i]] = "plan"
    BY <1>2, <1>3, <1>4, <1>5 DEF OneSlotEach
  <2>4. \A b \in Addresses : heap'[b] = "plan" => Holding(table', b) # {}
    <3> SUFFICES ASSUME NEW b \in Addresses, heap'[b] = "plan" PROVE Holding(table', b) # {}
      OBVIOUS
    <3>1. CASE b = a
      BY <1>3, <1>4, <3>1 DEF Holding
    <3>2. CASE b # a
      <4>1. PICK i \in InUse(table) : table.pplan[i] = b
        BY <1>2, <1>5, <3>2 DEF OneSlotEach, Holding
      <4> QED BY <1>3, <1>4, <4>1 DEF Holding
    <3> QED BY <3>1, <3>2
  <2>5. \A b \in plans' : heap'[b] = "plan"
    BY <1>1, <1>2, <1>5 DEF OneSlotEach, Types
  <2> QED BY <2>1, <2>2, <2>3, <2>4, <2>5 DEF OneSlotEach
<1>8. FreeList(table)'
  BY <1>3
<1> QED BY <1>1, <1>6, <1>7, <1>8 DEF IInv

\* The plan of an object that goes gives its slot back.
LEMMA UnprepareKeepsIInv ==
    ASSUME IInv, NEW a \in Addresses, Unprepare(a)
    PROVE  IInv'
<1>1. /\ connected = "open" /\ a \in plans /\ plans' = plans \ {a}
      /\ table' = delete_pplan(table, a)
      /\ heap' = [heap EXCEPT ![a] = IF Holding(table, a) = {} THEN @ ELSE "free"]
      /\ connected' = connected /\ abandoned' = abandoned
  BY DEF Unprepare
<1>2. Types /\ FreeList(table) /\ OneSlotEach
  BY <1>1 DEF IInv
<1>3. PICK x \in InUse(table) : table.pplan[x] = a
  BY <1>1, <1>2 DEF OneSlotEach, Holding
<1>4. Holding(table, a) = {x}
  BY <1>2, <1>3 DEF OneSlotEach, Holding
<1>5. (CHOOSE i \in {x} : \A j \in {x} : i <= j) = x
  <2>1. x \in Int
    BY <1>3, PlanAssumption DEF InUse, Slots
  <2> QED BY <2>1
<1>6. table' = FreeSlot(table, x)
  BY <1>1, <1>4, <1>5 DEF delete_pplan
<1>7. /\ table' \in Tables /\ FreeList(table') /\ InUse(table') = InUse(table) \ {x}
      /\ \A y \in InUse(table') : table'.pplan[y] = table.pplan[y]
  BY <1>2, <1>3, <1>6, FreeFacts DEF Types
<1>8. /\ heap' \in [Addresses -> {"free", "plan", "lost"}] /\ heap'[a] = "free"
      /\ \A b \in Addresses : b # a => heap'[b] = heap[b]
  BY <1>1, <1>2, <1>4 DEF Types
<1>9. \A i \in InUse(table') : table'.pplan[i] \in Addresses /\ table'.pplan[i] # a
                               /\ table'.pplan[i] \in plans \cup abandoned
  BY <1>2, <1>3, <1>7 DEF OneSlotEach, Types
<1>10. Types'
  BY <1>1, <1>2, <1>7, <1>8 DEF Types
<1>11. OneSlotEach'
  <2>1. \A i, j \in InUse(table') : table'.pplan[i] = table'.pplan[j] => i = j
    BY <1>2, <1>7 DEF OneSlotEach
  <2>2. \A i \in InUse(table') : table'.pplan[i] \in plans' \cup abandoned'
    BY <1>1, <1>9
  <2>3. \A i \in InUse(table') : heap'[table'.pplan[i]] = "plan"
    BY <1>2, <1>7, <1>8, <1>9 DEF OneSlotEach
  <2>4. \A b \in Addresses : heap'[b] = "plan" => Holding(table', b) # {}
    <3> SUFFICES ASSUME NEW b \in Addresses, heap'[b] = "plan" PROVE Holding(table', b) # {}
      OBVIOUS
    <3>1. b # a /\ heap[b] = "plan"
      BY <1>8
    <3>2. PICK i \in InUse(table) : table.pplan[i] = b
      BY <1>2, <3>1 DEF OneSlotEach, Holding
    <3> QED BY <1>3, <1>7, <3>1, <3>2 DEF Holding
  <2>5. \A b \in plans' : heap'[b] = "plan"
    BY <1>1, <1>2, <1>8 DEF OneSlotEach, Types
  <2> QED BY <2>1, <2>2, <2>3, <2>4, <2>5 DEF OneSlotEach
<1>12. FreeList(table)'
  BY <1>7
<1> QED BY <1>1, <1>10, <1>11, <1>12 DEF IInv

\* A plan object that goes without a word is remembered as abandoned.
LEMMA AbandonKeepsIInv ==
    ASSUME IInv, NEW a \in Addresses, Abandon(a)
    PROVE  IInv'
<1>1. /\ connected = "open" /\ a \in plans /\ plans' = plans \ {a}
      /\ abandoned' = abandoned \cup {a}
      /\ table' = table /\ heap' = heap /\ connected' = connected
  BY DEF Abandon
<1>2. Types' /\ FreeList(table)'
  <2>1. Types'
    BY <1>1 DEF IInv, Types
  <2>2. FreeList(table)'
    BY <1>1 DEF IInv
  <2> QED BY <2>1, <2>2
<1>3. InUse(table)' = InUse(table) /\ \A b : Holding(table, b)' = Holding(table, b)
  BY <1>1 DEF InUse, Holding
<1>4. OneSlotEach'
  BY <1>1, <1>3 DEF IInv, OneSlotEach
<1> QED BY <1>1, <1>2, <1>4 DEF IInv

\* Nothing the invariant speaks of changes.
LEMMA SameKeepsIInv ==
    ASSUME IInv, UNCHANGED <<table, connected, heap, plans, abandoned>>
    PROVE  IInv'
<1>0. table' = table
  OBVIOUS
<1>1. Types'
  BY DEF IInv, Types
<1>2. FreeList(table)'
  BY <1>0 DEF IInv
<1>3. InUse(table)' = InUse(table) /\ \A b : Holding(table, b)' = Holding(table, b)
  BY DEF InUse, Holding
<1>4. (OneSlotEach' <=> OneSlotEach) /\ (NothingLeft' <=> NothingLeft)
  BY <1>3 DEF OneSlotEach, NothingLeft
<1> QED BY <1>1, <1>2, <1>4 DEF IInv

\* The ways a preparation ends, for either client.
LEMMA PreparationKeepsIInv ==
    ASSUME IInv, NEW a \in Addresses, Prepare(a) \/ PrepareFails(a) \/ PrepareNull(a)
    PROVE  IInv'
<1>1. CASE Prepare(a)
  BY <1>1, PrepareKeepsIInv
<1>2. CASE PrepareFails(a)
  <2>1. connected = "open" /\ heap[a] = "free" /\ StatementFails([heap EXCEPT ![a] = "lost"])
    BY <1>2 DEF PrepareFails, Preparing
  <2> QED BY <2>1, LostIsHarmless, FailureKeepsIInv DEF IInv
<1>3. CASE PrepareNull(a)
  <2>1. /\ connected = "open" /\ heap[a] = "free" /\ heap' = [heap EXCEPT ![a] = "lost"]
        /\ UNCHANGED <<table, connected, plans, abandoned>>
    BY <1>3 DEF PrepareNull, Preparing
  <2>2. Harmless(heap')
    BY <2>1, LostIsHarmless DEF IInv
  <2>3. InUse(table)' = InUse(table) /\ \A b : Holding(table, b)' = Holding(table, b)
    BY <2>1 DEF InUse, Holding
  <2>4. Types' /\ FreeList(table)'
    <3>1. Types'
      BY <2>1, <2>2 DEF IInv, Types, Harmless
    <3>2. FreeList(table)'
      BY <2>1 DEF IInv
    <3> QED BY <3>1, <3>2
  <2>5. OneSlotEach /\ \A i \in InUse(table) : table.pplan[i] \in Addresses
    BY <2>1 DEF IInv, OneSlotEach, Types
  <2>6. OneSlotEach'
    BY <2>1, <2>2, <2>3, <2>5 DEF OneSlotEach, Harmless, IInv, Types
  <2> QED BY <2>1, <2>4, <2>6 DEF IInv
<1> QED BY <1>1, <1>2, <1>3

\* Executing a plan, with whatever the statement does, keeps the invariant.
LEMMA ExecutionKeepsIInv ==
    ASSUME IInv, NEW a \in Addresses, PExecute(a)
    PROVE  IInv'
<1>1. CASE UNCHANGED vars
  BY <1>1, SameKeepsIInv DEF vars
<1>2. CASE connected = "open" /\ StatementFails(heap)
  <2>1. Harmless(heap)
    BY DEF IInv, Types, Harmless
  <2> QED BY <1>2, <2>1, FailureKeepsIInv
<1> QED BY <1>1, <1>2 DEF PExecute

\* Every step keeps the invariant.
LEMMA NextKeepsIInv ==
    ASSUME IInv, [Next]_vars
    PROVE  IInv'
<1>1. CASE UNCHANGED vars
  BY <1>1, SameKeepsIInv DEF vars
<1>2. CASE Close
  <2>1. Harmless(heap)
    BY DEF IInv, Types, Harmless
  <2> QED BY <1>2, <2>1, DisconnectKeepsIInv DEF Close
<1>3. CASE Connect
  <2>1. /\ connected = "closed" /\ connected' = "open" /\ table' = init_pplan_slots
        /\ heap' = heap /\ plans' = plans /\ abandoned' = abandoned
    BY <1>3 DEF Connect
  <2>2. table' \in Tables /\ FreeList(table') /\ InUse(table') = {}
    BY <2>1, InitFacts
  <2>3. FreeList(table)'
    BY <2>2
  <2>4. Types' /\ plans = {} /\ \A a \in Addresses : heap[a] # "plan"
    BY <2>1, <2>2 DEF IInv, Types, NothingLeft
  <2>5. OneSlotEach'
    BY <2>1, <2>2, <2>4 DEF OneSlotEach
  <2> QED BY <2>1, <2>3, <2>4, <2>5 DEF IInv
<1>4. CASE CallBegins \/ CallRaises
  BY <1>4, SameKeepsIInv DEF CallBegins, CallRaises
<1>5. ASSUME NEW a \in Addresses, PLy_spi_prepare(a) \/ plr_SPI_prepare(a)
      PROVE  IInv'
  BY <1>5, PreparationKeepsIInv DEF PLy_spi_prepare, plr_SPI_prepare
<1>6. ASSUME NEW a \in Addresses, PLy_spi_execute_plan(a) \/ plr_SPI_execp(a)
      PROVE  IInv'
  BY <1>6, ExecutionKeepsIInv DEF PLy_spi_execute_plan, plr_SPI_execp
<1>7. ASSUME NEW a \in Addresses, PLy_freeplan(a) \/ Collected(a)
      PROVE  IInv'
  BY <1>7, AbandonKeepsIInv, UnprepareKeepsIInv DEF PLy_freeplan, Collected
<1> QED BY <1>1, <1>2, <1>3, <1>4, <1>5, <1>6, <1>7 DEF Next

\* The invariant holds in every reachable state, for a table of any size.
THEOREM InductiveInvariant == Spec => []IInv
<1>1. Init => IInv
  <2> SUFFICES ASSUME Init PROVE IInv
    OBVIOUS
  <2>1. table \in Tables /\ FreeList(table) /\ InUse(table) = {}
    BY InitFacts DEF Init
  <2>2. Types
    BY <2>1 DEF Init, Types
  <2>3. OneSlotEach
    BY <2>1 DEF Init, OneSlotEach
  <2> QED BY <2>1, <2>2, <2>3 DEF Init, IInv
<1>2. IInv /\ [Next]_vars => IInv'
  BY NextKeepsIInv
<1> QED BY <1>1, <1>2, PTL DEF Spec

\* The chain through the slots (insert_pplan, delete_pplan) is a list of exactly
\* the free slots, whatever is prepared, freed or fails.
THEOREM FreeListCorrect == Spec => []FreeListOK
<1>1. IInv => FreeListOK
  BY DEF IInv, FreeList, FreeListOK, Lists
<1> QED BY <1>1, InductiveInvariant, PTL

\* A plan object of either client finds its plan, in one slot, until it goes.
THEOREM PlansUsableCorrect == Spec => []PlansUsable
<1>1. IInv => PlansUsable
  <2> SUFFICES ASSUME IInv, NEW a \in plans
               PROVE  Cardinality(Holding(table, a)) = 1 /\ heap[a] = "plan"
    BY DEF PlansUsable
  <2>1. OneSlotEach /\ a \in Addresses
    BY DEF IInv, Types, NothingLeft
  <2>2. heap[a] = "plan"
    BY <2>1 DEF OneSlotEach
  <2>3. PICK x \in InUse(table) : table.pplan[x] = a
    BY <2>1, <2>2 DEF OneSlotEach, Holding
  <2>4. Holding(table, a) = {x}
    BY <2>1, <2>3 DEF OneSlotEach, Holding
  <2> QED BY <2>2, <2>4, FS_Singleton
<1> QED BY <1>1, InductiveInvariant, PTL

\* No slot is lost but to an object that was dropped without a message, and no
\* plan is freed under its slot.
THEOREM SlotsAccountedCorrect == Spec => []SlotsAccounted
<1>1. IInv => SlotsAccounted
  BY DEF IInv, OneSlotEach, SlotsAccounted
<1> QED BY <1>1, InductiveInvariant, PTL

\* plcDisconnect frees every saved plan of the connection.
THEOREM ClosedCorrect == Spec => []ClosedHasNoPlans
<1>1. IInv => ClosedHasNoPlans
  BY DEF IInv, NothingLeft, ClosedHasNoPlans
<1> QED BY <1>1, InductiveInvariant, PTL
=============================================================================
