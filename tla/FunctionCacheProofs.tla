------------------------- MODULE FunctionCacheProofs -------------------------
(***************************************************************************)
(* Proof that the client runs the version of a function that was looked    *)
(* up, for any number of functions, versions and nested calls and for      *)
(* caches of every size.                                                   *)
(***************************************************************************)
EXTENDS FunctionCache, SequenceTheorems, TLAPS

\* No function is in a cache twice.
Distinct(c) == \A i, j \in 1..Len(c) : c[i].oid = c[j].oid => i = j

\* Every entry of d is one of c.
From(d, c) == \A j \in 1..Len(d) : \E k \in 1..Len(c) : d[j] = c[k]

-----------------------------------------------------------------------------
(* The cache operations *)

\* A function over 1..n is a sequence of length n.
LEMMA FunIsSeq ==
    ASSUME NEW S, NEW n \in Nat, NEW s \in [1..n -> S]
    PROVE  s \in Seq(S) /\ Len(s) = n
<1>1. s \in Seq(S)
  BY SeqDef
<1>2. DOMAIN s = 1..Len(s) /\ Len(s) \in Nat
  BY <1>1, LenProperties
<1> QED BY <1>1, <1>2

\* function_cache_up moves one entry to the front and keeps all of them.
LEMMA UpFacts ==
    ASSUME NEW S, NEW c \in Seq(S), NEW i \in 1..Len(c), Distinct(c)
    PROVE  LET u == function_cache_up(c, i)
           IN  /\ u \in Seq(S)
               /\ Len(u) = Len(c)
               /\ u[1] = c[i]
               /\ From(u, c)
               /\ Distinct(u)
<1> DEFINE u == function_cache_up(c, i)
           at(j) == IF j = 1 THEN i ELSE IF j <= i THEN j - 1 ELSE j
<1>1. Len(c) \in Nat /\ c \in [1..Len(c) -> S]
  BY LenProperties
<1>2. \A j \in 1..Len(c) : at(j) \in 1..Len(c)
  BY <1>1
<1>3. \A j \in 1..Len(c) : u[j] = c[at(j)]
  BY <1>1 DEF function_cache_up
<1>4. u \in [1..Len(c) -> S]
  BY <1>1 DEF function_cache_up
<1>5. u \in Seq(S) /\ Len(u) = Len(c)
  BY <1>1, <1>4, FunIsSeq
<1>6. u[1] = c[i]
  BY <1>1, <1>3
<1>7. From(u, c)
  BY <1>2, <1>3, <1>5 DEF From
<1>8. Distinct(u)
  <2> SUFFICES ASSUME NEW j \in 1..Len(c), NEW k \in 1..Len(c), u[j].oid = u[k].oid
               PROVE  j = k
    BY <1>5 DEF Distinct
  <2>1. c[at(j)].oid = c[at(k)].oid
    BY <1>3
  <2>2. at(j) = at(k)
    BY <1>2, <2>1, SMTT(20) DEF Distinct
  <2> QED BY <2>2, <1>1
<1> QED BY <1>5, <1>6, <1>7, <1>8

\* What CHOOSE picks is an entry of the function, the only one.
LEMMA SlotFacts ==
    ASSUME NEW c, NEW f, Cached(c, f), Distinct(c)
    PROVE  /\ Slot(c, f) \in 1..Len(c)
           /\ c[Slot(c, f)].oid = f
           /\ \A k \in 1..Len(c) : c[k].oid = f => k = Slot(c, f)
<1>1. Slot(c, f) \in 1..Len(c) /\ c[Slot(c, f)].oid = f
  BY DEF Cached, Slot
<1> QED BY <1>1 DEF Distinct

\* function_cache_get keeps all entries; a function that is found is in front.
LEMMA GetFacts ==
    ASSUME NEW S, NEW c \in Seq(S), Distinct(c), NEW f
    PROVE  LET g == function_cache_get(c, f)
           IN  /\ g \in Seq(S)
               /\ Len(g) = Len(c)
               /\ From(g, c)
               /\ Distinct(g)
               /\ Cached(c, f) => Len(c) # 0 /\ g[1] = c[Slot(c, f)] /\ g[1].oid = f
               /\ Cached(g, f) <=> Cached(c, f)
<1> DEFINE g == function_cache_get(c, f)
<1>0. Len(c) \in Nat
  BY LenProperties
<1>1. CASE ~Cached(c, f)
  BY <1>1 DEF function_cache_get, From
<1>2. CASE Cached(c, f)
  <2>1. Slot(c, f) \in 1..Len(c) /\ c[Slot(c, f)].oid = f
    BY <1>2, SlotFacts
  <2>2. g = function_cache_up(c, Slot(c, f))
    BY <1>2 DEF function_cache_get
  <2>3. g \in Seq(S) /\ Len(g) = Len(c) /\ g[1] = c[Slot(c, f)] /\ From(g, c) /\ Distinct(g)
    BY <2>1, <2>2, UpFacts
  <2>4. Len(c) # 0 /\ g[1].oid = f
    BY <1>0, <2>1, <2>3
  <2>5. Cached(g, f)
    BY <1>0, <2>3, <2>4 DEF Cached
  <2> QED BY <1>2, <2>3, <2>4, <2>5
<1> QED BY <1>1, <1>2

\* function_cache_put has the new entry in front, and then entries of other
\* functions that were there before, no more than the cache can hold.
LEMMA PutFacts ==
    ASSUME NEW S, NEW c \in Seq(S), Distinct(c), NEW e \in S,
           NEW size \in Nat \ {0}, Len(c) <= size
    PROVE  LET p == function_cache_put(c, e, size).cache
           IN  /\ p \in Seq(S)
               /\ Len(p) \in 1..size
               /\ p[1] = e
               /\ Distinct(p)
               /\ \A j \in 2..Len(p) : /\ p[j].oid # e.oid
                                       /\ \E k \in 1..Len(c) : p[j] = c[k]
<1> DEFINE p == function_cache_put(c, e, size).cache
<1>0. Len(c) \in Nat /\ c \in [1..Len(c) -> S]
  BY LenProperties
<1>1. CASE Cached(c, e.oid)
  <2> DEFINE g == function_cache_get(c, e.oid)
  <2>1. /\ g \in Seq(S) /\ Len(g) = Len(c) /\ Len(c) # 0
        /\ From(g, c) /\ Distinct(g) /\ g[1].oid = e.oid
    BY <1>1, GetFacts
  <2>2. p = <<e>> \o Tail(g)
    BY <1>1 DEF function_cache_put
  <2> HIDE DEF g, p
  <2>3. 1 \in 1..Len(g) /\ g # <<>>
    BY <1>0, <2>1
  <2>4. /\ p \in Seq(S) /\ Len(p) = Len(g)
        /\ \A j \in 1..Len(g) : p[j] = IF j = 1 THEN e ELSE g[j]
    <3> DEFINE t == Tail(g)
    <3>1. /\ t \in Seq(S) /\ Len(t) = Len(g) - 1 /\ Len(g) \in Nat
          /\ \A i \in 1..Len(t) : t[i] = g[i + 1]
      BY <2>1, <2>3, HeadTailProperties, LenProperties
    <3>2. <<e>> \in Seq(S) /\ Len(<<e>>) = 1 /\ <<e>>[1] = e
      OBVIOUS
    <3> HIDE DEF t
    <3>3. /\ p \in Seq(S) /\ Len(p) = 1 + Len(t)
          /\ p[1] = e
          /\ \A i \in 2..Len(p) : p[i] = t[i - 1]
      BY <2>2, <3>1, <3>2, ConcatProperties DEF t
    <3>4. \A i \in 2..Len(p) : t[i - 1] = g[i]
      BY <3>1, <3>3
    <3> QED BY <3>1, <3>3, <3>4
  <2>5. \A j \in 2..Len(p) : p[j] = g[j] /\ j \in 1..Len(g) /\ j # 1
    BY <2>4, <1>0, <2>1
  <2>6. \A j \in 2..Len(p) : p[j].oid # e.oid
    BY <2>1, <2>3, <2>5 DEF Distinct
  <2>7. \A j \in 2..Len(p) : \E k \in 1..Len(c) : p[j] = c[k]
    BY <2>1, <2>5 DEF From
  <2>8. Distinct(p)
    <3> SUFFICES ASSUME NEW j \in 1..Len(p), NEW k \in 1..Len(p), p[j].oid = p[k].oid
                 PROVE  j = k
      BY DEF Distinct
    <3>1. p[j].oid = g[j].oid /\ p[k].oid = g[k].oid
      BY <2>1, <2>4
    <3> QED BY <2>1, <2>4, <3>1 DEF Distinct
  <2>9. Len(p) \in 1..size /\ p[1] = e
    BY <1>0, <2>1, <2>3, <2>4
  <2> QED BY <2>4, <2>6, <2>7, <2>8, <2>9 DEF p
<1>2. CASE ~Cached(c, e.oid)
  <2> DEFINE n == IF Len(c) = size THEN size - 1 ELSE Len(c)
             t == SubSeq(c, 1, n)
  <2>0. size \in Nat /\ size > 0 /\ Len(c) \in Nat /\ Len(c) <= size
    BY <1>0
  <2>1. n \in Nat /\ n <= Len(c) /\ n < size
    BY ONLY <2>0
  <2>2. p = <<e>> \o t
    BY <1>2 DEF function_cache_put
  <2> HIDE DEF n
  <2>3. t \in Seq(S) /\ Len(t) = n /\ \A i \in 1..n : t[i] = c[i]
    BY <1>0, <2>1, SubSeqProperties
  <2> HIDE DEF t, p
  <2>4. <<e>> \in Seq(S) /\ Len(<<e>>) = 1 /\ <<e>>[1] = e
    OBVIOUS
  <2>5. /\ p \in Seq(S) /\ Len(p) = 1 + n
        /\ p[1] = e
        /\ \A i \in 2..Len(p) : p[i] = t[i - 1]
    BY <2>1, <2>2, <2>3, <2>4, ConcatProperties
  <2>6. \A i \in 2..Len(p) : p[i] = c[i - 1] /\ i - 1 \in 1..Len(c)
    BY <1>0, <2>1, <2>3, <2>5
  <2>7. \A i \in 2..Len(p) : p[i].oid # e.oid
    BY <1>2, <2>6 DEF Cached
  <2>8. Distinct(p)
    <3> SUFFICES ASSUME NEW j \in 1..Len(p), NEW k \in 1..Len(p), p[j].oid = p[k].oid
                 PROVE  j = k
      BY DEF Distinct
    <3>1. CASE j = 1 \/ k = 1
      BY <3>1, <2>1, <2>5, <2>7
    <3>2. CASE j # 1 /\ k # 1
      <4>1. j \in 2..Len(p) /\ k \in 2..Len(p)
        BY <3>2, <2>1, <2>5
      <4>2. c[j - 1].oid = c[k - 1].oid
        BY <4>1, <2>6
      <4>3. j - 1 = k - 1
        BY <4>1, <4>2, <2>6 DEF Distinct
      <4> QED BY <4>1, <4>3
    <3> QED BY <3>1, <3>2
  <2>9. Len(p) \in 1..size
    BY <2>1, <2>5
  <2>10. \A j \in 2..Len(p) : \E k \in 1..Len(c) : p[j] = c[k]
    BY <2>6
  <2> QED BY <2>5, <2>7, <2>8, <2>9, <2>10 DEF p
<1> QED BY <1>1, <1>2

-----------------------------------------------------------------------------
(* The inductive invariant *)

Entries == [oid : Oids, ver : Nat]
Codes == Funcs \X Nat
Objects == Codes \cup {NoCode}
Compiled == [oid : Funcs, code : Codes]
Marks == SUBSET {"proc", "pyfunc"}
Frames == [oid : Funcs, ver : Nat, gone : Marks, risk : Marks, ran : Objects,
           late : SUBSET Funcs]

Types ==
    /\ catalog \in [Oids -> Nat]
    /\ cache \in Seq(Entries)
    /\ pycache \in Seq(Compiled)
    /\ main \in [Names -> Objects]
    /\ calls \in Seq(Frames)
    /\ scans \subseteq Funcs
    /\ missed \subseteq Funcs

\* Neither cache outgrows its array or has two entries for a function.
CachesSound ==
    /\ Len(cache) <= CacheSize /\ Distinct(cache)
    /\ Len(pycache) <= ClientCacheSize /\ Distinct(pycache)

\* What the client has compiled for a function the QE remembers is the version
\* the QE remembers, unless the client was not told.
InStep(c, py, late) ==
    \A i \in 1..Len(c), j \in 1..Len(py) :
        c[i].oid = py[j].oid => \/ py[j].oid \in late
                                \/ py[j].code = <<py[j].oid, c[i].ver>>

Shared(f) == \E g \in Funcs \ {f} : NameOf[g] = NameOf[f]

\* A name in __main__ is bound to what was compiled last for the function, unless
\* another function has that name.
MainOK(py, m) ==
    \A j \in 1..Len(py) : m[NameOf[py[j].oid]] = py[j].code \/ Shared(py[j].oid)

\* RunsCurrent, for a call at any depth.
RanRight(c) ==
    \/ c.ran = <<c.oid, c.ver>>
    \/ c.oid \in c.late
    \/ c.ran = NoCode /\ Shared(c.oid)
AllRanRight(cs) == \A i \in 1..Len(cs) : RanRight(cs[i])

IInv ==
    /\ Types
    /\ CachesSound
    /\ InStep(cache, pycache, missed)
    /\ MainOK(pycache, main)
    /\ AllRanRight(calls)

-----------------------------------------------------------------------------
(* The QE looks a function up *)

\* plcontainer_procedure_get returns the version in the catalog.  The cache then
\* has that version, and of other functions only what it had before; a valid
\* entry was there before as well.
LEMMA GotFacts ==
    ASSUME Types, CachesSound, NEW f \in Oids
    PROVE  LET got == plcontainer_procedure_get(f)
           IN  /\ got.cache \in Seq(Entries)
               /\ Len(got.cache) <= CacheSize
               /\ Distinct(got.cache)
               /\ \A j \in 1..Len(got.cache) :
                    \/ \E k \in 1..Len(cache) : got.cache[j] = cache[k]
                    \/ ~plc_procedure_valid(f) /\ got.cache[j] = [oid |-> f, ver |-> catalog[f]]
               /\ got.proc = [oid |-> f, ver |-> catalog[f]]
               /\ \A j \in 1..Len(got.cache) :
                    got.cache[j].oid = f => got.cache[j] = [oid |-> f, ver |-> catalog[f]]
               /\ got.hasChanged = IF plc_procedure_valid(f) THEN 0 ELSE 1
<1> DEFINE got == plcontainer_procedure_get(f)
           c == function_cache_get(cache, f)
           e == [oid |-> f, ver |-> catalog[f]]
<1>1. /\ c \in Seq(Entries) /\ Len(c) = Len(cache) /\ From(c, cache) /\ Distinct(c)
      /\ Cached(cache, f) => Len(cache) # 0 /\ c[1] = cache[Slot(cache, f)] /\ c[1].oid = f
  BY GetFacts DEF Types, CachesSound
<1>2. e \in Entries /\ e.oid = f
  BY DEF Types, Entries
<1>3. Len(cache) \in Nat /\ CacheSize \in Nat \ {0} /\ Len(cache) <= CacheSize
  BY LenProperties, CacheAssumption DEF Types, CachesSound
<1>4. CASE plc_procedure_valid(f)
  <2>1. got.cache = c /\ got.proc = c[1] /\ got.hasChanged = 0
    BY <1>4 DEF plcontainer_procedure_get
  <2> HIDE DEF got, c
  <2>2. Cached(cache, f) /\ cache[Slot(cache, f)].ver = catalog[f]
    BY <1>4 DEF plc_procedure_valid
  <2>3. 1 \in 1..Len(c) /\ c[1].oid = f /\ c[1].ver = catalog[f]
    BY <1>1, <1>3, <2>2
  <2>4. c[1] = e
    <3>1. c[1] \in Entries
      BY <1>1, <2>3, LenProperties
    <3> QED BY <3>1, <2>3 DEF Entries
  <2>5. \A j \in 1..Len(c) : c[j].oid = f => j = 1
    BY <1>1, <2>3 DEF Distinct
  <2> QED BY <1>1, <1>3, <1>4, <2>1, <2>4, <2>5 DEF From, got
<1>5. CASE ~plc_procedure_valid(f)
  <2> DEFINE p == function_cache_put(c, e, CacheSize).cache
  <2>1. got.cache = p /\ got.proc = p[1] /\ got.hasChanged = 1
    BY <1>5 DEF plcontainer_procedure_get
  <2> HIDE DEF got, c, e
  <2>2. /\ p \in Seq(Entries) /\ Len(p) \in 1..CacheSize /\ p[1] = e /\ Distinct(p)
        /\ \A j \in 2..Len(p) : /\ p[j].oid # e.oid
                                /\ \E k \in 1..Len(c) : p[j] = c[k]
    BY <1>1, <1>2, <1>3, PutFacts
  <2> HIDE DEF p
  <2>3. \A j \in 1..Len(p) : j = 1 \/ j \in 2..Len(p)
    BY <2>2
  <2>4. \A j \in 1..Len(p) : p[j].oid = f => p[j] = e
    BY <1>2, <2>2, <2>3
  <2>5. \A j \in 1..Len(p) : (\E k \in 1..Len(cache) : p[j] = cache[k]) \/ p[j] = e
    <3> SUFFICES ASSUME NEW j \in 2..Len(p) PROVE \E k \in 1..Len(cache) : p[j] = cache[k]
      BY <2>2, <2>3
    <3>1. PICK k \in 1..Len(c) : p[j] = c[k]
      BY <2>2
    <3> QED BY <1>1, <3>1 DEF From
  <2>6. Len(p) <= CacheSize
    BY <2>2, <1>3
  <2> QED BY <1>5, <2>1, <2>2, <2>4, <2>5, <2>6 DEF got, e
<1> QED BY <1>4, <1>5

\* Marking an entry of a call as freed leaves the rest of the call alone.
LEMMA MarkFacts ==
    ASSUME NEW c \in Frames, NEW x \in Marks, NEW y \in Marks
    PROVE  LET r == Marked(c, x, y)
           IN  /\ r \in Frames
               /\ r.oid = c.oid /\ r.ver = c.ver /\ r.ran = c.ran /\ r.late = c.late
<1>1. /\ c.oid \in Funcs /\ c.ver \in Nat /\ c.ran \in Objects /\ c.late \in SUBSET Funcs
      /\ c.gone \cup x \in Marks /\ c.risk \cup y \in Marks
  BY DEF Frames, Marks
<1> QED BY <1>1 DEF Frames, Marked

\* After marks what is freed and changes nothing else of a call in progress.
LEMMA AfterFacts ==
    ASSUME calls \in Seq(Frames), AllRanRight(calls), NEW f, NEW got
    PROVE  /\ After(f, got) \in Seq(Frames)
           /\ Len(After(f, got)) = Len(calls)
           /\ AllRanRight(After(f, got))
<1> DEFINE a == After(f, got)
<1>0. Len(calls) \in Nat
  BY LenProperties
<1>1. ASSUME NEW i \in 1..Len(calls)
      PROVE  /\ a[i] \in Frames
             /\ a[i].oid = calls[i].oid /\ a[i].ver = calls[i].ver
             /\ a[i].ran = calls[i].ran /\ a[i].late = calls[i].late
  <2>1. calls[i] \in Frames
    BY LenProperties
  <2>2. PICK x, y : /\ x \subseteq {"proc"} /\ y \subseteq {"proc"}
                    /\ a[i] = Marked(calls[i], x, y)
    BY DEF After
  <2> HIDE DEF a
  <2>3. x \in Marks /\ y \in Marks
    BY <2>2 DEF Marks
  <2>4. LET r == Marked(calls[i], x, y)
        IN  /\ r \in Frames
            /\ r.oid = calls[i].oid /\ r.ver = calls[i].ver
            /\ r.ran = calls[i].ran /\ r.late = calls[i].late
    BY <2>1, <2>3, MarkFacts
  <2> QED BY <2>2, <2>4
<1>2. a \in [1..Len(calls) -> Frames]
  BY <1>1 DEF After
<1>3. a \in Seq(Frames) /\ Len(a) = Len(calls)
  BY <1>0, <1>2, FunIsSeq
<1>4. AllRanRight(a)
  BY <1>1, <1>3 DEF AllRanRight, RanRight
<1> QED BY <1>3, <1>4

\* Caches that only lost entries or changed their order are still in step.
LEMMA LessInStep ==
    ASSUME InStep(cache, pycache, missed), NEW c, From(c, cache), NEW py, From(py, pycache)
    PROVE  InStep(c, py, missed)
<1> SUFFICES ASSUME NEW i \in 1..Len(c), NEW j \in 1..Len(py), c[i].oid = py[j].oid
             PROVE  py[j].oid \in missed \/ py[j].code = <<py[j].oid, c[i].ver>>
  BY DEF InStep
<1>1. PICK k \in 1..Len(cache) : c[i] = cache[k]
  BY DEF From
<1>2. PICK l \in 1..Len(pycache) : py[j] = pycache[l]
  BY DEF From
<1> QED BY <1>1, <1>2 DEF InStep

\* A lookup the client does not hear of leaves the caches in step once the
\* function counts as missed.
LEMMA MissedInStep ==
    ASSUME Types, CachesSound, InStep(cache, pycache, missed), NEW f \in Funcs,
           NEW py, From(py, pycache)
    PROVE  InStep(plcontainer_procedure_get(f).cache, py, Missed(f))
<1> DEFINE c == plcontainer_procedure_get(f).cache
<1> SUFFICES ASSUME NEW i \in 1..Len(c), NEW j \in 1..Len(py), c[i].oid = py[j].oid
             PROVE  \/ py[j].oid \in Missed(f)
                    \/ py[j].code = <<py[j].oid, c[i].ver>>
  BY DEF InStep
<1>1. PICK k \in 1..Len(pycache) : py[j] = pycache[k]
  BY DEF From
<1>2. \/ \E l \in 1..Len(cache) : c[i] = cache[l]
      \/ ~plc_procedure_valid(f) /\ c[i] = [oid |-> f, ver |-> catalog[f]]
  BY GotFacts DEF Oids
<1> HIDE DEF c
<1>3. CASE \E l \in 1..Len(cache) : c[i] = cache[l]
  <2>1. py[j].oid \in missed \/ py[j].code = <<py[j].oid, c[i].ver>>
    BY <1>1, <1>3 DEF InStep
  <2> QED BY <2>1 DEF Missed
<1>4. CASE ~plc_procedure_valid(f) /\ c[i] = [oid |-> f, ver |-> catalog[f]]
  <2>1. pycache[k].oid = f
    BY <1>1, <1>4
  <2>2. Cached(pycache, f)
    BY <2>1 DEF Cached
  <2> QED BY <1>1, <1>4, <2>1, <2>2 DEF Missed
<1> QED BY <1>2, <1>3, <1>4

\* Looking up the validator concerns no function of the client.
LEMMA ValidatorInStep ==
    ASSUME Types, CachesSound, InStep(cache, pycache, missed)
    PROVE  InStep(plcontainer_procedure_get(Validator).cache, pycache, missed)
<1> DEFINE c == plcontainer_procedure_get(Validator).cache
<1> SUFFICES ASSUME NEW i \in 1..Len(c), NEW j \in 1..Len(pycache),
                    c[i].oid = pycache[j].oid
             PROVE  \/ pycache[j].oid \in missed
                    \/ pycache[j].code = <<pycache[j].oid, c[i].ver>>
  BY DEF InStep
<1>1. \/ \E l \in 1..Len(cache) : c[i] = cache[l]
      \/ c[i] = [oid |-> Validator, ver |-> catalog[Validator]]
  BY GotFacts DEF Oids
<1> HIDE DEF c
<1>2. pycache[j] \in Compiled
  BY LenProperties DEF Types
<1>3. c[i].oid # Validator
  BY <1>2, CacheAssumption DEF Compiled
<1>4. PICK l \in 1..Len(cache) : c[i] = cache[l]
  BY <1>1, <1>3
<1> QED BY <1>4 DEF InStep

\* What is left of the client's entries is still bound as before.
LEMMA LessMainOK ==
    ASSUME MainOK(pycache, main), NEW py, From(py, pycache)
    PROVE  MainOK(py, main)
BY DEF MainOK, From

-----------------------------------------------------------------------------
(* The client runs it *)

\* The client's lookup: no entry is new.
LEMMA PyGetFacts ==
    ASSUME Types, CachesSound, NEW f
    PROVE  LET c == plc_py_function_cache_get(f)
           IN  /\ c \in Seq(Compiled) /\ Len(c) <= ClientCacheSize
               /\ Distinct(c) /\ From(c, pycache)
               /\ Cached(pycache, f) =>
                    Len(c) # 0 /\ c[1].oid = f /\ \E k \in 1..Len(pycache) : c[1] = pycache[k]
<1> DEFINE c == plc_py_function_cache_get(f)
<1>1. /\ c \in Seq(Compiled) /\ Len(c) = Len(pycache) /\ From(c, pycache) /\ Distinct(c)
      /\ Cached(pycache, f) => Len(pycache) # 0 /\ c[1].oid = f
  BY GetFacts DEF Types, CachesSound, plc_py_function_cache_get
<1> HIDE DEF c
<1>2. Len(c) <= ClientCacheSize
  BY <1>1 DEF CachesSound
<1>3. Cached(pycache, f) => 1 \in 1..Len(c)
  BY <1>1, LenProperties
<1>4. Cached(pycache, f) => \E k \in 1..Len(pycache) : c[1] = pycache[k]
  BY <1>1, <1>3, SMTT(20) DEF From
<1> QED BY <1>1, <1>2, <1>4 DEF c

\* What the client must have right when it starts to run f: its cache, __main__,
\* and the function object it calls.
Ready(f, py, m, late) ==
    /\ py \in Seq(Compiled) /\ Len(py) <= ClientCacheSize /\ Distinct(py)
    /\ m \in [Names -> Objects]
    /\ MainOK(py, m)
    /\ InStep(plcontainer_procedure_get(f).cache, py, late)
    /\ ObjectOf(py[1], m) \in Objects
    /\ \/ ObjectOf(py[1], m) = <<f, catalog[f]>>
       \/ f \in late
       \/ ObjectOf(py[1], m) = NoCode /\ Shared(f)

\* A function that is compiled: the new code is what runs.
LEMMA CompiledReady ==
    ASSUME IInv, NEW f \in Funcs,
           LET got == plcontainer_procedure_get(f)
           IN  Compiles(f, got) /\ ~CompileFails(f, got)
    PROVE  LET run == handle_call(f, plcontainer_procedure_get(f))
           IN  Ready(f, run.cache, run.main, missed \ {f})
<1> DEFINE got == plcontainer_procedure_get(f)
           run == handle_call(f, got)
           c == plc_py_function_cache_get(f)
           code == <<f, catalog[f]>>
           e == [oid |-> f, code |-> code]
           py == run.cache
           m == run.main
<1> USE DEF IInv
<1>1. got.proc.ver = catalog[f] /\ f \in Oids
  <2>1. f \in Oids
    BY DEF Oids
  <2>2. got.proc = [oid |-> f, ver |-> catalog[f]]
    BY <2>1, GotFacts, SMTT(20)
  <2> QED BY <2>1, <2>2
<1>2. py = function_cache_put(c, e, ClientCacheSize).cache /\ m = [main EXCEPT ![NameOf[f]] = code]
  BY <1>1 DEF handle_call, plc_py_function_cache_put
<1>3. code \in Codes /\ e \in Compiled /\ e.oid = f /\ NameOf[f] \in Names
  <2>1. code \in Codes
    BY <1>1 DEF Types, Codes
  <2> HIDE DEF code, py, m, got, run
  <2> QED BY <2>1, CacheAssumption DEF Compiled
<1>4. /\ c \in Seq(Compiled) /\ Len(c) <= ClientCacheSize
      /\ Distinct(c) /\ From(c, pycache)
  BY PyGetFacts, SMTT(20)
<1> HIDE DEF c, code, py, m, got, run
<1>5. /\ py \in Seq(Compiled) /\ Len(py) \in 1..ClientCacheSize /\ py[1] = e /\ Distinct(py)
      /\ \A j \in 2..Len(py) : /\ py[j].oid # e.oid
                               /\ \E k \in 1..Len(c) : py[j] = c[k]
  <2> HIDE DEF e
  <2>1. ClientCacheSize \in Nat \ {0}
    BY CacheAssumption
  <2>2. LET p == function_cache_put(c, e, ClientCacheSize).cache
        IN  /\ p \in Seq(Compiled) /\ Len(p) \in 1..ClientCacheSize /\ p[1] = e /\ Distinct(p)
            /\ \A j \in 2..Len(p) : /\ p[j].oid # e.oid
                                    /\ \E k \in 1..Len(c) : p[j] = c[k]
    BY ONLY <1>3, <1>4, <2>1, PutFacts
  <2> QED BY ONLY <1>2, <2>2
<1>6. \A j \in 1..Len(py) : j # 1 =>
        py[j].oid # f /\ \E k \in 1..Len(pycache) : py[j] = pycache[k]
  <2> SUFFICES ASSUME NEW j \in 1..Len(py), j # 1
               PROVE  py[j].oid # f /\ \E k \in 1..Len(pycache) : py[j] = pycache[k]
    OBVIOUS
  <2>1. j \in 2..Len(py)
    BY <1>5
  <2>2. py[j].oid # f
    BY <1>3, <1>5, <2>1
  <2>3. PICK k \in 1..Len(c) : py[j] = c[k]
    BY <1>5, <2>1
  <2> QED BY <1>4, <2>2, <2>3 DEF From
<1>7. Len(py) <= ClientCacheSize
  BY <1>5, CacheAssumption
<1>8. m \in [Names -> Objects] /\ m[NameOf[f]] = code
  BY <1>2, <1>3 DEF Types, Objects
<1>9. MainOK(py, m)
  <2> SUFFICES ASSUME NEW j \in 1..Len(py)
               PROVE  m[NameOf[py[j].oid]] = py[j].code \/ Shared(py[j].oid)
    BY DEF MainOK
  <2>1. CASE j = 1
    BY <1>5, <1>8, <2>1
  <2>2. CASE j # 1 /\ NameOf[py[j].oid] = NameOf[f]
    BY <1>6, <2>2 DEF Shared
  <2>3. CASE j # 1 /\ NameOf[py[j].oid] # NameOf[f]
    <3>1. py[j].oid \in Funcs
      <4>1. py[j] \in Compiled
        BY <1>5, LenProperties
      <4> QED BY <4>1 DEF Compiled
    <3>2. m[NameOf[py[j].oid]] = main[NameOf[py[j].oid]]
      BY <1>2, <2>3, <3>1, CacheAssumption DEF Types
    <3> QED BY <1>6, <2>3, <3>2, SMTT(20) DEF MainOK
  <2> QED BY <2>1, <2>2, <2>3
<1>10. InStep(got.cache, py, missed \ {f})
  <2> SUFFICES ASSUME NEW i \in 1..Len(got.cache), NEW j \in 1..Len(py),
                      got.cache[i].oid = py[j].oid
               PROVE  \/ py[j].oid \in missed \ {f}
                      \/ py[j].code = <<py[j].oid, got.cache[i].ver>>
    BY DEF InStep
  <2>0. /\ got.cache[i].oid = f => got.cache[i].ver = catalog[f]
        /\ got.cache[i].oid # f => \E k \in 1..Len(cache) : got.cache[i] = cache[k]
    <3>1. /\ \/ \E k \in 1..Len(cache) : got.cache[i] = cache[k]
             \/ got.cache[i] = [oid |-> f, ver |-> catalog[f]]
          /\ got.cache[i].oid = f => got.cache[i] = [oid |-> f, ver |-> catalog[f]]
      BY <1>1, GotFacts DEF got
    <3> QED BY <3>1
  <2>1. CASE j = 1
    BY <1>5, <2>0, <2>1 DEF code
  <2>2. CASE j # 1
    <3>1. py[j].oid # f
      BY <1>6, <2>2
    <3>2. PICK k \in 1..Len(pycache) : py[j] = pycache[k]
      BY <1>6, <2>2
    <3>3. PICK l \in 1..Len(cache) : got.cache[i] = cache[l]
      BY <2>0, <3>1
    <3> QED BY <3>1, <3>2, <3>3 DEF InStep
  <2> QED BY <2>1, <2>2
<1>11. ObjectOf(py[1], m) = code
  BY <1>5, <1>8, SMTT(20) DEF ObjectOf
<1> QED BY <1>3, <1>5, <1>7, <1>8, <1>9, <1>10, <1>11 DEF Ready, Objects, got, run, py, m, code

\* A function that is not compiled: the client has it, and the QE had it.
LEMMA KnownReady ==
    ASSUME IInv, NEW f \in Funcs, ~Compiles(f, plcontainer_procedure_get(f))
    PROVE  LET run == handle_call(f, plcontainer_procedure_get(f))
           IN  Ready(f, run.cache, run.main, missed)
<1> DEFINE got == plcontainer_procedure_get(f)
           py == plc_py_function_cache_get(f)
           run == handle_call(f, got)
<1> USE DEF IInv
<1>1. run.cache = py /\ run.main = main
  BY DEF handle_call
<1>2. Cached(pycache, f) /\ got.hasChanged # 1
  BY DEF Compiles
<1>3. f \in Oids
  BY DEF Oids
<1>4. plc_procedure_valid(f)
  BY <1>2, <1>3, GotFacts
<1>5. From(got.cache, cache)
  BY <1>3, <1>4, GotFacts DEF From
<1>6. /\ py \in Seq(Compiled) /\ Len(py) <= ClientCacheSize
      /\ Distinct(py) /\ From(py, pycache)
      /\ Len(py) # 0 /\ py[1].oid = f /\ \E k \in 1..Len(pycache) : py[1] = pycache[k]
  BY <1>2, PyGetFacts
<1> HIDE DEF py, run, got
<1>7. InStep(got.cache, py, missed) /\ MainOK(py, main)
  BY <1>5, <1>6, LessInStep, LessMainOK
<1>8. 1 \in 1..Len(py) /\ py[1] \in Compiled
  BY <1>6, LenProperties
<1>9. f \in missed \/ py[1].code = <<f, catalog[f]>>
  <2>1. PICK k \in 1..Len(pycache) : py[1] = pycache[k]
    BY <1>6
  <2>2. PICK i \in 1..Len(cache) : cache[i].oid = f /\ cache[i].ver = catalog[f]
    BY <1>4, SlotFacts DEF plc_procedure_valid, CachesSound
  <2> QED BY <1>6, <2>1, <2>2 DEF InStep
<1>10. ObjectOf(py[1], main) = py[1].code \/ (ObjectOf(py[1], main) = NoCode /\ Shared(f))
  BY <1>6, <1>7, <1>8 DEF ObjectOf, MainOK
<1>11. ObjectOf(py[1], main) \in Objects
  BY <1>8 DEF ObjectOf, Objects, Compiled
<1>12. main \in [Names -> Objects]
  BY DEF Types
<1> QED BY <1>1, <1>6, <1>7, <1>9, <1>10, <1>11, <1>12 DEF Ready, got, run

-----------------------------------------------------------------------------
(* The steps *)

\* A call that reaches the client.
LEMMA CallKeepsIInv ==
    ASSUME IInv, NEW f \in Funcs, plcontainer_call_handler(f)
    PROVE  IInv'
<1> DEFINE got == plcontainer_procedure_get(f)
           run == handle_call(f, got)
           heard == IF Compiles(f, got) THEN missed \ {f} ELSE missed
           inner == [oid |-> f, ver |-> catalog[f], gone |-> {}, risk |-> {},
                     ran |-> ObjectOf(run.cache[1], run.main), late |-> {f} \cap heard]
           now == LastFirst(f, pyrecent, ClientCacheSize)
           outer == [i \in 1..Len(calls) |->
                        Marked(After(f, got)[i],
                               {p \in {"pyfunc"} : calls[i].oid \in run.freed},
                               {p \in {"pyfunc"} : \/ calls[i].oid \notin Range(now)
                                                   \/ Compiles(f, got) /\ calls[i].oid = f})]
<1> USE DEF IInv
<1>1. /\ ~CompileFails(f, got)
      /\ cache' = got.cache /\ pycache' = run.cache /\ main' = run.main
      /\ calls' = Append(outer, inner) /\ missed' = heard
      /\ catalog' = catalog /\ scans' = scans
  BY DEF plcontainer_call_handler, LookUp
<1> HIDE DEF got, run, heard, inner, now, outer
<1>2. Ready(f, run.cache, run.main, heard)
  <2>1. CASE Compiles(f, got)
    BY <1>1, <2>1, CompiledReady DEF got, run, heard
  <2>2. CASE ~Compiles(f, got)
    BY <2>2, KnownReady DEF got, run, heard
  <2> QED BY <2>1, <2>2
<1>3. /\ got.cache \in Seq(Entries) /\ Len(got.cache) <= CacheSize /\ Distinct(got.cache)
  BY GotFacts DEF Oids, got
<1>4. heard \subseteq Funcs
  BY DEF Types, heard
<1>5. After(f, got) \in Seq(Frames) /\ Len(After(f, got)) = Len(calls) /\ AllRanRight(After(f, got))
  BY AfterFacts DEF Types
<1>6. Len(calls) \in Nat /\ catalog \in [Oids -> Nat] /\ f \in Oids
  BY LenProperties DEF Types, Oids
<1>7. outer \in Seq(Frames) /\ Len(outer) = Len(calls) /\ AllRanRight(outer)
  <2> DEFINE a == After(f, got)
  <2> HIDE DEF a
  <2>1. ASSUME NEW i \in 1..Len(calls)
        PROVE  /\ outer[i] \in Frames
               /\ outer[i].oid = a[i].oid /\ outer[i].ver = a[i].ver
               /\ outer[i].ran = a[i].ran /\ outer[i].late = a[i].late
    <3>1. a[i] \in Frames
      BY <1>5, LenProperties DEF a
    <3>2. PICK x, y : /\ x \subseteq {"pyfunc"} /\ y \subseteq {"pyfunc"}
                      /\ outer[i] = Marked(a[i], x, y)
      BY SMTT(20) DEF a, outer
    <3>3. x \in Marks /\ y \in Marks
      BY <3>2 DEF Marks
    <3>4. LET r == Marked(a[i], x, y)
          IN  /\ r \in Frames
              /\ r.oid = a[i].oid /\ r.ver = a[i].ver
              /\ r.ran = a[i].ran /\ r.late = a[i].late
      BY <3>1, <3>3, MarkFacts
    <3> QED BY <3>2, <3>4
  <2>2. outer \in [1..Len(calls) -> Frames]
    BY <2>1 DEF outer
  <2>3. outer \in Seq(Frames) /\ Len(outer) = Len(calls)
    BY <1>6, <2>2, FunIsSeq
  <2> QED BY <1>5, <2>1, <2>3 DEF AllRanRight, RanRight, a
<1>8. inner \in Frames /\ RanRight(inner)
  <2> DEFINE ran == ObjectOf(run.cache[1], run.main)
  <2>1. /\ ran \in Objects
        /\ ran = <<f, catalog[f]>> \/ f \in heard \/ (ran = NoCode /\ Shared(f))
    BY <1>2 DEF Ready
  <2>2. inner = [oid |-> f, ver |-> catalog[f], gone |-> {}, risk |-> {},
                 ran |-> ran, late |-> {f} \cap heard]
    BY DEF inner
  <2> HIDE DEF ran
  <2>3. catalog[f] \in Nat /\ {f} \cap heard \in SUBSET Funcs /\ {} \in Marks
    BY <1>4, <1>6 DEF Marks
  <2>4. inner \in Frames
    BY <2>1, <2>2, <2>3 DEF Frames
  <2>5. /\ inner.oid = f /\ inner.ver = catalog[f] /\ inner.ran = ran
        /\ inner.late = {f} \cap heard
    BY <2>2
  <2>6. RanRight(inner)
    BY <2>1, <2>5 DEF RanRight
  <2> QED BY <2>4, <2>6
<1>9. calls' \in Seq(Frames) /\ AllRanRight(calls')
  <2>1. /\ Append(outer, inner) \in Seq(Frames)
        /\ Len(Append(outer, inner)) = Len(outer) + 1
        /\ \A i \in 1..Len(outer) : Append(outer, inner)[i] = outer[i]
        /\ Append(outer, inner)[Len(outer) + 1] = inner
    BY <1>7, <1>8, AppendProperties
  <2>2. \A i \in 1..(Len(outer) + 1) : i \in 1..Len(outer) \/ i = Len(outer) + 1
    BY <1>6, <1>7, SMTT(20)
  <2> QED BY <1>1, <1>7, <1>8, <2>1, <2>2 DEF AllRanRight
<1>10. Types'
  BY <1>1, <1>2, <1>3, <1>4, <1>9, SMTT(20) DEF Types, Ready
<1>11. CachesSound'
  BY <1>1, <1>2, <1>3, SMTT(20) DEF CachesSound, Ready
<1>12. InStep(cache, pycache, missed)' /\ MainOK(pycache, main)'
  BY <1>1, <1>2 DEF Ready, got
<1> QED BY <1>9, <1>10, <1>11, <1>12

\* A lookup the client does not hear of, or hears of without compiling.
LEMMA LookUpKeepsIInv ==
    ASSUME IInv, NEW f \in Funcs, LookUp(f, plcontainer_procedure_get(f)),
           calls' = After(f, plcontainer_procedure_get(f)), missed' = Missed(f),
           pycache' \in {pycache, plc_py_function_cache_get(f)},
           main' = main, catalog' = catalog, scans' \subseteq Funcs
    PROVE  IInv'
<1> DEFINE got == plcontainer_procedure_get(f)
<1>1. cache' = got.cache
  BY SMTT(20) DEF LookUp
<1> USE DEF IInv
<1>2. /\ got.cache \in Seq(Entries) /\ Len(got.cache) <= CacheSize /\ Distinct(got.cache)
  BY GotFacts DEF Oids
<1>3. /\ pycache' \in Seq(Compiled) /\ Len(pycache') <= ClientCacheSize
      /\ Distinct(pycache') /\ From(pycache', pycache)
  <2>1. CASE pycache' = pycache
    BY <2>1 DEF Types, CachesSound, From
  <2>2. CASE pycache' = plc_py_function_cache_get(f)
    BY <2>2, PyGetFacts
  <2> QED BY <2>1, <2>2
<1>4. calls' \in Seq(Frames) /\ AllRanRight(calls')
  BY AfterFacts DEF Types
<1>5. Missed(f) \subseteq Funcs
  BY DEF Missed, Types
<1>6. InStep(got.cache, pycache', Missed(f))
  BY <1>3, MissedInStep
<1>7. MainOK(pycache', main)
  BY <1>3, LessMainOK
<1> HIDE DEF got
<1>8. Types'
  BY <1>1, <1>2, <1>3, <1>4, <1>5, SMTT(20) DEF Types
<1>9. CachesSound'
  BY <1>1, <1>2, <1>3, SMTT(20) DEF CachesSound
<1> QED BY <1>1, <1>4, <1>6, <1>7, <1>8, <1>9

\* The end of a call, of a container and the failure to build a procedure.
LEMMA ReturnKeepsIInv ==
    ASSUME IInv, Return
    PROVE  IInv'
<1> USE DEF IInv
<1>1. /\ calls # <<>> /\ calls' = SubSeq(calls, 1, Len(calls) - 1)
      /\ scans' \in {scans, scans \cup ({calls[Len(calls)].oid} \cap SetReturning)}
      /\ UNCHANGED <<catalog, cache, pycache, main, missed>>
  BY DEF Return, client
<1>2. calls \in Seq(Frames) /\ Len(calls) \in Nat \ {0}
  BY <1>1, EmptySeq, LenProperties DEF Types
<1>3. calls[Len(calls)].oid \in Funcs
  <2>1. calls[Len(calls)] \in Frames
    BY <1>2, LenProperties
  <2> QED BY <2>1 DEF Frames
<1>4. /\ calls' \in Seq(Frames) /\ Len(calls') = Len(calls) - 1
      /\ \A i \in 1..(Len(calls) - 1) : calls'[i] = calls[i]
  <2> DEFINE n == Len(calls) - 1
  <2>1. n \in Nat /\ n + 1 = Len(calls) /\ 1 \in 1..(n + 1)
    BY <1>2
  <2> HIDE DEF n
  <2>2. /\ SubSeq(calls, 1, n) \in Seq(Frames) /\ Len(SubSeq(calls, 1, n)) = n
        /\ \A i \in 1..n : SubSeq(calls, 1, n)[i] = calls[i]
    BY <1>2, <2>1, SubSeqProperties
  <2> QED BY <1>1, <2>2 DEF n
<1>5. AllRanRight(calls')
  BY <1>2, <1>4 DEF AllRanRight
<1>6. scans' \subseteq Funcs
  BY <1>1, <1>3 DEF Types
<1>7. Types' /\ CachesSound'
  BY <1>1, <1>4, <1>6 DEF Types, CachesSound, Distinct
<1> QED BY <1>1, <1>5, <1>7 DEF InStep, MainOK

\* A call that fails while its procedure is being built (procedure_get) keeps
\* the invariant: both caches hold what they held.
LEMMA FailedBuildKeepsIInv ==
    ASSUME IInv, NEW f \in Funcs, FailsToBuild(f)
    PROVE  IInv'
<1> DEFINE got == [cache |-> function_cache_get(cache, f), hasChanged |-> 0, freed |-> {}]
           c == function_cache_get(cache, f)
<1> USE DEF IInv
<1>1. /\ cache' = c /\ calls' = After(f, got)
      /\ UNCHANGED <<catalog, pycache, main, scans, missed>>
  BY DEF FailsToBuild, LookUp, client
<1>2. c \in Seq(Entries) /\ Len(c) = Len(cache) /\ From(c, cache) /\ Distinct(c)
  BY GetFacts DEF Types, CachesSound
<1>3. calls' \in Seq(Frames) /\ AllRanRight(calls')
  BY <1>1, AfterFacts DEF Types
<1> HIDE DEF c, got
<1>4. InStep(c, pycache, missed)
  <2>1. From(pycache, pycache)
    BY DEF From
  <2> QED BY <1>2, <2>1, LessInStep
<1>5. Types' /\ CachesSound'
  BY <1>1, <1>2, <1>3 DEF Types, CachesSound, Distinct
<1>6. InStep(cache, pycache, missed)' /\ MainOK(pycache, main)'
  BY <1>1, <1>4, SMTT(20) DEF InStep, MainOK
<1> QED BY <1>3, <1>5, <1>6, SMTT(20)

\* Losing the container keeps the invariant: the client's cache goes with it.
LEMMA GoneKeepsIInv ==
    ASSUME IInv, ContainerGone
    PROVE  IInv'
<1> USE DEF IInv
<1>1. /\ calls' = <<>> /\ scans' = {} /\ pycache' = <<>> /\ missed' = {}
      /\ main' = [n \in Names |-> NoCode] /\ UNCHANGED <<catalog, cache>>
  BY DEF ContainerGone
<1>2. <<>> \in Seq(Frames) /\ <<>> \in Seq(Compiled) /\ Len(<<>>) = 0
  BY EmptySeq
<1>3. main' \in [Names -> Objects]
  BY <1>1 DEF Objects
<1>4. Types'
  BY <1>1, <1>2, <1>3 DEF Types
<1>5. CachesSound'
  BY <1>1, <1>2, CacheAssumption DEF CachesSound, Distinct
<1> QED BY <1>1, <1>2, <1>4, <1>5 DEF InStep, MainOK, AllRanRight

\* Every step keeps the invariant.
LEMMA NextKeepsIInv ==
    ASSUME IInv, [Next]_vars
    PROVE  IInv'
<1> USE DEF IInv
<1>1. CASE UNCHANGED vars
  <2>1. UNCHANGED <<catalog, cache, pycache, main, calls, scans, missed>>
    BY <1>1 DEF vars, client
  <2>2. Types' /\ CachesSound'
    BY <2>1 DEF Types, CachesSound, Distinct
  <2>3. InStep(cache, pycache, missed)' /\ MainOK(pycache, main)' /\ AllRanRight(calls)'
    BY <2>1 DEF InStep, MainOK, AllRanRight
  <2> QED BY <2>2, <2>3
<1>2. ASSUME NEW f \in Funcs, Replaced(f)
      PROVE  IInv'
  <2>1. /\ catalog' = [catalog EXCEPT ![f] = @ + 1]
        /\ UNCHANGED <<cache, pycache, main, calls, scans, missed>>
    BY <1>2 DEF Replaced, client
  <2>2. catalog' \in [Oids -> Nat]
    BY <2>1 DEF Types, Oids
  <2> QED BY <2>1, <2>2 DEF Types, CachesSound, Distinct, InStep, MainOK, AllRanRight
<1>3. ASSUME NEW f \in Funcs, plcontainer_validator(f)
      PROVE  IInv'
  <2> DEFINE got == plcontainer_procedure_get(Validator)
  <2>1. /\ catalog' = [catalog EXCEPT ![f] = @ + 1]
        /\ cache' = got.cache /\ calls' = After(Validator, got)
        /\ UNCHANGED <<pycache, main, scans, missed>>
    BY <1>3 DEF plcontainer_validator, LookUp, client
  <2>2. catalog' \in [Oids -> Nat]
    BY <2>1 DEF Types, Oids
  <2>3. got.cache \in Seq(Entries) /\ Len(got.cache) <= CacheSize /\ Distinct(got.cache)
    BY GotFacts DEF Oids
  <2>4. calls' \in Seq(Frames) /\ AllRanRight(calls')
    BY <2>1, AfterFacts DEF Types
  <2>5. InStep(got.cache, pycache, missed)
    BY ValidatorInStep
  <2> HIDE DEF got
  <2>6. Types' /\ CachesSound'
    BY <2>1, <2>2, <2>3, <2>4 DEF Types, CachesSound, Distinct
  <2> QED BY <2>1, <2>4, <2>5, <2>6 DEF InStep, MainOK
<1>4. ASSUME NEW f \in Funcs, plcontainer_call_handler(f)
      PROVE  IInv'
  BY <1>4, CallKeepsIInv
<1>5. ASSUME NEW f \in Funcs, DoesNotCompile(f)
      PROVE  IInv'
  <2>1. handle_call(f, plcontainer_procedure_get(f)).cache = plc_py_function_cache_get(f)
    BY <1>5 DEF DoesNotCompile, handle_call
  <2>2. scans' \subseteq Funcs
    BY <1>5 DEF DoesNotCompile, Types
  <2>3. /\ LookUp(f, plcontainer_procedure_get(f)) /\ missed' = Missed(f)
        /\ calls' = After(f, plcontainer_procedure_get(f))
        /\ pycache' = plc_py_function_cache_get(f) /\ main' = main /\ catalog' = catalog
    BY <1>5, <2>1 DEF DoesNotCompile
  <2>4. pycache' \in {pycache, plc_py_function_cache_get(f)}
    BY <2>3
  <2> QED BY <2>2, <2>3, <2>4, LookUpKeepsIInv, SMTT(20)
<1>6. ASSUME NEW f \in Funcs, FailsBeforeClient(f)
      PROVE  IInv'
  <2>1. scans' \subseteq Funcs
    BY <1>6 DEF FailsBeforeClient, Types
  <2>2. /\ LookUp(f, plcontainer_procedure_get(f)) /\ missed' = Missed(f)
        /\ calls' = After(f, plcontainer_procedure_get(f))
        /\ pycache' = pycache /\ main' = main /\ catalog' = catalog
    BY <1>6 DEF FailsBeforeClient, client
  <2> QED BY <2>1, <2>2, LookUpKeepsIInv, SMTT(20)
<1>7. ASSUME NEW f \in Funcs, FailsToBuild(f)
      PROVE  IInv'
  BY <1>7, FailedBuildKeepsIInv
<1>8. ASSUME NEW f \in Funcs, FetchRow(f)
      PROVE  IInv'
  <2>1. scans' \subseteq Funcs
    BY <1>8 DEF FetchRow, Types
  <2>2. /\ LookUp(f, plcontainer_procedure_get(f)) /\ missed' = Missed(f)
        /\ calls' = After(f, plcontainer_procedure_get(f))
        /\ pycache' = pycache /\ main' = main /\ catalog' = catalog
    BY <1>8 DEF FetchRow, client
  <2> QED BY <2>1, <2>2, LookUpKeepsIInv, SMTT(20)
<1>9. CASE Return
  BY <1>9, ReturnKeepsIInv
<1>10. CASE ContainerGone
  BY <1>10, GoneKeepsIInv
<1> QED
  <2> HIDE DEF IInv
  <2> QED BY <1>1, <1>2, <1>3, <1>4, <1>5, <1>6, <1>7, <1>8, <1>9, <1>10 DEF Next

\* The invariant holds in every reachable state, for every set of functions and
\* names, every set of sources that do not compile and caches of every size.
THEOREM InductiveInvariant == Spec => []IInv
<1>1. Init => IInv
  <2> SUFFICES ASSUME Init PROVE IInv
    OBVIOUS
  <2>1. <<>> \in Seq(Frames) /\ <<>> \in Seq(Compiled) /\ <<>> \in Seq(Entries) /\ Len(<<>>) = 0
    BY EmptySeq
  <2>2. main \in [Names -> Objects] /\ catalog \in [Oids -> Nat]
    BY DEF Init, Objects
  <2>3. Types
    BY <2>1, <2>2 DEF Init, Types
  <2>4. CachesSound
    BY <2>1, CacheAssumption DEF Init, CachesSound, Distinct
  <2> QED BY <2>1, <2>3, <2>4 DEF Init, IInv, InStep, MainOK, AllRanRight
<1>2. IInv /\ [Next]_vars => IInv'
  BY NextKeepsIInv
<1> QED BY <1>1, <1>2, PTL DEF Spec

\* The client runs the version the QE looked up, from its own source, but for the
\* two exceptions that RunsCurrent names (handle_call with plcontainer_procedure_get).
THEOREM RunsCurrentCorrect == Spec => []RunsCurrent
<1>1. IInv => RunsCurrent
  <2> SUFFICES ASSUME IInv, calls # <<>>
               PROVE  RanRight(calls[Len(calls)])
    BY DEF RunsCurrent, RanRight, Shared
  <2>1. Len(calls) \in 1..Len(calls)
    BY EmptySeq, LenProperties DEF IInv, Types
  <2> QED BY <2>1 DEF IInv, AllRanRight
<1> QED BY <1>1, InductiveInvariant, PTL

\* The arrays of function_cache.c and pycache.c never overflow and never hold two
\* entries for one function.
THEOREM CachesSoundCorrect == Spec => []CachesSound
<1>1. IInv => CachesSound
  BY DEF IInv
<1> QED BY <1>1, InductiveInvariant, PTL
=============================================================================
