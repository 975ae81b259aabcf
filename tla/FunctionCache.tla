---------------------------- MODULE FunctionCache ----------------------------
(***************************************************************************)
(* What a session and its Python client remember about functions: the     *)
(* cache of plcProcInfo in the QE (function_cache.c, message_fns.c), the   *)
(* cache of compiled functions in the client (pycache.c, pycall.c), and    *)
(* the hasChanged flag of a call request that keeps the second in step     *)
(* with the first.                                                         *)
(*                                                                         *)
(* Both caches are arrays ordered by last use, and an entry that leaves    *)
(* one is freed.  A call in progress keeps pointers to its two entries:    *)
(* gone tells which of them, "proc" and "pyfunc", lead to freed memory.    *)
(***************************************************************************)
EXTENDS Integers, Sequences, FiniteSets, Functions

CONSTANTS
    Funcs,          \* the oids of the user's functions
    Validator,      \* the oid of plcontainer_validator
    Names,          \* proname
    NameOf,         \* [Funcs -> Names]
    BadSource,      \* <<function, version>> that does not compile
    CacheSize,      \* PLC_FUNCTION_CACHE_SIZE
    ClientCacheSize,\* PLC_PY_FUNCTION_CACHE_SIZE
    SetReturning,   \* the functions that return a set
    MaxReplaced,    \* bound: how often functions are replaced
    MaxDepth        \* bound: how deep calls nest

ASSUME CacheAssumption ==
    /\ CacheSize \in Nat \ {0}
    /\ ClientCacheSize \in Nat \ {0}
    /\ Validator \notin Funcs
    /\ NameOf \in [Funcs -> Names]

VARIABLES
    catalog,        \* the version of each function in pg_proc, with its row types
    cache,          \* plcFunctionCache up to its first NULL: a plcProcInfo each
    pycache,        \* plcPyFuncCache of the client: a plcPyFunction each
    main,           \* the function object each name has in __main__
    calls,          \* the calls in progress, outermost first
    scans,          \* set-returning functions with rows left to fetch
    recent, pyrecent, \* observers: the functions last looked up, as many as a cache holds
    missed          \* observer: functions whose change the client was not told of

client == <<pycache, main, pyrecent>>
vars == <<catalog, cache, client, calls, scans, recent, missed>>

Oids == Funcs \cup {Validator}
NoCode == <<"no function">>

Init ==
    /\ catalog = [f \in Oids |-> 1]
    /\ cache = <<>>
    /\ pycache = <<>>
    /\ main = [n \in Names |-> NoCode]
    /\ calls = <<>>
    /\ scans = {}
    /\ recent = <<>>
    /\ pyrecent = <<>>
    /\ missed = {}

-----------------------------------------------------------------------------
(* The caches: arrays of entries with an oid *)

function_cache_up(c, i) ==
    [j \in 1..Len(c) |-> IF j = 1 THEN c[i] ELSE IF j <= i THEN c[j - 1] ELSE c[j]]

Cached(c, f) == \E i \in 1..Len(c) : c[i].oid = f
Slot(c, f) == CHOOSE i \in 1..Len(c) : c[i].oid = f

\* Variant: a hit leaves the order as it is.
StaysInPlace(c, f) == c
\* The array once f was looked for: found, it is in front.
function_cache_get(c, f) == IF Cached(c, f) THEN function_cache_up(c, Slot(c, f)) ELSE c

\* Variant: it is the first entry of a full array that goes.
EvictsFirst(c, entry, size) ==
    IF Cached(c, entry.oid)
    THEN [cache |-> <<entry>> \o Tail(function_cache_get(c, entry.oid)),
          freed |-> {entry.oid}]
    ELSE IF Len(c) = size THEN [cache |-> <<entry>> \o Tail(c), freed |-> {c[1].oid}]
    ELSE [cache |-> <<entry>> \o c, freed |-> {}]
\* The array with an entry put in front, and the functions whose entry is freed:
\* the old one of the same function, or the last one of a full array.
function_cache_put(c, entry, size) ==
    IF Cached(c, entry.oid)
    THEN [cache |-> <<entry>> \o Tail(function_cache_get(c, entry.oid)),
          freed |-> {entry.oid}]
    ELSE [cache |-> <<entry>> \o SubSeq(c, 1, IF Len(c) = size THEN size - 1 ELSE Len(c)),
          freed |-> IF Len(c) = size THEN {c[size].oid} ELSE {}]

-----------------------------------------------------------------------------
(* The QE looks a function up *)

plc_procedure_valid(f) == Cached(cache, f) /\ cache[Slot(cache, f)].ver = catalog[f]

\* A valid entry is used as it is, otherwise a new one is built.  hasChanged says
\* which: the request that follows copies it.
plcontainer_procedure_get(f) ==
    LET c == function_cache_get(cache, f)
        put == function_cache_put(c, [oid |-> f, ver |-> catalog[f]], CacheSize)
    IN  IF plc_procedure_valid(f)
        THEN [proc |-> c[1], hasChanged |-> 0, cache |-> c, freed |-> {}]
        ELSE [proc |-> put.cache[1], hasChanged |-> 1, cache |-> put.cache,
              freed |-> put.freed]

\* The functions last looked up once f is, and the changes the client has not
\* heard of when f is looked up without being compiled.
LastFirst(f, seq, size) ==
    LET all == <<f>> \o SelectSeq(seq, LAMBDA g : g # f)
    IN  SubSeq(all, 1, IF Len(all) < size THEN Len(all) ELSE size)
Missed(f) ==
    IF Cached(pycache, f) /\ ~plc_procedure_valid(f) THEN missed \cup {f} ELSE missed

\* The calls in progress when f is looked up.  What their pointer leads to is
\* gone once it is freed; it was at risk if their function is no longer among the
\* last looked up, or a new version of it was cached.
Marked(c, gone, risk) ==
    [oid |-> c.oid, ver |-> c.ver, gone |-> c.gone \cup gone, risk |-> c.risk \cup risk,
     ran |-> c.ran, late |-> c.late]
After(f, got) ==
    [i \in 1..Len(calls) |->
        Marked(calls[i],
               {p \in {"proc"} : calls[i].oid \in got.freed},
               {p \in {"proc"} : \/ calls[i].oid \notin Range(LastFirst(f, recent, CacheSize))
                                 \/ got.hasChanged = 1 /\ calls[i].oid = f})]

LookUp(f, got) ==
    /\ cache' = got.cache
    /\ recent' = LastFirst(f, recent, CacheSize)

-----------------------------------------------------------------------------
(* The client runs it *)

plc_py_function_cache_get(f) == function_cache_get(pycache, f)
plc_py_function_cache_put(c, entry) == function_cache_put(c, entry, ClientCacheSize)

\* Variant: what the client has, it runs.
CompilesOnce(f, got) == ~Cached(pycache, f)
Compiles(f, got) == ~Cached(pycache, f) \/ got.hasChanged = 1
CompileFails(f, got) == Compiles(f, got) /\ <<f, got.proc.ver>> \in BadSource

\* handle_call up to the call of the function.  One that is new to the client or
\* has changed is compiled into __main__ under its bare name; if that fails only
\* the lookup has had an effect.
handle_call(f, got) ==
    LET c == plc_py_function_cache_get(f)
        code == <<f, got.proc.ver>>
        put == plc_py_function_cache_put(c, [oid |-> f, code |-> code])
    IN  IF Compiles(f, got) /\ ~CompileFails(f, got)
        THEN [cache |-> put.cache, freed |-> put.freed,
              main |-> [main EXCEPT ![NameOf[f]] = code]]
        ELSE [cache |-> c, freed |-> {}, main |-> main]

\* pyfunc->pyfunc, a borrowed reference: only __main__ keeps the object alive.
ObjectOf(pyfunc, m) ==
    IF m[NameOf[pyfunc.oid]] = pyfunc.code THEN pyfunc.code ELSE NoCode

-----------------------------------------------------------------------------
(* Actions *)

Replacements == FoldFunction(+, 0, catalog) - Cardinality(Oids)

\* Another session replaces the function, or a row type it uses.
Replaced(f) ==
    /\ Replacements < MaxReplaced
    /\ catalog' = [catalog EXCEPT ![f] = @ + 1]
    /\ UNCHANGED <<cache, client, calls, scans, recent, missed>>

\* CREATE OR REPLACE FUNCTION in this session: plcontainer_validator looks up the
\* function it was itself called by.
plcontainer_validator(f) ==
    /\ Replacements < MaxReplaced
    /\ catalog' = [catalog EXCEPT ![f] = @ + 1]
    /\ LookUp(Validator, plcontainer_procedure_get(Validator))
    /\ calls' = After(Validator, plcontainer_procedure_get(Validator))
    /\ UNCHANGED <<client, scans, missed>>

\* A call that reaches the client: the procedure is looked up, the request is
\* sent, and the client starts to run it.
plcontainer_call_handler(f) ==
    /\ Len(calls) < MaxDepth
    /\ LET got == plcontainer_procedure_get(f)
           run == handle_call(f, got)
           compiled == Compiles(f, got)
           now == LastFirst(f, pyrecent, ClientCacheSize)
           heard == IF compiled THEN missed \ {f} ELSE missed
           inner == [oid |-> f, ver |-> catalog[f], gone |-> {}, risk |-> {},
                     ran |-> ObjectOf(run.cache[1], run.main), late |-> {f} \cap heard]
           outer == [i \in 1..Len(calls) |->
                        Marked(After(f, got)[i],
                               {p \in {"pyfunc"} : calls[i].oid \in run.freed},
                               {p \in {"pyfunc"} : \/ calls[i].oid \notin Range(now)
                                                   \/ compiled /\ calls[i].oid = f})]
       IN  /\ ~CompileFails(f, got)
           /\ LookUp(f, got)
           /\ pycache' = run.cache
           /\ main' = run.main
           /\ pyrecent' = now
           /\ calls' = Append(outer, inner)
           /\ missed' = heard
    /\ UNCHANGED <<catalog, scans>>

\* The same, but the client finds that the source does not compile.
DoesNotCompile(f) ==
    /\ Len(calls) < MaxDepth
    /\ LET got == plcontainer_procedure_get(f)
       IN  /\ CompileFails(f, got)
           /\ LookUp(f, got)
           /\ pycache' = handle_call(f, got).cache
           /\ pyrecent' = IF Cached(pycache, f)
                          THEN LastFirst(f, pyrecent, ClientCacheSize) ELSE pyrecent
           /\ calls' = After(f, got)
           /\ missed' = Missed(f)
    /\ UNCHANGED <<catalog, main, scans>>

\* A call that fails between the lookup and the client: its runtime is not
\* configured, not allowed, or its container does not start.
FailsBeforeClient(f) ==
    /\ Len(calls) < MaxDepth
    /\ LookUp(f, plcontainer_procedure_get(f))
    /\ calls' = After(f, plcontainer_procedure_get(f))
    /\ missed' = Missed(f)
    /\ UNCHANGED <<catalog, client, scans>>

\* fill_type_info refuses a type: the lookup fails before anything is cached.
FailsToBuild(f) ==
    /\ Len(calls) < MaxDepth
    /\ Cached(cache, f) /\ ~plc_procedure_valid(f)
    /\ LET got == [cache |-> function_cache_get(cache, f), hasChanged |-> 0, freed |-> {}]
       IN  LookUp(f, got) /\ calls' = After(f, got)
    /\ UNCHANGED <<catalog, client, scans, missed>>

\* The innermost call ends, with a result or an exception that SQL catches.
Return ==
    /\ calls # <<>>
    /\ calls' = SubSeq(calls, 1, Len(calls) - 1)
    /\ scans' \in {scans, scans \cup ({calls[Len(calls)].oid} \cap SetReturning)}
    /\ UNCHANGED <<catalog, cache, client, recent, missed>>

\* The next row of a set: the function is looked up, but nothing is sent.
FetchRow(f) ==
    /\ f \in scans
    /\ LookUp(f, plcontainer_procedure_get(f))
    /\ calls' = After(f, plcontainer_procedure_get(f))
    /\ scans' \in {scans, scans \ {f}}
    /\ missed' = Missed(f)
    /\ UNCHANGED <<catalog, client>>

\* The container is gone with its client, and every call in progress fails.
ContainerGone ==
    /\ calls' = <<>>
    /\ scans' = {}
    /\ pycache' = <<>>
    /\ main' = [n \in Names |-> NoCode]
    /\ pyrecent' = <<>>
    /\ missed' = {}
    /\ UNCHANGED <<catalog, cache, recent>>

Next ==
    \/ \E f \in Funcs : \/ Replaced(f)
                        \/ plcontainer_validator(f)
                        \/ plcontainer_call_handler(f)
                        \/ DoesNotCompile(f)
                        \/ FailsBeforeClient(f)
                        \/ FailsToBuild(f)
                        \/ FetchRow(f)
    \/ Return
    \/ ContainerGone

Spec == Init /\ [][Next]_vars

-----------------------------------------------------------------------------
(* Properties *)

\* function_cache_get and _put, and their twins in the client, keep the most
\* recently used functions: each cache holds the functions that were looked up
\* last, each once and in that order.
MostRecentlyUsed ==
    /\ [i \in 1..Len(cache) |-> cache[i].oid] = recent
    /\ [i \in 1..Len(pycache) |-> pycache[i].oid] = pyrecent

\* A call in progress can use its plcProcInfo, and the client its plcPyFunction,
\* as long as its function stays among those last looked up and was not itself
\* looked up in a newer version: what free_proc_info and plc_py_free_function
\* give back to malloc is not in use by an enclosing call then.
InUseIntact ==
    \A i \in 1..Len(calls) :
        calls[i].gone \subseteq calls[i].risk

\* The client runs the version of a function that the QE looked up, compiled
\* from its own source, unless hasChanged was lost on an earlier lookup of it
\* (one that reached no client, or whose source did not compile) or the client
\* has compiled another function of the same name since.
RunsCurrent ==
    calls # <<>> =>
        LET c == calls[Len(calls)]
        IN  \/ c.ran = <<c.oid, c.ver>>
            \/ c.oid \in c.late
            \/ c.ran = NoCode /\ \E g \in Funcs \ {c.oid} : NameOf[g] = NameOf[c.oid]

\* "the function structure should be available across the function handler
\* call" (message_fns.c): whatever runs meanwhile.
ProcAvailable ==
    \A i \in 1..Len(calls) : "proc" \notin calls[i].gone
=============================================================================
