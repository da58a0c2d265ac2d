----------------------------- MODULE CacheTests ------------------------------
(***************************************************************************)
(* The test program of the caches, apps/os_feature_tests/cache/            *)
(* cache_test.c, as a client of Cache: each case is the sequence of its    *)
(* accesses, operations and comparisons.  A comparison with the value that *)
(* was written last, by the processor or behind the alias that is not      *)
(* cached, is one with the latest value.                                   *)
(*                                                                         *)
(* The program relies on two things: no line comes into the data cache     *)
(* unasked between an invalidation and the writes behind the alias, and    *)
(* (if Quiet) no interrupt writes memory between the last clean and the    *)
(* critical section of CACHE-005.                                          *)
(***************************************************************************)
EXTENDS Cache, Integers, Sequences

CONSTANTS
    g_buffer, g_code,   \* first bytes of four lines and of one line
    Foreign,            \* a byte of the kernel that an interrupt writes
    Quiet

VARIABLES script, verdict, critical

cacheTestVars == <<script, verdict, critical>>

Op(op, arg) == [op |-> op, arg |-> arg]

Put(S) == Op("store", S)
PutAlias(S) == Op("alias", S)
Expect(S) == Op("see", S)
ExpectAlias(S) == Op("see alias", S)
Mhcr(ie, d) == Op("mhcr", <<ie, d>>)
Do(op) == Op(op, {})

\* The bytes from the first to before the last of the buffer, in lines and
\* bytes: [33, 63) of lines of 32 bytes is Part(1, 1, 2, -1).
At(lines, bytes) == g_buffer + lines * Line + bytes
Part(l1, b1, l2, b2) == At(l1, b1) .. At(l2, b2) - 1
Whole == Part(0, 0, 4, 0)
Span(l1, b1, l2, b2) == <<At(l1, b1), At(l2, b2)>>

\* CACHE-002: code is written, executed, changed and executed again.
run_case_002 ==
    <<Put({g_code, g_code + 1}), Op("coherent", <<g_code, 2>>), Op("execute", {g_code, g_code + 1}),
      Put({g_code}), Op("coherent", <<g_code, 1>>), Op("execute", {g_code, g_code + 1})>>

\* CACHE-003: both caches are switched, each once more than needed, and a dirty
\* byte outlives it.
run_case_003 ==
    <<Do("enter"), Do("icache on"), Do("dcache on"), Mhcr(TRUE, TRUE),
      Do("icache off"), Mhcr(FALSE, TRUE), Do("icache off"), Do("icache on"),
      PutAlias({At(0, 0)}), Op("invalidate", Span(0, 0, 1, 0)), Put({At(0, 0)}),
      Do("dcache on"), Do("dcache off"), Mhcr(TRUE, FALSE), ExpectAlias({At(0, 0)}),
      Do("dcache off"), Do("dcache on"), Mhcr(TRUE, TRUE), Expect({At(0, 0)}),
      Do("icache on"), Do("dcache on"), Do("leave")>>

\* A part of the buffer is given to a producer, which writes behind the alias.
Produce(l1, b1, l2, b2) ==
    <<Op("invalidate", Span(l1, b1, l2, b2)), PutAlias(Part(l1, b1, l2, b2))>>

\* CACHE-004: a clean is seen behind the alias; a producer of whole lines, of
\* the inside of a line and of all but two bytes of four lines.
run_case_004 ==
    <<Put(Whole), Op("clean", Span(0, 0, 4, 0)), ExpectAlias(Whole)>>
    \o Produce(1, 0, 3, 0) \o <<Expect(Whole), Put(Whole)>>
    \o Produce(1, 1, 2, -1) \o <<Expect(Part(0, 0, 2, 0)), Put(Whole)>>
    \o Produce(0, 1, 4, -1) \o <<Expect(Whole)>>

\* CACHE-005: the operations on the whole cache, the last one on another stack.
run_case_005 ==
    <<Put({At(0, 0)}), Do("clean all"), ExpectAlias({At(0, 0)}),
      Put({At(0, 0)}), Op("flush", Span(0, 0, 1, 0)), ExpectAlias({At(0, 0)}),
      Op("refetch", <<g_code, g_code + Line>>), Do("refetch all"),
      Do("flush all"), ExpectAlias({At(0, 0)}),
      Do("clean all"), PutAlias({At(0, 0)}),
      Do("enter quietly"), Do("invalidate all"), Do("leave"), Expect({At(0, 0)})>>

\* The option "all"; CACHE-001 compares constants.  The buffer and the code
\* are the test's own.
CacheTestInit ==
    /\ script = <<Do("begin")>> \o run_case_002 \o run_case_003 \o run_case_004 \o run_case_005
    /\ verdict = "running" /\ critical = FALSE
-----------------------------------------------------------------------------
Head1 == Head(script)
Is(op) == pc = "idle" /\ script # <<>> /\ Head1.op = op

Step == script' = Tail(script)

\* Calls of one step: the effect on the caches, and what it is called.
Effect ==
    \/ Is("clean") /\ CleanDcache(Head1.arg)
    \/ Is("invalidate") /\ InvalidateDcache(Head1.arg)
    \/ Is("flush") /\ FlushDcache(Head1.arg)
    \/ Is("refetch") /\ InvalidateIcache(Head1.arg)
    \/ Is("clean all") /\ CleanDcacheAll
    \/ Is("flush all") /\ FlushDcacheAll
    \/ Is("invalidate all") /\ InvalidateDcacheAll
    \/ Is("refetch all") /\ InvalidateIcacheAll
    \/ Is("icache on") /\ EnableIcache
    \/ Is("icache off") /\ DisableIcache
    \/ Is("dcache on") /\ EnableDcache
    \/ Is("dcache off") /\ DisableDcache
    \/ Is("store") /\ Store(Head1.arg)
    \/ Is("alias") /\ StoreMemory(Head1.arg)

EffectStep ==
    /\ Effect /\ Step
    /\ UNCHANGED <<pc, range, userVars, verdict, critical>>

CoherentStep ==
    \/ Is("coherent") /\ Coherent(Head1.arg[1], Head1.arg[2]) /\ UNCHANGED cacheTestVars
    \/ CoherentEnds /\ Step /\ UNCHANGED <<verdict, critical>>

\* What is compared; the lines that are read come in.
Holds ==
    CASE Head1.op = "see" -> \A b \in Head1.arg : Reads(b)
      [] Head1.op = "see alias" -> \A b \in Head1.arg : ReadsMemory(b)
      [] Head1.op = "execute" -> \A b \in Head1.arg : Executes(b)
      [] Head1.op = "mhcr" -> Head1.arg = <<en, de>>

ComesIn ==
    IF Head1.op = "see" /\ de
    THEN /\ cached' = cached \cup LineOf(Head1.arg)
         /\ good' = good \cup (fresh \cap BytesOf(LineOf(Head1.arg) \ cached))
    ELSE UNCHANGED <<cached, good>>

CompareStep ==
    /\ Is("see") \/ Is("see alias") \/ Is("execute") \/ Is("mhcr")
    /\ verdict' = IF Holds THEN verdict ELSE "fail"
    /\ ComesIn /\ Step
    /\ UNCHANGED <<de, en, fresh, dirty, icached, igood, pc, range, userVars, critical>>

\* enter_critical_section and leave_critical_section; the test owns its arrays.
FrameStep ==
    /\ Is("begin") \/ Is("enter") \/ Is("enter quietly") \/ Is("leave")
    /\ critical' = (Head1.op \in {"enter", "enter quietly"})
    /\ leased' = IF Head1.op = "begin" THEN Whole \cup BytesOf({g_code}) ELSE leased
    /\ code' = code \ leased'
    /\ Step
    /\ UNCHANGED <<cacheVars, pc, range, source, spoiled, verdict>>

\* main counts the cases that pass.
Summary ==
    /\ pc = "idle" /\ script = <<>> /\ verdict = "running"
    /\ verdict' = "pass"
    /\ UNCHANGED <<allVars, script, critical>>

\* An interrupt handler writes what is its own.
InterruptWrites ==
    /\ pc \in {"idle", "coherent"} /\ ~critical /\ script # <<>>
    /\ Quiet => Head1.op \notin {"alias", "enter quietly"}
    /\ Store({Foreign})
    /\ code' = code \ {Foreign}
    /\ UNCHANGED <<pc, range, leased, source, spoiled, cacheTestVars>>

\* Lines go out at any time and code comes in at any time.
Unasked ==
    /\ \/ \E b \in {At(0, 0), At(3, 0), g_code} : Evict(AlignDown(b))
       \/ FillCode(g_code)
    /\ UNCHANGED cacheTestVars

CacheTestNext ==
    \/ (EarlyInit \/ AfterLoadClean \/ AfterLoadInvalidate) /\ UNCHANGED cacheTestVars
    \/ EffectStep \/ CoherentStep \/ CompareStep \/ FrameStep \/ Summary
    \/ InterruptWrites \/ Unasked
-----------------------------------------------------------------------------
\* The test program of the caches passes: code updates, switches, ranges that
\* end inside of lines and the operations on everything
\* (apps/os_feature_tests/cache/README.md).
CacheTestPasses == verdict # "fail"
=============================================================================
