-------------------------------- MODULE Cache --------------------------------
(***************************************************************************)
(* Cache maintenance, chips/bl616cl/bl616cl_cache.c, with the two caches   *)
(* it works on, the processor, devices that read and write the memory and  *)
(* code that is loaded into it.                                            *)
(*                                                                         *)
(* A byte has one latest value, written by the processor or by a device.   *)
(* Which copies hold it is all the model keeps: fresh is the set of bytes  *)
(* whose latest value is in memory, good and igood those whose latest      *)
(* value is in the data and in the instruction cache.                      *)
(*                                                                         *)
(* The lines of a range do not depend on each other: one operation on a    *)
(* range is one step, two operations on it are two.                        *)
(*                                                                         *)
(* An operator with "_" in its name is a faulty variant of the operator    *)
(* that follows it; no specification uses it.                              *)
(***************************************************************************)
EXTENDS Naturals

CONSTANTS
    Line,           \* BL616CL_CACHE_LINE_SIZE
    Top,            \* UINTPTR_MAX
    IntMax,         \* INT32_MAX
    RamStart, RamEnd, XipStart, XipEnd,    \* symbols of the linker script
    Used,           \* bytes that processor and devices write
    Ranges          \* pairs of start and end that operations are called with

Ram == RamStart .. RamEnd - 1
Bytes == Ram \cup XipStart .. XipEnd - 1

\* bl616cl_cache_align_down.  A line is known by its first byte.
AlignDown(a) == a - (a % Line)
LineOf(S) == {AlignDown(b) : b \in S}
BytesOf(lines) == {b \in Bytes : AlignDown(b) \in lines}
Lines == LineOf(Bytes)

ConstantsOK ==
    /\ Line \in Nat \ {0} /\ {Top, IntMax} \subseteq Nat /\ IntMax >= Line
    /\ \A a \in {RamStart, RamEnd, XipStart, XipEnd} : a \in 0 .. Top /\ a % Line = 0
    /\ RamEnd + Line - 1 <= Top
    /\ Used \subseteq Ram /\ Ranges \subseteq (0 .. Top) \X (0 .. Top)

VARIABLES
    de, en,         \* BL616CL_MHCR_DE and BL616CL_MHCR_IE
    fresh,
    cached, dirty, good,    \* lines of the data cache, and what they hold
    icached, igood, \* lines of the instruction cache
    pc, range,      \* the place in the operation under way, and its range
    \* what the users of the bytes may count on
    leased,         \* bytes handed to a device that writes them
    source,         \* bytes handed to a device that reads them
    spoiled,        \* leased bytes that no device wrote yet, or whose line the
                    \* processor wrote to meanwhile
    code            \* bytes that can be executed

cacheVars == <<de, en, fresh, cached, dirty, good, icached, igood>>
userVars == <<leased, source, spoiled, code>>
allVars == <<cacheVars, pc, range, userVars>>

\* Reset: the caches are off and hold anything.
Init ==
    /\ de = FALSE /\ en = FALSE /\ fresh = Bytes
    /\ cached \in {{}, Lines} /\ dirty \in {{}, cached} /\ good = {}
    /\ icached \in {{}, Lines} /\ igood = {}
    /\ pc = "reset" /\ range = <<0, 0>>
    /\ leased = {} /\ source = {} /\ spoiled = {} /\ code = {}
-----------------------------------------------------------------------------
(* Ranges                                                                  *)

Contains(s, e, first, last) == s >= first /\ s < last /\ e > s /\ e <= last

RamContains(s, e) == Contains(s, e, RamStart, RamEnd)

IcacheContains(s, e) == RamContains(s, e) \/ Contains(s, e, XipStart, XipEnd)

\* Where the last byte is: the sum of the alignment is cut to a word.
AlignUp(e) == AlignDown((e + Line - 1) % (Top + 1))

InDomain(s, e, icache) == IF icache THEN IcacheContains(s, e) ELSE RamContains(s, e)

\* bl616cl_cache_prepare_range: the range is accepted.
Prepared(r, icache) ==
    /\ r[2] > r[1]
    /\ r[2] <= Top - (Line - 1)
    /\ InDomain(AlignDown(r[1]), AlignUp(r[2]), icache)

ChunkMax == AlignDown(IntMax)

Chunk(rest) == IF rest > ChunkMax THEN ChunkMax ELSE rest

\* What bflb_l1c does with a start and a size: nothing for a size that is
\* negative as an int32_t.
L1c(start, size) == IF size > IntMax THEN {} ELSE {l \in Lines : start <= l /\ l < start + size}

\* bl616cl_cache_range_operation: the lines it reaches, chunk by chunk.
RangeLines(s, e) ==
    UNION {L1c(c, Chunk(e - c)) :
             c \in {x \in {s + k * ChunkMax : k \in 0 .. Top \div ChunkMax} : x < e}}

RangeOf(r, icache) ==
    IF Prepared(r, icache) THEN RangeLines(AlignDown(r[1]), AlignUp(r[2])) ELSE {}

Partial_not(r) == {}

\* up_invalidate_dcache: the first and the last line, where the range starts
\* or ends inside of them, hold bytes of others and are cleaned as well.
Partial(r) == {l \in {AlignDown(r[1])} : l # r[1]}
              \cup {l \in {AlignUp(r[2]) - Line} : AlignUp(r[2]) # r[2]}
-----------------------------------------------------------------------------
(* What the caches do                                                      *)

DropSet(lines) ==
    /\ cached' = cached \ lines
    /\ good' = good \ BytesOf(lines)

\* Lines that are cleaned, and lines that are dropped, dirty or not.
Operate(cleaned, dropped) ==
    LET out == BytesOf(cleaned \cap dirty)
    IN  /\ fresh' = (fresh \ out) \cup (good \cap out)
        /\ dirty' = dirty \ (cleaned \cup dropped)
        /\ DropSet(dropped)

InvalidateSet(lines) ==
    /\ icached' = icached \ lines
    /\ igood' = igood \ BytesOf(lines)

\* A line makes room for another, written back if it is dirty.
Evict(l) ==
    /\ l \in cached /\ de
    /\ Operate({l}, {l})
    /\ UNCHANGED <<de, en, icached, igood, pc, range, userVars>>

\* A line comes in, asked for or not.
Fill(l) ==
    /\ l \notin cached /\ de
    /\ cached' = cached \cup {l} /\ good' = good \cup (fresh \cap BytesOf({l}))
    /\ UNCHANGED <<de, en, fresh, dirty, icached, igood, pc, range, userVars>>

FillCode(l) ==
    /\ l \notin icached /\ en
    /\ icached' = icached \cup {l} /\ igood' = igood \cup (fresh \cap BytesOf({l}))
    /\ UNCHANGED <<de, en, fresh, cached, dirty, good, pc, range, userVars>>

\* The processor writes; a line that is not there is brought in first.
Store(S) ==
    /\ IF de THEN /\ cached' = cached \cup LineOf(S) /\ dirty' = dirty \cup LineOf(S)
                  /\ good' = good \cup S \cup (fresh \cap BytesOf(LineOf(S) \ cached))
                  /\ fresh' = fresh \ S
             ELSE fresh' = fresh \cup S /\ UNCHANGED <<cached, dirty, good>>
    /\ igood' = igood \ S
    /\ UNCHANGED <<de, en, icached>>

\* A device writes, or the processor behind the alias that is not cached.
StoreMemory(S) ==
    /\ fresh' = fresh \cup S
    /\ good' = good \ S /\ igood' = igood \ S
    /\ UNCHANGED <<de, en, cached, dirty, icached>>

\* The processor reads the latest value; a device does; it is executed.
Reads(b) == IF de /\ AlignDown(b) \in cached THEN b \in good ELSE b \in fresh
ReadsMemory(b) == b \in fresh
Executes(b) == IF en /\ AlignDown(b) \in icached THEN b \in igood ELSE b \in fresh
-----------------------------------------------------------------------------
(* Start                                                                   *)

\* The lines that bl616cl_dcache_invalidate_all drops before the cache is on.
DropAtStart == Lines

\* bl616cl_cache_early_init
EarlyInit ==
    /\ pc = "reset"
    /\ Operate({}, DropAtStart) /\ InvalidateSet(Lines)
    /\ de' = TRUE /\ en' = TRUE
    /\ pc' = "load"
    /\ UNCHANGED <<range, userVars>>

\* Code and data are copied, and bl616cl_cache_after_load cleans the one
\* cache and invalidates the other.
AfterLoadClean ==
    /\ pc = "load"
    /\ Operate(Lines, {})
    /\ pc' = "loaded"
    /\ UNCHANGED <<de, en, icached, igood, range, userVars>>

AfterLoadInvalidate ==
    /\ pc = "loaded"
    /\ InvalidateSet(Lines)
    /\ code' = Bytes
    /\ pc' = "idle"
    /\ UNCHANGED <<de, en, fresh, cached, dirty, good, range, leased, source, spoiled>>
-----------------------------------------------------------------------------
(* The operations                                                          *)

\* up_clean_dcache, up_invalidate_dcache, up_flush_dcache, up_invalidate_icache
CleanDcache(r) == Operate(RangeOf(r, FALSE), {}) /\ UNCHANGED <<de, en, icached, igood>>

InvalidateDcache(r) ==
    /\ Operate(RangeOf(r, FALSE) \cap Partial(r), RangeOf(r, FALSE))
    /\ UNCHANGED <<de, en, icached, igood>>

FlushDcache(r) ==
    /\ Operate(RangeOf(r, FALSE), RangeOf(r, FALSE))
    /\ UNCHANGED <<de, en, icached, igood>>

InvalidateIcache(r) ==
    /\ InvalidateSet(RangeOf(r, TRUE))
    /\ UNCHANGED <<de, en, fresh, cached, dirty, good>>

\* The operations on everything
CleanDcacheAll == Operate(Lines, {}) /\ UNCHANGED <<de, en, icached, igood>>
FlushDcacheAll == Operate(Lines, Lines) /\ UNCHANGED <<de, en, icached, igood>>
InvalidateDcacheAll == Operate({}, Lines) /\ UNCHANGED <<de, en, icached, igood>>
InvalidateIcacheAll == InvalidateSet(Lines) /\ UNCHANGED <<de, en, fresh, cached, dirty, good>>

\* Enabling is for a cache that is off: bflb_l1c_dcache_enable starts empty.
OffFirst == ~de

EnableDcache ==
    /\ IF OffFirst THEN Operate({}, Lines) /\ de' = TRUE
                   ELSE UNCHANGED <<de, fresh, cached, dirty, good>>
    /\ UNCHANGED <<en, icached, igood>>

\* bflb_l1c_dcache_disable writes everything back.
DisableDcache ==
    /\ IF de THEN Operate(Lines, Lines) /\ de' = FALSE
             ELSE UNCHANGED <<de, fresh, cached, dirty, good>>
    /\ UNCHANGED <<en, icached, igood>>

EnableIcache ==
    /\ IF ~en THEN InvalidateSet(Lines) /\ en' = TRUE ELSE UNCHANGED <<en, icached, igood>>
    /\ UNCHANGED <<de, fresh, cached, dirty, good>>

DisableIcache ==
    /\ IF en THEN InvalidateSet(Lines) /\ en' = FALSE ELSE UNCHANGED <<en, icached, igood>>
    /\ UNCHANGED <<de, fresh, cached, dirty, good>>
-----------------------------------------------------------------------------
(* The users of the bytes                                                  *)

BytesIn(r) == {b \in Bytes : r[1] <= b /\ b < r[2]}

\* A range of the heap, as opposed to one that nobody owns.
IsBuffer(r) == r[1] >= RamStart /\ r[1] < r[2] /\ r[2] <= RamEnd

Calm == pc = "idle" /\ UNCHANGED <<pc, range>>

\* The sections are copied before the caches are in step; later the
\* processor writes what is its own.
LoadByte(b) ==
    /\ pc = "load"
    /\ Store({b})
    /\ UNCHANGED <<pc, range, userVars>>

Write(b) ==
    /\ pc \in {"idle", "coherent"} /\ b \notin leased \cup source \cup BytesIn(range)
    /\ Store({b})
    /\ spoiled' = (spoiled \cup (leased \cap BytesOf(LineOf({b})))) \ {b}
    /\ code' = code \ {b}
    /\ UNCHANGED <<pc, range, leased, source>>

\* What a device is to read is cleaned, what it is to write is invalidated,
\* before the transfer and behind it (dma_test_main.c:358-371).
Offer(r) ==
    /\ Calm /\ source = {} /\ IsBuffer(r) /\ BytesIn(r) \cap leased = {}
    /\ CleanDcache(r)
    /\ source' = BytesIn(r) \ spoiled
    /\ UNCHANGED <<leased, spoiled, code>>

Lease(r) ==
    /\ Calm /\ leased = {} /\ IsBuffer(r) /\ BytesIn(r) \cap source = {}
    /\ InvalidateDcache(r)
    /\ leased' = BytesIn(r) /\ spoiled' = spoiled \cup BytesIn(r)
    /\ code' = code \ BytesIn(r)
    /\ UNCHANGED source

DeviceWrites(b) ==
    /\ b \in leased
    /\ StoreMemory({b})
    /\ spoiled' = IF AlignDown(b) \in dirty THEN spoiled ELSE spoiled \ {b}
    /\ UNCHANGED <<pc, range, leased, source, code>>

Finish(r) ==
    /\ Calm /\ leased # {} /\ IsBuffer(r) /\ BytesIn(r) = leased
    /\ InvalidateDcache(r)
    /\ leased' = {} /\ source' = {}
    /\ UNCHANGED <<spoiled, code>>

\* up_coherent_dcache: an address and a length that may reach past the end.
CoherentRange(a, len) == IF len = 0 \/ len > Top - a THEN <<0, 0>> ELSE <<a, a + len>>

FirstClean_not(r) == UNCHANGED cacheVars

FirstClean(r) == CleanDcache(r)

Coherent(a, len) ==
    /\ pc = "idle"
    /\ FirstClean(CoherentRange(a, len))
    /\ pc' = "coherent" /\ range' = CoherentRange(a, len)
    /\ UNCHANGED userVars

CoherentEnds ==
    /\ pc = "coherent"
    /\ InvalidateSet(RangeOf(range, FALSE))
    /\ code' = code \cup (IF IsBuffer(range) THEN BytesIn(range) \ leased ELSE {})
    /\ pc' = "idle" /\ range' = <<0, 0>>
    /\ UNCHANGED <<de, en, fresh, cached, dirty, good, leased, source, spoiled>>

\* Code that is in memory already.
Refetch(r) ==
    /\ Calm
    /\ InvalidateIcache(r)
    /\ code' = code \cup (IF IsBuffer(r) THEN (BytesIn(r) \cap fresh) \ leased ELSE {})
    /\ UNCHANGED <<leased, source, spoiled>>

\* Any other call; dropping everything is for a cache without dirty lines
\* (docs/bl616cl-cache.md:115).
Call ==
    /\ Calm /\ UNCHANGED userVars
    /\ \/ \E r \in Ranges : CleanDcache(r) \/ FlushDcache(r)
       \/ \E r \in Ranges : ~IsBuffer(r) /\ InvalidateDcache(r)
       \/ CleanDcacheAll \/ FlushDcacheAll \/ InvalidateIcacheAll
       \/ dirty = {} /\ InvalidateDcacheAll
       \/ EnableDcache \/ DisableDcache \/ EnableIcache \/ DisableIcache

Boot ==
    \/ EarlyInit \/ AfterLoadClean \/ AfterLoadInvalidate
    \/ \E b \in Used : LoadByte(b)

Hardware == \E l \in LineOf(Used) : Evict(l) \/ Fill(l)

Transfers ==
    \/ Boot \/ Hardware \/ Call
    \/ \E b \in Used : Write(b) \/ DeviceWrites(b)
    \/ \E r \in Ranges : Offer(r) \/ Lease(r) \/ Finish(r)

Coding ==
    \/ Boot \/ Hardware \/ Call
    \/ \E l \in LineOf(Used) : FillCode(l)
    \/ \E b \in Used : Write(b)
    \/ \E r \in Ranges : Refetch(r) \/ Coherent(r[1], r[2])
    \/ CoherentEnds

CodingSpec == Init /\ [][Coding]_allVars
CacheSpec == Init /\ [][Transfers \/ Coding]_allVars
-----------------------------------------------------------------------------
(* Properties                                                              *)

CacheTypeOK ==
    /\ {de, en} \subseteq BOOLEAN
    /\ fresh \subseteq Bytes /\ dirty \subseteq cached /\ cached \subseteq Lines
    /\ good \subseteq BytesOf(cached) /\ igood \subseteq BytesOf(icached)
    /\ pc \in {"reset", "load", "loaded", "idle", "coherent"}

\* The processor reads the latest value of every byte that is its own: no
\* operation, on whatever range, loses what it wrote next to a buffer, and
\* behind a transfer it sees what the device wrote (unless it wrote into
\* the line of that byte meanwhile).
ProcessorSees == pc # "reset" => \A b \in Bytes \ (leased \cup spoiled) : Reads(b)

\* A device reads the latest value of every byte that it was given to read.
DevicesSee == source \subseteq fresh

\* Code is executed as it was written.
CodeIsCurrent == \A b \in code : Executes(b)

\* What devices read, and the processor executes, is what was written; types.
OthersSee == CacheTypeOK /\ DevicesSee /\ CodeIsCurrent
=============================================================================
