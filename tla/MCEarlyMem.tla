----------------------------- MODULE MCEarlyMem -----------------------------
(* Boot reports for module EarlyMem: pages of 4 units, upper memory from   *)
(* unit 8 on, and maps whose low part has a hole, a reserved or another    *)
(* entry before unit 8, whose upper part is one entry or two that do not   *)
(* meet at a page boundary, and that go on beyond 2^32 (unit 128), in both *)
(* orders; images whose early heap starts at 16, at 20, too high and far   *)
(* too high; the loader's structure at either end of memory, in the last   *)
(* frame too.                                                              *)
EXTENDS EarlyMem

MmapEntry(addr, len, type) == [addr |-> addr, len |-> len, type |-> type]

LowParts ==
  {<<MmapEntry(0, 8, "available")>>, <<MmapEntry(0, 5, "available")>>}
    \cup {<<MmapEntry(0, l, "available"), MmapEntry(l, 8 - l, t)>> :
            l \in {5, 6}, t \in {"reserved", "acpi"}}

UpperParts(upper) ==
  {<<MmapEntry(8, upper, "available")>>,
   <<MmapEntry(8, 39, "available"), MmapEntry(47, upper - 39, "available")>>}

HighParts(upper) ==
  {<<>>,
   <<MmapEntry(8 + upper, 4, "reserved"), MmapEntry(124, 4, "reserved"),
     MmapEntry(128, 16, "available")>>}

Maps(upper) ==
  LET sorted == {l \o u \o h : l \in LowParts, u \in UpperParts(upper), h \in HighParts(upper)}
  IN  sorted \cup {[n \in DOMAIN m |-> m[Len(m) + 1 - n]] : m \in sorted}

Images ==
  {<<Region(8, 4), Region(12, 3)>>,
   <<Region(8, 4), Region(12, 9)>>,
   <<Region(8, 4), Region(15, 2), Region(12, 3)>>,
   <<Region(8, 4), Region(18, 2)>>, <<Region(8, 4), Region(30, 2)>>}

MCBootInfos ==
  UNION {[complete : {TRUE}, mmap : Maps(upper), sections : Images,
          info : {5, 33, 45, 49, upper - 2}, mem_upper : {upper}] : upper \in {56, 58, 64}}
    \cup [complete : {TRUE}, mmap : Maps(40), sections : Images, info : {1}, mem_upper : {40}]
    \cup [complete : {FALSE}, mmap : Maps(40), sections : Images,
          info : {5}, mem_upper : {40}]
=============================================================================
