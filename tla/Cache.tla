------------------------------- MODULE Cache -------------------------------
(***************************************************************************)
(* The set-associative cache of include/simrv/cache/BaseCache.hpp and the  *)
(* look-ups of the instruction and the data cache built on it.  A cache is *)
(* a record of its lines and of access_tick_, the clock of its LRU order.  *)
(***************************************************************************)
EXTENDS Integers, Sequences

CONSTANTS NumSets, CacheWays, LineBytes

ASSUME CacheGeometry == NumSets \in Nat \ {0} /\ CacheWays \in Nat \ {0} /\ LineBytes \in Nat \ {0}

Offsets == 0 .. LineBytes - 1
NoData  == [o \in Offsets |-> 0]
NoTag   == -1

get_tag(addr)       == addr - (addr % LineBytes)
get_set_index(addr) == (addr \div LineBytes) % NumSets
Crosses(addr, n)    == (addr % LineBytes) + n > LineBytes

EmptyLine  == [valid |-> FALSE, tag |-> NoTag, last_used |-> 0, data |-> NoData]
EmptyLines == [s \in 0 .. NumSets - 1 |-> [w \in 1 .. CacheWays |-> EmptyLine]]
EmptyCache == [lines |-> EmptyLines, tick |-> 0]

HitWays(c, addr) ==
  {w \in 1 .. CacheWays : LET l == c.lines[get_set_index(addr)][w] IN l.valid /\ l.tag = get_tag(addr)}
Holds(c, addr) == HitWays(c, addr) # {}
HitWay(c, addr) == CHOOSE w \in HitWays(c, addr) : \A v \in HitWays(c, addr) : w <= v

-----------------------------------------------------------------------------
\* The first way that is free, or else the first of those used longest ago.
victim(set) ==
  LET free == {w \in 1 .. CacheWays : ~set[w].valid}
  IN  IF free # {} THEN CHOOSE w \in free : \A v \in free : w <= v
      ELSE CHOOSE w \in 1 .. CacheWays :
             \A v \in 1 .. CacheWays : set[w].last_used < set[v].last_used \/ (set[w].last_used = set[v].last_used /\ w <= v)

line_insert(c, base, data) ==
  LET s    == get_set_index(base)
      filled == [valid |-> TRUE, tag |-> get_tag(base), last_used |-> c.tick + 1, data |-> data]
  IN  [lines |-> [c.lines EXCEPT ![s][victim(c.lines[s])] = filled], tick |-> c.tick + 1]

\* The clock keeps running: only reset_stats puts it back.
flush(c) == [c EXCEPT !.lines = EmptyLines]

\* ICache::read16 and DCache::read: a line that holds all of the access answers and becomes
\* the newest; an access that runs over its line counts as a miss.
read_hits(c, addr, n) == Holds(c, addr) /\ ~Crosses(addr, n)
read(c, addr, n) ==
  LET t == c.tick + 1
  IN  [lines |-> IF read_hits(c, addr, n)
                 THEN [c.lines EXCEPT ![get_set_index(addr)][HitWay(c, addr)].last_used = t] ELSE c.lines,
       tick |-> t]

\* A store updates the line that holds it; one that crosses lines drops both.
Dropped(c, addr) ==
  IF Holds(c, addr) THEN [c EXCEPT !.lines[get_set_index(addr)][HitWay(c, addr)].valid = FALSE] ELSE c
Updated(c, addr, bytes) ==
  IF ~Holds(c, addr) THEN c
  ELSE [c EXCEPT !.lines[get_set_index(addr)][HitWay(c, addr)].data =
          [o \in Offsets |-> LET i == o - (addr % LineBytes) + 1
                             IN  IF i \in 1 .. Len(bytes) THEN bytes[i] ELSE @[o]]]
write_first(c, addr, bytes) ==
  IF Crosses(addr, Len(bytes)) THEN Dropped(c, addr) ELSE Updated(c, addr, bytes)
write(c, addr, bytes) ==
  IF Crosses(addr, Len(bytes)) THEN Dropped(Dropped(c, addr), addr + (LineBytes - (addr % LineBytes)))
  ELSE Updated(c, addr, bytes)
=============================================================================
