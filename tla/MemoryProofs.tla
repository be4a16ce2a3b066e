---------------------------- MODULE MemoryProofs ----------------------------
(***************************************************************************)
(* Proofs about the bus, about main memory behind its caches and about the *)
(* reservation of LR and SC, for every set of devices, every geometry of   *)
(* the caches and every program.                                           *)
(***************************************************************************)
EXTENDS Router, DataPath, Reservation, Arithmetic, SequenceTheorems, FiniteSetTheorems, TLAPS

-----------------------------------------------------------------------------
(* The bus: an address has at most one owner among the registered devices,   *)
(* so the device that the search meets first is the owner, whatever the      *)
(* order of the list.                                                        *)

\* Two devices on the bus own no byte together.
Exclusive == \A d, e \in Range(nodes) : \A a \in Nat : contains(d, a) /\ contains(e, a) => d = e

\* The last access was the device's own, byte for byte.
Delivered ==
  answer.by \in Devices => \A a \in answer.addr .. answer.addr + answer.bytes - 1 : contains(answer.by, a)

RouterInv == nodes \in Seq(Devices) /\ Exclusive /\ Delivered

\* The devices on the list are finitely many.
LEMMA ListFinite ==
  ASSUME NEW S, NEW s \in Seq(S)
  PROVE  Range(s) \subseteq S /\ IsFiniteSet(Range(s))
<1>1. s \in [1 .. Len(s) -> S] /\ DOMAIN s = 1 .. Len(s) /\ Len(s) \in Nat
  BY LenProperties
<1>2. Range(s) \subseteq S /\ s \in [1 .. Len(s) -> Range(s)]
  BY <1>1 DEF Range
<1>3. \A y \in Range(s) : \E x \in 1 .. Len(s) : s[x] = y
  BY <1>1 DEF Range
<1>4. s \in Surjection(1 .. Len(s), Range(s))
  BY <1>2, <1>3 DEF Surjection
<1> QED BY <1>1, <1>2, <1>4, FS_Surjection, FS_Interval

\* The places of a list that a search picks are a set that is no longer than the list.
LEMMA PlacesFinite ==
  ASSUME NEW S, NEW s \in Seq(S), NEW T, T \subseteq DOMAIN s
  PROVE  Cardinality(T) \in 0 .. Len(s)
<1>1. DOMAIN s = 1 .. Len(s) /\ Len(s) \in Nat
  BY LenProperties
<1>2. IsFiniteSet(1 .. Len(s)) /\ Cardinality(1 .. Len(s)) = Len(s)
  <2>1. 1 \in Int /\ Len(s) \in Int /\ (1 > Len(s) <=> Len(s) = 0) /\ Len(s) - 1 + 1 = Len(s)
    BY <1>1
  <2>2. /\ IsFiniteSet(1 .. Len(s))
        /\ Cardinality(1 .. Len(s)) = IF 1 > Len(s) THEN 0 ELSE Len(s) - 1 + 1
    BY <2>1, FS_Interval
  <2> QED BY <2>1, <2>2
<1>3. IsFiniteSet(T) /\ Cardinality(T) <= Len(s)
  BY <1>1, <1>2, FS_Subset
<1> QED BY <1>1, <1>3, FS_CardinalityType

\* A device that owns a byte owns it where OwnsSameByte looks.
LEMMA Overlap ==
  ASSUME NEW d \in Devices, NEW e, NEW a \in Nat, contains(d, a), contains(e, a)
  PROVE  OwnsSameByte(d, e)
<1>1. base_address[d] \in Nat /\ size[d] \in Nat
  BY RouterAssumption
<1>2. a >= base_address[d] /\ a - base_address[d] < size[d]
  BY DEF contains
<1>3. a \in base_address[d] .. base_address[d] + size[d] - 1
  BY <1>1, <1>2
<1> QED BY <1>3 DEF OwnsSameByte

\* resolve_device finds the owner of an address, and nobody when it has none.
LEMMA Resolved ==
  ASSUME RouterInv, NEW a \in Nat
  PROVE  /\ Owners(a) = {} => resolve_device(a) = NoDevice
         /\ Owners(a) # {} => resolve_device(a) \in Owners(a)
         /\ \A d, e \in Owners(a) : d = e
<1> DEFINE i      == Cardinality(Below(a))
           owners == {k \in DOMAIN nodes : contains(nodes[k], a)}
<1>1. DOMAIN nodes = 1 .. Len(nodes) /\ Len(nodes) \in Nat
  BY LenProperties DEF RouterInv
<1>2. i \in 0 .. Len(nodes)
  BY PlacesFinite DEF RouterInv, Below
<1>3. \A k \in DOMAIN nodes : contains(nodes[k], a) => nodes[k] \in Owners(a)
  BY DEF Owners, Range
<1>4. \A d \in Owners(a) : \E k \in DOMAIN nodes : nodes[k] = d /\ contains(nodes[k], a)
  BY DEF Owners, Range
<1>5. \A d, e \in Owners(a) : d = e
  BY DEF Owners, RouterInv, Exclusive
<1>6. resolve_device(a) = IF i > 0 /\ contains(nodes[i], a) THEN nodes[i]
                          ELSE IF owners # {} THEN nodes[Min(owners)] ELSE NoDevice
  BY DEF resolve_device
<1>7. owners # {} => Min(owners) \in owners
  <2> SUFFICES ASSUME owners # {} PROVE Min(owners) \in owners
    OBVIOUS
  <2>1. owners \subseteq Nat
    BY <1>1
  <2> HIDE DEF owners
  <2>2. \E x \in owners : \A y \in owners : x =< y
    BY <2>1, LeastNat
  <2> QED BY <2>2 DEF Min
<1>8. owners = {} <=> Owners(a) = {}
  BY <1>3, <1>4
<1>9. owners # {} => nodes[Min(owners)] \in Owners(a)
  BY <1>3, <1>7
<1>10. i > 0 /\ contains(nodes[i], a) => nodes[i] \in Owners(a)
  BY <1>1, <1>2, <1>3
<1> HIDE DEF i, owners
<1> QED BY <1>5, <1>6, <1>8, <1>9, <1>10

\* Testing the first and the last byte of an access is enough.
LEMMA WholeAccess ==
  ASSUME NEW d \in Devices, NEW a \in Nat, NEW n \in Widths, contains(d, a), contains(d, a + n - 1),
         NEW b \in a .. a + n - 1
  PROVE  contains(d, b)
<1>1. base_address[d] \in Nat /\ size[d] \in Nat /\ n \in Nat /\ n # 0
  BY RouterAssumption
<1>2. b >= base_address[d] /\ b - base_address[d] < size[d]
  BY <1>1 DEF contains
<1>3. ASSUME b \in hole[d] PROVE FALSE
  <2>1. PICK lo \in hole[d], hi \in hole[d] : b \in lo .. hi /\ lo .. hi \subseteq hole[d] /\ n <= hi - lo + 1
    BY <1>3, HoleAssumption
  <2>2. lo \in Nat /\ hi \in Nat
    BY HoleAssumption
  <2>3. a \notin lo .. hi /\ a + n - 1 \notin lo .. hi
    BY <2>1 DEF contains
  <2> QED BY <1>1, <2>1, <2>2, <2>3
<1> QED BY <1>2, <1>3 DEF contains

LEMMA RegisterStep ==
  ASSUME RouterInv, NEW d \in Devices, register_device(d)
  PROVE  RouterInv'
<1> DEFINE all == Range(nodes) \cup {d}
<1>1. all \subseteq Devices /\ IsFiniteSet(all)
  BY ListFinite, FS_AddElement DEF RouterInv
<1>2. PICK s \in SetToSeqs(all) : nodes' = s
  BY DEF register_device
<1>3. Cardinality(all) \in Nat
  BY <1>1, FS_CardinalityType
<1> HIDE DEF all
<1>4. s \in [1 .. Cardinality(all) -> all]
  BY <1>2 DEF SetToSeqs
<1>5. s \in Seq(Devices) /\ Range(s) \subseteq all
  BY <1>1, <1>3, <1>4 DEF Range
<1>6. \A e \in Range(nodes) : ~OwnsSameByte(d, e)
  BY DEF register_device
<1>7. Exclusive'
  <2> SUFFICES ASSUME NEW e \in all, NEW f \in all, NEW a \in Nat, contains(e, a), contains(f, a)
               PROVE  e = f
    BY <1>2, <1>5 DEF Exclusive, contains
  <2>1. CASE e \in Range(nodes) /\ f \in Range(nodes)
    BY <2>1 DEF RouterInv, Exclusive
  <2>2. CASE e = d
    BY <2>2, <1>6, Overlap DEF all
  <2>3. CASE f = d
    BY <2>3, <1>6, Overlap DEF all
  <2> QED BY <2>1, <2>2, <2>3 DEF all
<1>8. Delivered'
  BY DEF RouterInv, Delivered, register_device, contains
<1> QED BY <1>2, <1>5, <1>7, <1>8 DEF RouterInv

LEMMA UnregisterStep ==
  ASSUME RouterInv, NEW d \in Devices, unregister_device(d)
  PROVE  RouterInv'
<1>1. PICK i \in DOMAIN nodes : nodes' = RemoveAt(nodes, i)
  BY DEF unregister_device
<1>2. nodes \in Seq(Range(nodes)) /\ Range(nodes) \subseteq Devices /\ i \in 1 .. Len(nodes) /\ Len(nodes) \in Nat
  BY <1>1, LenProperties, ListFinite DEF RouterInv, Range
<1>3. \A k \in 1 .. Len(nodes) : nodes[k] \in Range(nodes)
  BY <1>2, LenProperties DEF Range
<1>4. SubSeq(nodes, 1, i - 1) \in Seq(Range(nodes)) /\ SubSeq(nodes, i + 1, Len(nodes)) \in Seq(Range(nodes))
  BY <1>2, <1>3, SubSeqProperties
<1>5. nodes' \in Seq(Range(nodes))
  BY <1>1, <1>4, ConcatProperties DEF RemoveAt
<1>6. Range(nodes') \subseteq Range(nodes) /\ nodes' \in Seq(Devices)
  BY <1>2, <1>5, ListFinite, SeqMonotonic
<1> QED BY <1>6 DEF RouterInv, Exclusive, Delivered, unregister_device, contains

LEMMA TransactStep ==
  ASSUME RouterInv, NEW op \in Ops, NEW a \in 0 .. AddrMax, NEW n \in Widths, transact(op, a, n)
  PROVE  RouterInv'
<1>1. nodes' = nodes /\ nodes' \in Seq(Devices) /\ Exclusive'
  BY DEF transact, RouterInv, Exclusive, contains
<1>2. Delivered'
  <2>1. ASSUME answer'.by \notin Devices PROVE Delivered'
    BY <2>1 DEF Delivered
  <2>2. ASSUME answer'.by \in Devices PROVE Delivered'
    <3> DEFINE d == resolve_device(a)
    <3>1. a \in Nat
      BY RouterAssumption
    <3>2. route_request(op, a, n)
      BY <2>2, RouterAssumption DEF transact, NoDevice
    <3>3. ~Refused(op, a, n, d) /\ answer'.by = d /\ answer'.addr = a /\ answer'.bytes = n
      BY <2>2, <3>2, RouterAssumption DEF route_request, NoDevice
    <3>4. d \in Owners(a)
      BY <3>1, <3>3, Resolved DEF Refused
    <3>5. contains(d, a) /\ contains(d, a + n - 1) /\ d \in Devices
      BY <3>3, <3>4, ListFinite DEF Owners, Refused, RouterInv
    <3>6. \A b \in a .. a + n - 1 : contains(d, b)
      BY <3>1, <3>5, WholeAccess
    <3> HIDE DEF d
    <3> QED BY <3>3, <3>6 DEF Delivered, contains
  <2> QED BY <2>1, <2>2
<1> QED BY <1>1, <1>2 DEF RouterInv

LEMMA RouterStep == RouterInv /\ [RouterNext]_routerVars => RouterInv'
<1> SUFFICES ASSUME RouterInv, [RouterNext]_routerVars PROVE RouterInv'
  OBVIOUS
<1>1. CASE UNCHANGED routerVars
  BY <1>1 DEF routerVars, RouterInv, Exclusive, Delivered, contains
<1>2. CASE clear
  <2>1. nodes' \in Seq(Devices) /\ Range(nodes') = {}
    BY <1>2 DEF clear, Range
  <2> QED BY <1>2, <2>1 DEF clear, RouterInv, Exclusive, Delivered, contains
<1>3. ASSUME NEW op \in Ops, InvalidSize(op) PROVE RouterInv'
  <2>1. answer'.by \notin Devices /\ nodes' = nodes
    BY <1>3, RouterAssumption DEF InvalidSize, NoAnswer, NoDevice
  <2> QED BY <2>1 DEF RouterInv, Exclusive, Delivered, contains
<1>4. CASE RouterNext
  BY <1>2, <1>3, <1>4, RegisterStep, UnregisterStep, TransactStep DEF RouterNext
<1> QED BY <1>1, <1>4

LEMMA RouterBegins == RouterInit => RouterInv
<1> SUFFICES ASSUME RouterInit PROVE RouterInv
  OBVIOUS
<1>1. nodes \in Seq(Devices) /\ Range(nodes) = {}
  BY DEF RouterInit, Range
<1>2. Delivered
  BY RouterAssumption DEF RouterInit, NoAnswer, NoDevice, Delivered
<1> QED BY <1>1, <1>2 DEF RouterInv, Exclusive

LEMMA RouterExact == RouterInv => RouteExact
<1> SUFFICES ASSUME RouterInv PROVE RouteExact
  OBVIOUS
<1>1. ASSUME NEW a \in 0 .. AddrMax
      PROVE  /\ Cardinality(Owners(a)) <= 1
             /\ resolve_device(a) = IF Owners(a) = {} THEN NoDevice ELSE CHOOSE d \in Owners(a) : TRUE
  <2>1. a \in Nat
    BY RouterAssumption
  <2>2. /\ Owners(a) = {} => resolve_device(a) = NoDevice
        /\ Owners(a) # {} => resolve_device(a) \in Owners(a)
        /\ \A d, e \in Owners(a) : d = e
    BY <2>1, Resolved
  <2>3. CASE Owners(a) = {}
    BY <2>2, <2>3, FS_EmptySet
  <2>4. CASE Owners(a) # {}
    <3>1. PICK d \in Owners(a) : Owners(a) = {d}
      BY <2>2, <2>4
    <3>2. Cardinality(Owners(a)) = 1
      BY <3>1, FS_Singleton
    <3> QED BY <2>2, <2>4, <3>1, <3>2
  <2> QED BY <2>3, <2>4
<1> QED BY <1>1 DEF RouteExact, RouterInv, Delivered

\* For every set of devices whose holes are at least as wide as the widest access, however often they come
\* and go: an address is resolved to its one owner (MmioRouter::resolve_device), and no device is
\* handed a byte that it does not own (MmioRouter::route_request).
THEOREM RoutesExact == RouterSpec => []RouteExact
<1>1. RouterSpec => []RouterInv
  BY RouterBegins, RouterStep, PTL DEF RouterSpec
<1> QED BY <1>1, RouterExact, PTL

-----------------------------------------------------------------------------
(* The caches.  A line is at the place its address gives it and no address   *)
(* is cached twice; so a store that updates the first way that holds its     *)
(* line, or drops the lines it crosses, leaves no second copy behind.         *)

Sets == 0 .. NumSets - 1
Ways == 1 .. CacheWays
Tags == {t \in Nat : t % LineBytes = 0 /\ t + LineBytes <= RamBytes}

Line     == [valid : BOOLEAN, tag : Int, last_used : Nat, data : [Offsets -> ByteValues]]
Contents == [lines : [Sets -> [Ways -> Line]], tick : Nat]
Memory   == [RamAddrs -> ByteValues]

Placed(c) == \A s \in Sets, w \in Ways :
  c.lines[s][w].valid => c.lines[s][w].tag \in Tags /\ get_set_index(c.lines[s][w].tag) = s
Unique(c) == \A s \in Sets, v, w \in Ways :
  c.lines[s][v].valid /\ c.lines[s][w].valid /\ c.lines[s][v].tag = c.lines[s][w].tag => v = w
Fresh(l, r, S) == \A o \in Offsets : l.data[o] = r[l.tag + o] \/ l.tag + o \in S
AllFresh(c, r, S) == \A s \in Sets, w \in Ways : c.lines[s][w].valid => Fresh(c.lines[s][w], r, S)

\* A cache of memory r of which the bytes S may be out of date.
Sound(c, r, S) == c \in Contents /\ Placed(c) /\ Unique(c) /\ AllFresh(c, r, S)

\* The address of a line, the offset in it and the set it belongs to.
LEMMA Geometry ==
  ASSUME NEW a \in Nat
  PROVE  /\ a % LineBytes \in Offsets /\ get_tag(a) \in Nat /\ a = get_tag(a) + (a % LineBytes)
         /\ get_tag(a) % LineBytes = 0
         /\ get_set_index(get_tag(a)) = get_set_index(a) /\ get_set_index(a) \in Sets
<1> DEFINE q == a \div LineBytes
           o == a % LineBytes
<1>1. LineBytes \in Nat \ {0} /\ NumSets \in Nat \ {0}
  BY CacheGeometry
<1>2. o \in 0 .. LineBytes - 1 /\ q \in Int /\ a = (LineBytes * q) + o
  BY <1>1, ModDef
<1>3. get_tag(a) = a - o
  BY DEF get_tag
<1>4. q \in Nat
  BY <1>1, <1>2
<1> HIDE DEF q, o
<1>5. a - o = (q * LineBytes) + 0 /\ a - o \in Nat /\ 0 \in 0 .. LineBytes - 1
  BY <1>1, <1>2, <1>4
<1>6. (a - o) % LineBytes = 0
  BY <1>1, <1>2, <1>5, ModUnique
<1>7. (a - o) \div LineBytes = q
  BY <1>1, <1>4, <1>5
<1>8. get_set_index(get_tag(a)) = get_set_index(a)
  BY <1>3, <1>7 DEF get_set_index, q
<1>9. get_set_index(a) \in Sets
  BY <1>1, <1>4, ModDef DEF get_set_index, Sets, q
<1> QED BY <1>2, <1>3, <1>5, <1>6, <1>8, <1>9 DEF Offsets, o

\* A byte is in one line only.
LEMMA OneLine ==
  ASSUME NEW t \in Nat, NEW u \in Nat, t % LineBytes = 0, u % LineBytes = 0,
         NEW o \in Offsets, NEW p \in Offsets, t + o = u + p
  PROVE  t = u /\ o = p
<1>1. LineBytes \in Nat \ {0}
  BY CacheGeometry
<1> DEFINE i == t \div LineBytes
           j == u \div LineBytes
<1>2. i \in Int /\ j \in Int /\ t = (LineBytes * i) + 0 /\ u = (LineBytes * j) + 0
  BY <1>1, ModDef
<1> HIDE DEF i, j
<1>3. o \in 0 .. LineBytes - 1 /\ p \in 0 .. LineBytes - 1
  BY DEF Offsets
<1>4. t + o = (i * LineBytes) + o /\ t + o = (j * LineBytes) + p /\ t + o \in Int
  BY <1>1, <1>2, <1>3
<1>5. (t + o) % LineBytes = o /\ (t + o) % LineBytes = p
  BY <1>1, <1>2, <1>3, <1>4, ModUnique
<1> QED BY <1>3, <1>5

\* The line of an address of main memory is in main memory.
LEMMA WholeLine ==
  ASSUME NEW a \in RamAddrs
  PROVE  get_tag(a) \in Tags
<1>1. a \in Nat /\ LineBytes \in Nat \ {0} /\ RamBytes \in Nat /\ RamBytes % LineBytes = 0 /\ a < RamBytes
  BY CacheGeometry, PathAssumption DEF RamAddrs
<1> DEFINE t == get_tag(a)
           o == a % LineBytes
<1>2. t \in Nat /\ t % LineBytes = 0 /\ o \in Offsets /\ a = t + o
  BY <1>1, Geometry
<1> HIDE DEF t, o
<1>3. t <= a
  BY <1>1, <1>2 DEF Offsets
<1> DEFINE i == t \div LineBytes
           j == RamBytes \div LineBytes
<1>4. i \in Int /\ j \in Int /\ t = (LineBytes * i) + 0 /\ RamBytes = (LineBytes * j) + 0
  <2>1. t \in Int /\ RamBytes \in Int
    BY <1>1, <1>2
  <2>2. i \in Int /\ t = (LineBytes * i) + (t % LineBytes)
    BY <1>1, <2>1, ModDef
  <2>3. j \in Int /\ RamBytes = (LineBytes * j) + (RamBytes % LineBytes)
    BY <1>1, <2>1, ModDef
  <2> QED BY <1>1, <1>2, <2>2, <2>3
<1> HIDE DEF i, j
<1>5. i < j
  BY <1>1, <1>2, <1>3, <1>4
<1>6. LineBytes * (i + 1) <= LineBytes * j
  BY <1>1, <1>4, <1>5
<1>7. t + LineBytes <= RamBytes
  BY <1>1, <1>2, <1>4, <1>6
<1> QED BY <1>2, <1>7 DEF t, Tags

\* One line of a cache is replaced.
LEMMA Replaced ==
  ASSUME NEW c \in Contents, NEW s \in Sets, NEW w \in Ways, NEW l \in Line, NEW t \in Nat, NEW d,
         d = [lines |-> [c.lines EXCEPT ![s][w] = l], tick |-> t]
  PROVE  /\ d \in Contents
         /\ \A x \in Sets, y \in Ways : d.lines[x][y] = IF x = s /\ y = w THEN l ELSE c.lines[x][y]
<1>1. c.lines \in [Sets -> [Ways -> Line]] /\ c.lines[s] \in [Ways -> Line]
  BY DEF Contents
<1>2. d.lines = [c.lines EXCEPT ![s][w] = l] /\ d.tick = t
  OBVIOUS
<1>3. [c.lines EXCEPT ![s][w] = l] \in [Sets -> [Ways -> Line]]
  BY <1>1
<1>4. d \in Contents
  BY <1>3 DEF Contents
<1>5. \A x \in Sets, y \in Ways : d.lines[x][y] = IF x = s /\ y = w THEN l ELSE c.lines[x][y]
  BY <1>1, <1>2
<1> QED BY <1>4, <1>5

\* What a line that is replaced must be, and what the others must be to memory r and set S.
LEMMA SoundAfter ==
  ASSUME NEW c, NEW r, NEW S, Sound(c, r, S), NEW s \in Sets, NEW w \in Ways, NEW l \in Line, NEW d \in Contents,
         NEW q, NEW T,
         \A x \in Sets, y \in Ways : d.lines[x][y] = IF x = s /\ y = w THEN l ELSE c.lines[x][y],
         l.valid => /\ l.tag \in Tags /\ get_set_index(l.tag) = s /\ Fresh(l, q, T)
                    /\ \A y \in Ways \ {w} : ~(c.lines[s][y].valid /\ c.lines[s][y].tag = l.tag),
         \A x \in Sets, y \in Ways : (x # s \/ y # w) /\ c.lines[x][y].valid => Fresh(c.lines[x][y], q, T)
  PROVE  Sound(d, q, T)
<1>1. Placed(d)
  BY DEF Placed, Sound
<1>2. Unique(d)
  <2> SUFFICES ASSUME NEW x \in Sets, NEW u \in Ways, NEW v \in Ways, d.lines[x][u].valid, d.lines[x][v].valid,
                      d.lines[x][u].tag = d.lines[x][v].tag, u # v
               PROVE  FALSE
    BY DEF Unique
  <2>1. CASE x = s /\ u = w
    BY <2>1
  <2>2. CASE x = s /\ v = w
    BY <2>2
  <2>3. CASE x # s \/ (u # w /\ v # w)
    BY <2>3 DEF Unique, Sound
  <2> QED BY <2>1, <2>2, <2>3
<1>3. AllFresh(d, q, T)
  BY DEF AllFresh
<1> QED BY <1>1, <1>2, <1>3 DEF Sound

\* The way that answers.
LEMMA FirstHit ==
  ASSUME NEW c \in Contents, NEW a \in Nat, Holds(c, a)
  PROVE  /\ HitWay(c, a) \in Ways /\ get_set_index(a) \in Sets
         /\ c.lines[get_set_index(a)][HitWay(c, a)] \in Line
         /\ c.lines[get_set_index(a)][HitWay(c, a)].valid
         /\ c.lines[get_set_index(a)][HitWay(c, a)].tag = get_tag(a)
<1> DEFINE H == HitWays(c, a)
<1>1. H \subseteq Nat /\ H # {} /\ H \subseteq Ways
  BY CacheGeometry DEF HitWays, Ways, Holds
<1>2. HitWay(c, a) = CHOOSE w \in H : \A v \in H : w <= v
  BY DEF HitWay
<1> HIDE DEF H
<1>3. \E w \in H : \A v \in H : w <= v
  BY <1>1, LeastNat
<1>4. HitWay(c, a) \in H
  BY <1>2, <1>3
<1>5. get_set_index(a) \in Sets
  BY Geometry
<1>6. c.lines[get_set_index(a)] \in [Ways -> Line]
  BY <1>5 DEF Contents
<1> QED BY <1>1, <1>4, <1>5, <1>6 DEF H, HitWays

\* The way that a new line takes.
LEMMA VictimWay ==
  ASSUME NEW set \in [Ways -> Line]
  PROVE  victim(set) \in Ways
<1> DEFINE free == {w \in Ways : ~set[w].valid}
<1>1. Ways \subseteq Nat /\ Ways # {}
  <2>1. 1 \in Ways /\ \A w \in Ways : w \in Nat
    BY CacheGeometry DEF Ways
  <2> QED BY <2>1
<1>2. CASE free # {}
  <2>1. free \subseteq Nat
    BY <1>1
  <2>2. \E w \in free : \A v \in free : w <= v
    BY <1>2, <2>1, LeastNat
  <2>3. victim(set) = CHOOSE w \in free : \A v \in free : w <= v
    BY <1>2 DEF victim, Ways
  <2>4. victim(set) \in free
    BY <2>2, <2>3
  <2> QED BY <2>4
<1>3. CASE free = {}
  <2> DEFINE ages == {set[w].last_used : w \in Ways}
  <2>1. \A w \in Ways : set[w].last_used \in Nat
    BY DEF Line
  <2>2. ages \subseteq Nat /\ ages # {}
    BY <1>1, <2>1
  <2>3. PICK m \in ages : \A k \in ages : m <= k
    BY <2>2, LeastNat
  <2> DEFINE oldest == {w \in Ways : set[w].last_used = m}
  <2>4. oldest \subseteq Nat /\ oldest # {}
    BY <1>1, <2>3
  <2>5. PICK w \in oldest : \A v \in oldest : w <= v
    BY <2>4, LeastNat
  <2>6. \A v \in Ways : set[w].last_used < set[v].last_used \/ (set[w].last_used = set[v].last_used /\ w <= v)
    <3> TAKE v \in Ways
    <3>1. set[w].last_used = m /\ m \in Nat /\ set[v].last_used \in Nat /\ m <= set[v].last_used
      BY <2>1, <2>2, <2>3, <2>5
    <3> QED BY <2>5, <3>1
  <2>7. \E x \in Ways : \A v \in Ways : set[x].last_used < set[v].last_used \/ (set[x].last_used = set[v].last_used /\ x <= v)
    BY <2>5, <2>6
  <2>8. victim(set) = CHOOSE x \in Ways : \A v \in Ways : set[x].last_used < set[v].last_used \/ (set[x].last_used = set[v].last_used /\ x <= v)
    BY <1>3 DEF victim, Ways
  <2> QED BY <2>7, <2>8
<1> QED BY <1>2, <1>3

\* A look-up changes no more than the age of a line.
LEMMA ReadSound ==
  ASSUME NEW c, NEW r, NEW S, Sound(c, r, S), NEW a \in Nat, NEW n
  PROVE  /\ Sound(read(c, a, n), r, S)
         /\ ~read_hits(c, a, n) => read(c, a, n).lines = c.lines
<1>1. c \in Contents /\ c.tick \in Nat /\ c.tick + 1 \in Nat
  BY DEF Sound, Contents
<1>2. CASE read_hits(c, a, n)
  <2> DEFINE s == get_set_index(a)
             w == HitWay(c, a)
             l == [c.lines[s][w] EXCEPT !.last_used = c.tick + 1]
             d == read(c, a, n)
  <2>1. s \in Sets /\ w \in Ways /\ c.lines[s][w] \in Line /\ c.lines[s][w].valid
    BY <1>1, <1>2, FirstHit DEF read_hits
  <2>2. d = [lines |-> [c.lines EXCEPT ![s][w].last_used = c.tick + 1], tick |-> c.tick + 1]
    BY <1>2 DEF read
  <2> HIDE DEF s, w, d
  <2>3. l \in Line /\ l.valid = c.lines[s][w].valid /\ l.tag = c.lines[s][w].tag /\ l.data = c.lines[s][w].data
    BY <1>1, <2>1 DEF Line
  <2>4. d = [lines |-> [c.lines EXCEPT ![s][w] = l], tick |-> c.tick + 1]
    BY <1>1, <2>1, <2>2 DEF Contents
  <2> HIDE DEF l
  <2>5. /\ d \in Contents
        /\ \A x \in Sets, y \in Ways : d.lines[x][y] = IF x = s /\ y = w THEN l ELSE c.lines[x][y]
    BY <1>1, <2>1, <2>3, <2>4, Replaced
  <2>6. /\ l.tag \in Tags /\ get_set_index(l.tag) = s /\ Fresh(l, r, S)
        /\ \A y \in Ways \ {w} : ~(c.lines[s][y].valid /\ c.lines[s][y].tag = l.tag)
    BY <2>1, <2>3 DEF Sound, Placed, Unique, AllFresh, Fresh
  <2>7. \A x \in Sets, y \in Ways : c.lines[x][y].valid => Fresh(c.lines[x][y], r, S)
    BY DEF Sound, AllFresh
  <2>8. Sound(d, r, S)
    BY <2>1, <2>3, <2>5, <2>6, <2>7, SoundAfter
  <2> QED BY <1>2, <2>8 DEF d
<1>3. CASE ~read_hits(c, a, n)
  <2> DEFINE d == read(c, a, n)
  <2>1. d = [lines |-> c.lines, tick |-> c.tick + 1]
    BY <1>3 DEF read
  <2> HIDE DEF d
  <2>2. d \in Contents /\ d.lines = c.lines
    BY <1>1, <2>1 DEF Contents
  <2> QED BY <2>2 DEF Sound, Placed, Unique, AllFresh, d
<1> QED BY <1>2, <1>3

\* A miss means that the line is nowhere in the cache.
NoLine(c, g) == \A s \in Sets, w \in Ways : c.lines[s][w].valid => c.lines[s][w].tag # g

LEMMA NotHeld ==
  ASSUME NEW c, NEW r, NEW S, Sound(c, r, S), NEW a \in Nat, ~Holds(c, a)
  PROVE  NoLine(c, get_tag(a))
<1> SUFFICES ASSUME NEW x \in Sets, NEW y \in Ways, c.lines[x][y].valid, c.lines[x][y].tag = get_tag(a) PROVE FALSE
  BY DEF NoLine
<1>1. x = get_set_index(a)
  BY Geometry DEF Sound, Placed
<1> QED BY <1>1 DEF Holds, HitWays, Ways

\* A line that comes in is memory's, and its bytes are no longer out of date.
LEMMA InsertSound ==
  ASSUME NEW c, NEW r \in Memory, NEW S, Sound(c, r, S), NEW a \in RamAddrs, ~Holds(c, a)
  PROVE  Sound(line_insert(c, a, LineOf(r, a)), r, S \ LineBytesOf(a))
<1> DEFINE s == get_set_index(a)
           w == victim(c.lines[s])
           g == get_tag(a)
           l == [valid |-> TRUE, tag |-> g, last_used |-> c.tick + 1, data |-> LineOf(r, a)]
           d == line_insert(c, a, LineOf(r, a))
           T == S \ LineBytesOf(a)
<1>1. a \in Nat /\ LineBytes \in Nat \ {0} /\ RamBytes \in Nat
  BY CacheGeometry, PathAssumption DEF RamAddrs
<1>2. s \in Sets /\ g \in Tags /\ get_set_index(g) = s /\ g \in Nat /\ g % LineBytes = 0
  BY <1>1, Geometry, WholeLine
<1>3. c \in Contents /\ c.tick + 1 \in Nat /\ c.lines[s] \in [Ways -> Line]
  BY <1>2 DEF Sound, Contents
<1>4. w \in Ways
  BY <1>3, VictimWay
<1>5. \A o \in Offsets : g + o \in RamAddrs /\ g + o \in LineBytesOf(a) /\ LineOf(r, a)[o] = r[g + o]
  BY <1>1, <1>2 DEF Offsets, Tags, RamAddrs, LineBytesOf, LineOf
<1>6. LineOf(r, a) \in [Offsets -> ByteValues]
  BY <1>5 DEF Memory, LineOf
<1>7. d = [lines |-> [c.lines EXCEPT ![s][w] = l], tick |-> c.tick + 1]
  BY DEF line_insert
<1>8. l \in Line
  BY <1>2, <1>3, <1>6 DEF Line
<1>9. \A x \in Sets, y \in Ways : c.lines[x][y].valid => c.lines[x][y].tag # g
  BY <1>1, NotHeld DEF NoLine
<1>10. l.valid /\ l.tag = g /\ Fresh(l, r, T)
  BY <1>5 DEF Fresh
<1>11. \A b \in LineBytesOf(a) : \E o \in Offsets : b = g + o
  BY DEF LineBytesOf
<1> HIDE DEF s, w, g, l, d, T
<1>12. /\ d \in Contents
       /\ \A x \in Sets, y \in Ways : d.lines[x][y] = IF x = s /\ y = w THEN l ELSE c.lines[x][y]
  BY <1>2, <1>3, <1>4, <1>7, <1>8, Replaced
<1>13. ASSUME NEW x \in Sets, NEW y \in Ways, c.lines[x][y].valid
       PROVE  Fresh(c.lines[x][y], r, T)
  <2> DEFINE t == c.lines[x][y].tag
  <2>1. t \in Nat /\ t % LineBytes = 0 /\ t # g /\ Fresh(c.lines[x][y], r, S)
    BY <1>9, <1>13 DEF Sound, Placed, AllFresh, Tags
  <2>2. ASSUME NEW o \in Offsets PROVE t + o \notin LineBytesOf(a)
    <3> SUFFICES ASSUME t + o \in LineBytesOf(a) PROVE FALSE
      OBVIOUS
    <3>1. PICK p \in Offsets : t + o = g + p
      BY <1>11
    <3> HIDE DEF t
    <3> QED BY <1>2, <2>1, <3>1, OneLine
  <2> QED BY <2>1, <2>2 DEF Fresh, T
<1>14. Sound(d, r, T)
  BY <1>2, <1>4, <1>8, <1>9, <1>10, <1>12, <1>13, SoundAfter
<1> QED BY <1>14 DEF d, T

\* An empty cache is never out of date.
LEMMA EmptySound ==
  ASSUME NEW c \in Contents, NEW r
  PROVE  Sound(flush(c), r, {}) /\ Sound(EmptyCache, r, {})
<1>1. EmptyLine \in Line /\ EmptyLine.valid = FALSE
  BY DEF EmptyLine, Line, NoTag, NoData, ByteValues
<1>2. EmptyLines \in [Sets -> [Ways -> Line]] /\ \A s \in Sets, w \in Ways : ~EmptyLines[s][w].valid
  BY <1>1 DEF EmptyLines, Sets, Ways
<1>3. flush(c) \in Contents /\ flush(c).lines = EmptyLines /\ EmptyCache \in Contents /\ EmptyCache.lines = EmptyLines
  BY <1>2 DEF flush, EmptyCache, Contents
<1> QED BY <1>2, <1>3 DEF Sound, Placed, Unique, AllFresh

\* Memory changes behind the cache.
LEMMA BypassSound ==
  ASSUME NEW c, NEW r, NEW S, Sound(c, r, S), NEW q, NEW T, S \subseteq T,
         \A b \in RamAddrs : q[b] = r[b] \/ b \in T
  PROVE  Sound(c, q, T)
<1>1. ASSUME NEW s \in Sets, NEW w \in Ways, c.lines[s][w].valid, NEW o \in Offsets
      PROVE  c.lines[s][w].data[o] = q[c.lines[s][w].tag + o] \/ c.lines[s][w].tag + o \in T
  <2> DEFINE t == c.lines[s][w].tag
  <2>1. t \in Tags /\ (c.lines[s][w].data[o] = r[t + o] \/ t + o \in S)
    BY <1>1 DEF Sound, Placed, AllFresh, Fresh
  <2> HIDE DEF t
  <2>2. t + o \in RamAddrs
    BY <2>1, CacheGeometry, PathAssumption DEF Tags, Offsets, RamAddrs
  <2> QED BY <2>1, <2>2 DEF t
<1> QED BY <1>1 DEF Sound, AllFresh, Fresh

LEMMA DroppedSound ==
  ASSUME NEW c, NEW r, NEW S, Sound(c, r, S), NEW a \in Nat
  PROVE  /\ Sound(Dropped(c, a), r, S) /\ NoLine(Dropped(c, a), get_tag(a))
         /\ \A g : NoLine(c, g) => NoLine(Dropped(c, a), g)
<1>1. c \in Contents /\ c.tick \in Nat
  BY DEF Sound, Contents
<1>2. CASE ~Holds(c, a)
  BY <1>2, NotHeld DEF Dropped
<1>3. CASE Holds(c, a)
  <2> DEFINE s == get_set_index(a)
             w == HitWay(c, a)
             l == [c.lines[s][w] EXCEPT !.valid = FALSE]
             d == Dropped(c, a)
  <2>1. s \in Sets /\ w \in Ways /\ c.lines[s][w] \in Line /\ c.lines[s][w].valid /\ c.lines[s][w].tag = get_tag(a)
    BY <1>1, <1>3, FirstHit
  <2>2. d = [c EXCEPT !.lines[s][w].valid = FALSE]
    BY <1>3 DEF Dropped
  <2> HIDE DEF s, w, d
  <2>3. l \in Line /\ ~l.valid
    BY <2>1 DEF Line
  <2>4. d = [lines |-> [c.lines EXCEPT ![s][w] = l], tick |-> c.tick]
    BY <1>1, <2>1, <2>2 DEF Contents
  <2> HIDE DEF l
  <2>5. /\ d \in Contents
        /\ \A x \in Sets, y \in Ways : d.lines[x][y] = IF x = s /\ y = w THEN l ELSE c.lines[x][y]
    BY <1>1, <2>1, <2>3, <2>4, Replaced
  <2>6. \A x \in Sets, y \in Ways : c.lines[x][y].valid => Fresh(c.lines[x][y], r, S)
    BY DEF Sound, AllFresh
  <2>7. Sound(d, r, S)
    BY <2>1, <2>3, <2>5, <2>6, SoundAfter
  <2>8. NoLine(d, get_tag(a))
    <3> SUFFICES ASSUME NEW x \in Sets, NEW y \in Ways, d.lines[x][y].valid, d.lines[x][y].tag = get_tag(a) PROVE FALSE
      BY DEF NoLine
    <3>1. (x # s \/ y # w) /\ c.lines[x][y].valid /\ c.lines[x][y].tag = get_tag(a)
      BY <2>3, <2>5
    <3>2. x = get_set_index(get_tag(a)) /\ s = get_set_index(get_tag(a))
      BY <2>1, <3>1 DEF Sound, Placed
    <3> QED BY <2>1, <3>1, <3>2 DEF Sound, Unique
  <2>9. \A g : NoLine(c, g) => NoLine(d, g)
    BY <2>3, <2>5 DEF NoLine
  <2> QED BY <2>7, <2>8, <2>9 DEF d
<1> QED BY <1>2, <1>3

\* Memory changes where the cache has nothing.
LEMMA UntouchedSound ==
  ASSUME NEW c, NEW r, NEW S, Sound(c, r, S), NEW q, NEW X, \A b \in RamAddrs \ X : q[b] = r[b],
         \A s \in Sets, w \in Ways, o \in Offsets : c.lines[s][w].valid => c.lines[s][w].tag + o \notin X
  PROVE  Sound(c, q, S \ X)
<1>1. ASSUME NEW s \in Sets, NEW w \in Ways, c.lines[s][w].valid, NEW o \in Offsets
      PROVE  c.lines[s][w].data[o] = q[c.lines[s][w].tag + o] \/ c.lines[s][w].tag + o \in S \ X
  <2> DEFINE t == c.lines[s][w].tag
  <2>1. t \in Tags /\ (c.lines[s][w].data[o] = r[t + o] \/ t + o \in S) /\ t + o \notin X
    BY <1>1 DEF Sound, Placed, AllFresh, Fresh
  <2> HIDE DEF t
  <2>2. t + o \in RamAddrs
    BY <2>1, CacheGeometry, PathAssumption DEF Tags, Offsets, RamAddrs
  <2> QED BY <2>1, <2>2 DEF t
<1> QED BY <1>1 DEF Sound, AllFresh, Fresh

\* What a write does to memory.
LEMMA Written ==
  ASSUME NEW r \in Memory, NEW a \in Nat, NEW bytes \in Seq(ByteValues), Len(bytes) >= 1
  PROVE  /\ ram_write_fast(r, a, bytes) \in Memory
         /\ \A b \in RamAddrs \ Span(a, Len(bytes)) : ram_write_fast(r, a, bytes)[b] = r[b]
         /\ \A b \in RamAddrs \cap Span(a, Len(bytes)) : ram_write_fast(r, a, bytes)[b] = bytes[b - a + 1]
<1> DEFINE q == ram_write_fast(r, a, bytes)
<1>1. Len(bytes) \in Nat /\ \A i \in 1 .. Len(bytes) : bytes[i] \in ByteValues
  BY LenProperties, ElementOfSeq
<1>2. q = [b \in RamAddrs |-> IF b - a + 1 \in 1 .. Len(bytes) THEN bytes[b - a + 1] ELSE r[b]]
  BY DEF ram_write_fast
<1>3. \A b \in RamAddrs : b \in Int /\ (b - a + 1 \in 1 .. Len(bytes) <=> b \in Span(a, Len(bytes)))
  BY <1>1, PathAssumption DEF RamAddrs, Span
<1>4. \A b \in RamAddrs : r[b] \in ByteValues
  BY DEF Memory
<1> HIDE DEF q
<1>5. q \in Memory
  BY <1>1, <1>2, <1>4 DEF Memory
<1> QED BY <1>2, <1>3, <1>5 DEF q

LEMMA UpdatedSound ==
  ASSUME NEW c, NEW r \in Memory, NEW S, Sound(c, r, S), NEW a \in Nat, NEW bytes \in Seq(ByteValues),
         Len(bytes) \in 1 .. LineBytes, a + Len(bytes) <= RamBytes, ~Crosses(a, Len(bytes))
  PROVE  Sound(Updated(c, a, bytes), ram_write_fast(r, a, bytes), S \ Span(a, Len(bytes)))
<1> DEFINE s == get_set_index(a)
           w == HitWay(c, a)
           g == get_tag(a)
           p == a % LineBytes
           n == Len(bytes)
           X == Span(a, Len(bytes))
           q == ram_write_fast(r, a, bytes)
<1>1. c \in Contents /\ c.tick \in Nat
  BY DEF Sound, Contents
<1>2. LineBytes \in Nat \ {0} /\ RamBytes \in Nat /\ n \in Nat /\ n >= 1
  BY CacheGeometry, PathAssumption
<1>3. p \in Offsets /\ g \in Nat /\ a = g + p /\ g % LineBytes = 0
  BY Geometry
<1>4. /\ q \in Memory
      /\ \A b \in RamAddrs \ X : q[b] = r[b]
      /\ \A b \in RamAddrs \cap X : q[b] = bytes[b - a + 1]
  BY <1>2, Written
<1>5. p + n <= LineBytes /\ X = a .. a + n - 1
  BY <1>2, <1>3 DEF Crosses, Span, Offsets
<1> HIDE DEF q, X, n
<1>6. ASSUME NEW t \in Nat, t % LineBytes = 0, NEW o \in Offsets, t + o \in X
      PROVE  t = g
  <2> DEFINE k == t + o - g
  <2> HIDE DEF g, p
  <2>1. k \in Offsets /\ t + o = g + k
    BY <1>2, <1>3, <1>5, <1>6 DEF Offsets
  <2> HIDE DEF k
  <2> QED BY <1>3, <1>6, <2>1, OneLine
<1>7. \A x \in Sets, y \in Ways : c.lines[x][y].valid => c.lines[x][y].tag \in Nat /\ c.lines[x][y].tag % LineBytes = 0
  BY DEF Sound, Placed, Tags
<1>8. CASE ~Holds(c, a)
  <2>1. \A x \in Sets, y \in Ways : c.lines[x][y].valid => c.lines[x][y].tag # g
    BY <1>8, NotHeld DEF NoLine
  <2> HIDE DEF g
  <2>2. \A x \in Sets, y \in Ways, o \in Offsets : c.lines[x][y].valid => c.lines[x][y].tag + o \notin X
    BY <1>6, <1>7, <2>1
  <2>3. Sound(c, q, S \ X)
    BY <1>4, <2>2, UntouchedSound
  <2> QED BY <1>8, <2>3 DEF Updated, q, X
<1>9. CASE Holds(c, a)
  <2> DEFINE old == c.lines[s][w].data
             new == [o \in Offsets |-> IF o - p + 1 \in 1 .. Len(bytes) THEN bytes[o - p + 1] ELSE old[o]]
             l   == [c.lines[s][w] EXCEPT !.data = new]
             d   == Updated(c, a, bytes)
  <2>1. s \in Sets /\ w \in Ways /\ c.lines[s][w] \in Line /\ c.lines[s][w].valid /\ c.lines[s][w].tag = g
    BY <1>1, <1>9, FirstHit
  <2>2. old \in [Offsets -> ByteValues]
    BY <2>1 DEF Line
  <2>3. \A i \in 1 .. Len(bytes) : bytes[i] \in ByteValues
    BY ElementOfSeq
  <2>4. new \in [Offsets -> ByteValues]
    BY <2>2, <2>3
  <2>5. d = [c EXCEPT !.lines[s][w].data = new]
    BY <1>9 DEF Updated
  <2>6. \A o \in Offsets : new[o] = IF o - p + 1 \in 1 .. Len(bytes) THEN bytes[o - p + 1] ELSE old[o]
    OBVIOUS
  <2> HIDE DEF new, s, w, d
  <2>7. l \in Line /\ l.valid /\ l.tag = g /\ l.data = new
    BY <2>1, <2>4 DEF Line
  <2>8. d = [lines |-> [c.lines EXCEPT ![s][w] = l], tick |-> c.tick]
    BY <1>1, <2>1, <2>5 DEF Contents
  <2> HIDE DEF l
  <2>9. /\ d \in Contents
        /\ \A x \in Sets, y \in Ways : d.lines[x][y] = IF x = s /\ y = w THEN l ELSE c.lines[x][y]
    BY <1>1, <2>1, <2>7, <2>8, Replaced
  <2>10. Fresh(c.lines[s][w], r, S) /\ g \in Tags /\ get_set_index(g) = s
    BY <2>1 DEF Sound, AllFresh, Placed
  <2>11. ASSUME NEW o \in Offsets
         PROVE  new[o] = q[g + o] \/ g + o \in S \ X
    <3>1. g + o \in RamAddrs
      BY <1>2, <1>3, <2>10 DEF Tags, Offsets, RamAddrs
    <3>2. old[o] = r[g + o] \/ g + o \in S
      BY <2>1, <2>10 DEF Fresh
    <3> HIDE DEF g, p
    <3>3. o - p + 1 \in 1 .. n <=> g + o \in X
      BY <1>2, <1>3, <1>5 DEF Offsets
    <3>4. (g + o) - a + 1 = o - p + 1
      BY <1>3 DEF Offsets
    <3> HIDE DEF old
    <3>5. CASE g + o \in X
      <4> DEFINE b == g + o
      <4>1. b \in RamAddrs \cap X /\ b - a + 1 = o - p + 1
        BY <3>1, <3>4, <3>5
      <4> HIDE DEF b
      <4>2. q[b] = bytes[b - a + 1]
        BY <1>4, <4>1
      <4>3. q[b] = bytes[o - p + 1]
        BY <4>1, <4>2
      <4> QED BY <2>6, <3>3, <3>5, <4>3 DEF n, b
    <3>6. CASE g + o \notin X
      <4>1. q[g + o] = r[g + o]
        BY <1>4, <3>1, <3>6
      <4> QED BY <2>6, <3>2, <3>3, <3>6, <4>1 DEF n
    <3> QED BY <3>5, <3>6
  <2>12. Fresh(l, q, S \ X)
    BY <2>7, <2>11 DEF Fresh
  <2>13. \A y \in Ways \ {w} : ~(c.lines[s][y].valid /\ c.lines[s][y].tag = l.tag)
    BY <2>1, <2>7 DEF Sound, Unique
  <2>14. ASSUME NEW x \in Sets, NEW y \in Ways, x # s \/ y # w, c.lines[x][y].valid
         PROVE  Fresh(c.lines[x][y], q, S \ X)
    <3> DEFINE t == c.lines[x][y].tag
    <3>1. t \in Tags /\ get_set_index(t) = x /\ Fresh(c.lines[x][y], r, S)
      BY <2>14 DEF Sound, Placed, AllFresh
    <3>2. t # g
      BY <2>1, <2>10, <2>14, <3>1 DEF Sound, Unique
    <3> HIDE DEF t, g
    <3>3. ASSUME NEW o \in Offsets PROVE t + o \in RamAddrs \ X
      <4>1. t \in Nat /\ t % LineBytes = 0 /\ t + LineBytes <= RamBytes
        BY <3>1 DEF Tags
      <4>2. t + o \notin X
        BY <1>6, <3>2, <4>1
      <4> QED BY <1>2, <4>1, <4>2 DEF Offsets, RamAddrs
    <3> QED BY <1>4, <3>1, <3>3 DEF Fresh, t
  <2>15. Sound(d, q, S \ X)
    <3> DEFINE T == S \ X
    <3>1. /\ l.tag \in Tags /\ get_set_index(l.tag) = s /\ Fresh(l, q, T)
          /\ \A y \in Ways \ {w} : ~(c.lines[s][y].valid /\ c.lines[s][y].tag = l.tag)
      BY <2>7, <2>10, <2>12, <2>13
    <3>2. \A x \in Sets, y \in Ways : (x # s \/ y # w) /\ c.lines[x][y].valid => Fresh(c.lines[x][y], q, T)
      BY <2>14
    <3> HIDE DEF T, g
    <3>3. Sound(d, q, T)
      BY <2>1, <2>7, <2>9, <3>1, <3>2, SoundAfter
    <3> QED BY <3>3 DEF T
  <2> QED BY <2>15 DEF d, q, X
<1> QED BY <1>8, <1>9

\* The data cache follows the guest's stores.
LEMMA WriteSound ==
  ASSUME NEW c, NEW r \in Memory, NEW S, Sound(c, r, S), NEW a \in Nat, NEW bytes \in Seq(ByteValues),
         Len(bytes) \in 1 .. LineBytes, a + Len(bytes) <= RamBytes
  PROVE  Sound(write(c, a, bytes), ram_write_fast(r, a, bytes), S \ Span(a, Len(bytes)))
<1> DEFINE n == Len(bytes)
           p == a % LineBytes
           g == get_tag(a)
           h == a + (LineBytes - p)
           d == Dropped(Dropped(c, a), h)
           X == Span(a, Len(bytes))
           q == ram_write_fast(r, a, bytes)
<1>1. CASE ~Crosses(a, Len(bytes))
  BY <1>1, UpdatedSound DEF write
<1>2. CASE Crosses(a, Len(bytes))
  <2>1. LineBytes \in Nat \ {0} /\ n \in Nat /\ n >= 1 /\ n <= LineBytes
    BY CacheGeometry
  <2>2. p \in Offsets /\ g \in Nat /\ a = g + p /\ g % LineBytes = 0
    BY Geometry
  <2>3. \A b \in RamAddrs \ X : q[b] = r[b]
    BY <2>1, Written
  <2>4. X = a .. a + n - 1 /\ write(c, a, bytes) = d
    BY <1>2 DEF Span, write
  <2>5. h \in Nat /\ h = g + LineBytes
    <3> HIDE DEF g, p
    <3> QED BY <2>1, <2>2 DEF Offsets
  <2>6. h % LineBytes = 0 /\ get_tag(h) = h
    <3>1. g \in Int /\ 1 \in Int /\ g + (1 * LineBytes) = h
      BY <2>1, <2>2, <2>5
    <3> HIDE DEF g, h
    <3>2. h % LineBytes = 0
      BY <2>1, <2>2, <3>1, ModAdd
    <3> QED BY <2>5, <3>2 DEF get_tag
  <2>7. Sound(d, r, S) /\ NoLine(d, g) /\ NoLine(d, h)
    <3> DEFINE e == Dropped(c, a)
    <3>1. Sound(e, r, S) /\ NoLine(e, g)
      BY DroppedSound
    <3> HIDE DEF e, g, h
    <3>2. Sound(Dropped(e, h), r, S) /\ NoLine(Dropped(e, h), g) /\ NoLine(Dropped(e, h), h)
      BY <2>5, <2>6, <3>1, DroppedSound
    <3> QED BY <3>2 DEF e
  <2> HIDE DEF n, p, g, h, d, X, q
  <2>8. ASSUME NEW t \in Nat, t % LineBytes = 0, NEW o \in Offsets, t + o \in X
        PROVE  t = g \/ t = h
    <3> DEFINE k == t + o - g
               m == t + o - h
    <3>1. t + o = g + k /\ t + o = h + m
      BY <2>2, <2>5, <2>8 DEF Offsets
    <3>2. k \in Offsets \/ m \in Offsets
      BY <2>1, <2>2, <2>4, <2>5, <2>8 DEF Offsets
    <3> HIDE DEF k, m
    <3>3. k \in Offsets => t = g
      BY <2>2, <2>8, <3>1, OneLine
    <3>4. m \in Offsets => t = h
      BY <2>5, <2>6, <2>8, <3>1, OneLine
    <3> QED BY <3>2, <3>3, <3>4
  <2>9. \A x \in Sets, y \in Ways, o \in Offsets : d.lines[x][y].valid => d.lines[x][y].tag + o \notin X
    BY <2>7, <2>8 DEF NoLine, Sound, Placed, Tags
  <2>10. Sound(d, q, S \ X)
    BY <2>3, <2>7, <2>9, UntouchedSound
  <2> QED BY <2>4, <2>10 DEF X, q
<1> QED BY <1>1, <1>2

-----------------------------------------------------------------------------
(* Reverse execution.  The writes of an instruction are taken back one by    *)
(* one, the last first; every one of them puts back what it replaced.        *)

Writes == {w \in Nat \X Seq(ByteValues) : IsWrite(w)}

\* Memory while the writes ws are taken back: after k of them.
TakenBack(r, ws) ==
  CHOOSE g : g = [k \in 0 .. Len(ws) |->
    IF k = 0 THEN r ELSE ram_write_fast(g[k - 1], ws[(Len(ws) + 1) - k][1], ws[(Len(ws) + 1) - k][2])]

\* The recursive definition is one.
LEMMA TakenBackDef ==
  ASSUME NEW r, NEW ws \in Seq(Writes)
  PROVE  /\ Undone(r, ws) = TakenBack(r, ws)[Len(ws)] /\ Len(ws) \in Nat
         /\ TakenBack(r, ws)[0] = r
         /\ \A k \in 1 .. Len(ws) : TakenBack(r, ws)[k] =
              ram_write_fast(TakenBack(r, ws)[k - 1], ws[(Len(ws) + 1) - k][1], ws[(Len(ws) + 1) - k][2])
<1> DEFINE F(m, k) == ram_write_fast(m, ws[(Len(ws) + 1) - k][1], ws[(Len(ws) + 1) - k][2])
           T       == {n \in Nat : \E g : g = [k \in 0 .. n |-> IF k = 0 THEN r ELSE F(g[k - 1], k)]}
<1>1. Len(ws) \in Nat
  BY LenProperties
<1>2. TakenBack(r, ws) = CHOOSE g : g = [k \in 0 .. Len(ws) |-> IF k = 0 THEN r ELSE F(g[k - 1], k)]
  BY DEF TakenBack
<1>3. Undone(r, ws) = TakenBack(r, ws)[Len(ws)]
  BY DEF Undone, TakenBack
<1> HIDE DEF F
<1>4. 0 \in T
  <2> DEFINE h == [k \in 0 .. 0 |-> r]
  <2>1. h = [k \in 0 .. 0 |-> IF k = 0 THEN r ELSE F(h[k - 1], k)]
    OBVIOUS
  <2> QED BY <2>1
<1>5. ASSUME NEW n \in Nat, n \in T PROVE n + 1 \in T
  <2>1. PICK g : g = [k \in 0 .. n |-> IF k = 0 THEN r ELSE F(g[k - 1], k)]
    BY <1>5
  <2> DEFINE h == [k \in 0 .. n + 1 |-> IF k = 0 THEN r ELSE F(g[k - 1], k)]
  <2>2. \A k \in 0 .. n : h[k] = g[k]
    <3> TAKE k \in 0 .. n
    <3>1. k \in 0 .. n + 1
      OBVIOUS
    <3>2. h[k] = IF k = 0 THEN r ELSE F(g[k - 1], k)
      BY <3>1
    <3>3. g[k] = IF k = 0 THEN r ELSE F(g[k - 1], k)
      BY <2>1
    <3> QED BY <3>2, <3>3
  <2>3. \A k \in 0 .. n + 1 : k # 0 => h[k - 1] = g[k - 1]
    <3> HIDE DEF h
    <3> TAKE k \in 0 .. n + 1
    <3>1. k # 0 => k - 1 \in 0 .. n
      OBVIOUS
    <3> QED BY <2>2, <3>1
  <2>4. h = [k \in 0 .. n + 1 |-> IF k = 0 THEN r ELSE F(h[k - 1], k)]
    BY <2>3
  <2> HIDE DEF h
  <2>5. \E e : e = [k \in 0 .. n + 1 |-> IF k = 0 THEN r ELSE F(e[k - 1], k)]
    BY <2>4
  <2>6. n + 1 \in Nat
    OBVIOUS
  <2> QED BY <2>5, <2>6
<1>6. Len(ws) \in T
  <2> HIDE DEF T
  <2>1. Nat \subseteq T
    BY <1>4, <1>5, SetInduction
  <2> QED BY <1>1, <2>1
<1> DEFINE b == TakenBack(r, ws)
<1>7. b = [k \in 0 .. Len(ws) |-> IF k = 0 THEN r ELSE F(b[k - 1], k)]
  BY <1>2, <1>6
<1> HIDE DEF b
<1>8. b[0] = r
  BY <1>1, <1>7
<1>9. \A k \in 1 .. Len(ws) : b[k] = F(b[k - 1], k)
  <2> TAKE k \in 1 .. Len(ws)
  <2>1. k \in 0 .. Len(ws) /\ k # 0
    BY <1>1
  <2> QED BY <1>7, <2>1
<1> QED BY <1>1, <1>3, <1>8, <1>9 DEF b, F

\* What is taken back from a byte depends on nothing but the byte.
LEMMA UndoneLocal ==
  ASSUME NEW r \in Memory, NEW q \in Memory, NEW ws \in Seq(Writes), NEW b \in RamAddrs, r[b] = q[b]
  PROVE  Undone(r, ws) \in Memory /\ Undone(r, ws)[b] = Undone(q, ws)[b]
<1> DEFINE f == TakenBack(r, ws)
           g == TakenBack(q, ws)
           T == {n \in Nat : n <= Len(ws) => f[n] \in Memory /\ g[n] \in Memory /\ f[n][b] = g[n][b]}
<1>1. /\ Len(ws) \in Nat /\ Undone(r, ws) = f[Len(ws)] /\ Undone(q, ws) = g[Len(ws)]
      /\ f[0] = r /\ g[0] = q
  BY TakenBackDef
<1>2. ASSUME NEW k \in 1 .. Len(ws)
      PROVE  /\ f[k] = ram_write_fast(f[k - 1], ws[(Len(ws) + 1) - k][1], ws[(Len(ws) + 1) - k][2])
             /\ g[k] = ram_write_fast(g[k - 1], ws[(Len(ws) + 1) - k][1], ws[(Len(ws) + 1) - k][2])
  BY TakenBackDef
<1> HIDE DEF f, g
<1>3. 0 \in T
  BY <1>1
<1>4. ASSUME NEW n \in Nat, n \in T PROVE n + 1 \in T
  <2> SUFFICES ASSUME n + 1 <= Len(ws)
               PROVE  f[n + 1] \in Memory /\ g[n + 1] \in Memory /\ f[n + 1][b] = g[n + 1][b]
    OBVIOUS
  <2> DEFINE w == ws[(Len(ws) + 1) - (n + 1)]
  <2>1. n + 1 \in 1 .. Len(ws) /\ (n + 1) - 1 = n /\ (Len(ws) + 1) - (n + 1) \in 1 .. Len(ws)
    BY <1>1
  <2>2. f[n + 1] = ram_write_fast(f[n], w[1], w[2]) /\ g[n + 1] = ram_write_fast(g[n], w[1], w[2])
    BY <1>2, <2>1
  <2>3. w \in Writes
    BY <2>1, ElementOfSeq
  <2> HIDE DEF w
  <2>4. w[1] \in Nat /\ w[2] \in Seq(ByteValues) /\ Len(w[2]) >= 1
    BY <2>3, CacheGeometry DEF Writes, IsWrite
  <2>5. f[n] \in Memory /\ g[n] \in Memory /\ f[n][b] = g[n][b]
    BY <1>1, <1>4
  <2>6. f[n + 1] \in Memory /\ g[n + 1] \in Memory
    BY <2>2, <2>4, <2>5, Written, ZenonT(60)
  <2> DEFINE X == Span(w[1], Len(w[2]))
  <2>7. /\ b \in X => f[n + 1][b] = w[2][b - w[1] + 1]
        /\ b \notin X => f[n + 1][b] = f[n][b]
    <3> DEFINE m == f[n]
    <3>1. m \in Memory /\ f[n + 1] = ram_write_fast(m, w[1], w[2])
      BY <2>2, <2>5
    <3> HIDE DEF m
    <3>2. /\ \A e \in RamAddrs \ X : ram_write_fast(m, w[1], w[2])[e] = m[e]
          /\ \A e \in RamAddrs \cap X : ram_write_fast(m, w[1], w[2])[e] = w[2][e - w[1] + 1]
      BY <2>4, <3>1, Written
    <3> QED BY <3>1, <3>2 DEF m
  <2>8. /\ b \in X => g[n + 1][b] = w[2][b - w[1] + 1]
        /\ b \notin X => g[n + 1][b] = g[n][b]
    <3> DEFINE m == g[n]
    <3>1. m \in Memory /\ g[n + 1] = ram_write_fast(m, w[1], w[2])
      BY <2>2, <2>5
    <3> HIDE DEF m
    <3>2. /\ \A e \in RamAddrs \ X : ram_write_fast(m, w[1], w[2])[e] = m[e]
          /\ \A e \in RamAddrs \cap X : ram_write_fast(m, w[1], w[2])[e] = w[2][e - w[1] + 1]
      BY <2>4, <3>1, Written
    <3> QED BY <3>1, <3>2 DEF m
  <2> HIDE DEF X
  <2> QED BY <2>5, <2>6, <2>7, <2>8
<1>5. Len(ws) \in T
  <2> HIDE DEF T
  <2>1. Nat \subseteq T
    BY <1>3, <1>4, SetInduction
  <2> QED BY <1>1, <2>1
<1> QED BY <1>1, <1>5

\* The write recorded last is taken back first.
LEMMA UndoneAppend ==
  ASSUME NEW r, NEW ws \in Seq(Writes), NEW x \in Writes
  PROVE  Undone(r, Append(ws, x)) = Undone(ram_write_fast(r, x[1], x[2]), ws)
<1> DEFINE q  == ram_write_fast(r, x[1], x[2])
           vs == Append(ws, x)
           f  == TakenBack(r, vs)
           g  == TakenBack(q, ws)
           T  == {n \in Nat : n <= Len(ws) => f[n + 1] = g[n]}
<1>1. /\ vs \in Seq(Writes) /\ Len(vs) = Len(ws) + 1 /\ vs[Len(ws) + 1] = x
      /\ \A i \in 1 .. Len(ws) : vs[i] = ws[i]
  BY AppendProperties
<1> HIDE DEF vs
<1>2. /\ Len(ws) \in Nat /\ Undone(r, vs) = f[Len(vs)] /\ Undone(q, ws) = g[Len(ws)]
      /\ f[0] = r /\ g[0] = q
  BY <1>1, TakenBackDef
<1>3. ASSUME NEW k \in 1 .. Len(vs)
      PROVE  f[k] = ram_write_fast(f[k - 1], vs[(Len(vs) + 1) - k][1], vs[(Len(vs) + 1) - k][2])
  <2>1. vs \in Seq(Writes)
    BY <1>1
  <2> QED BY <2>1, TakenBackDef
<1>4. ASSUME NEW k \in 1 .. Len(ws)
      PROVE  g[k] = ram_write_fast(g[k - 1], ws[(Len(ws) + 1) - k][1], ws[(Len(ws) + 1) - k][2])
  BY TakenBackDef
<1> HIDE DEF f, g
<1>5. 0 \in T
  <2>1. 1 \in 1 .. Len(vs) /\ 1 - 1 = 0 /\ (Len(vs) + 1) - 1 = Len(ws) + 1 /\ 0 + 1 = 1
    BY <1>1, <1>2
  <2>2. f[1] = q
    BY <1>1, <1>2, <1>3, <2>1
  <2> QED BY <1>2, <2>1, <2>2
<1>6. ASSUME NEW n \in Nat, n \in T PROVE n + 1 \in T
  <2> SUFFICES ASSUME n + 1 <= Len(ws) PROVE f[n + 1 + 1] = g[n + 1]
    OBVIOUS
  <2> DEFINE m == (Len(ws) + 1) - (n + 1)
  <2>1. /\ n + 1 \in 1 .. Len(ws) /\ n + 1 + 1 \in 1 .. Len(vs) /\ (n + 1 + 1) - 1 = n + 1 /\ (n + 1) - 1 = n
        /\ (Len(vs) + 1) - (n + 1 + 1) = m /\ m \in 1 .. Len(ws)
    BY <1>1, <1>2
  <2>2. g[n + 1] = ram_write_fast(g[n], ws[m][1], ws[m][2])
    BY <1>4, <2>1
  <2>3. f[n + 1 + 1] = ram_write_fast(f[n + 1], vs[m][1], vs[m][2])
    BY <1>3, <2>1
  <2> HIDE DEF m
  <2> QED BY <1>1, <1>2, <1>6, <2>1, <2>2, <2>3
<1>7. Len(ws) \in T
  <2> HIDE DEF T
  <2>1. Nat \subseteq T
    BY <1>5, <1>6, SetInduction
  <2> QED BY <1>2, <2>1
<1> QED BY <1>1, <1>2, <1>7 DEF vs

\* Memory is what it was when the old bytes are written over the new.
LEMMA PutBack ==
  ASSUME NEW r \in Memory, NEW a \in Nat, NEW bytes \in Seq(ByteValues), Len(bytes) \in 1 .. LineBytes,
         a + Len(bytes) <= RamBytes
  PROVE  /\ <<a, ram_read_fast(r, a, Len(bytes))>> \in Writes
         /\ ram_write_fast(ram_write_fast(r, a, bytes), a, ram_read_fast(r, a, Len(bytes))) = r
<1> DEFINE n   == Len(bytes)
           old == ram_read_fast(r, a, Len(bytes))
           q   == ram_write_fast(r, a, bytes)
           p   == ram_write_fast(q, a, old)
<1>1. n \in Nat /\ n >= 1 /\ n <= LineBytes /\ RamBytes \in Nat /\ a + n <= RamBytes /\ LineBytes \in Nat
  BY CacheGeometry, PathAssumption
<1>2. /\ q \in Memory /\ \A b \in RamAddrs \ Span(a, n) : q[b] = r[b]
  BY <1>1, Written
<1>3. \A i \in 1 .. n : a + i - 1 \in RamAddrs
  BY <1>1 DEF RamAddrs
<1>4. old = [i \in 1 .. n |-> r[a + i - 1]]
  BY DEF ram_read_fast
<1>5. old \in Seq(ByteValues) /\ Len(old) = n
  BY <1>1, <1>3, <1>4 DEF Memory
<1> HIDE DEF n, old, q, p
<1>6. p \in Memory /\ \A b \in RamAddrs \ Span(a, n) : p[b] = q[b]
  BY <1>1, <1>2, <1>5, Written DEF p
<1>7. \A b \in RamAddrs \cap Span(a, n) : p[b] = old[b - a + 1]
  BY <1>1, <1>2, <1>5, Written DEF p
<1>8. \A b \in RamAddrs : p[b] = r[b]
  <2> TAKE b \in RamAddrs
  <2>1. CASE b \in Span(a, n)
    <3>1. b - a + 1 \in 1 .. n /\ a + (b - a + 1) - 1 = b
      BY <1>1, <2>1 DEF Span
    <3>2. old[b - a + 1] = r[b]
      BY <1>4, <3>1
    <3> QED BY <1>7, <2>1, <3>2
  <2>2. CASE b \notin Span(a, n)
    BY <1>2, <1>6, <2>2
  <2> QED BY <2>1, <2>2
<1>9. p = r
  BY <1>6, <1>8 DEF Memory
<1>10. <<a, old>> \in Writes
  BY <1>1, <1>5 DEF Writes, IsWrite
<1> QED BY <1>9, <1>10 DEF p, q, old

-----------------------------------------------------------------------------
(* The state that an instruction passes on from step to step.                *)

Checkpoint == [writes : Seq(Writes), before : Memory, others : SUBSET Int]
State      == [ram : Memory, dcache : Contents, icache : Contents, undo : Seq(Checkpoint),
               stale : [d : SUBSET Int, i : SUBSET Int]]

\* Memory after the instruction of checkpoint k: now, or when the next one began.
AfterIt(r, u, k) == IF k = 1 THEN r ELSE u[k - 1].before

\* Every checkpoint takes its instruction back, apart from the bytes that others wrote since; and
\* what was written since a checkpoint was written since every older one.
Reversible(r, u) ==
  /\ \A k \in 1 .. Len(u) : \A b \in RamAddrs \ u[k].others : Undone(AfterIt(r, u, k), u[k].writes)[b] = u[k].before[b]
  /\ \A k \in 1 .. Len(u) : k > 1 => u[k - 1].others \subseteq u[k].others

StateInv(st) ==
  /\ st \in State
  /\ Sound(st.dcache, st.ram, st.stale.d) /\ Sound(st.icache, st.ram, st.stale.i)
  /\ Len(st.undo) <= UndoMax /\ Reversible(st.ram, st.undo)
  /\ ~rollback => st.undo = << >>

\* A new checkpoint: its instruction has written nothing yet.
LEMMA PushReversible ==
  ASSUME NEW r \in Memory, NEW u \in Seq(Checkpoint), Len(u) <= UndoMax, Reversible(r, u)
  PROVE  /\ push_undo_state(u, r) \in Seq(Checkpoint) /\ Reversible(r, push_undo_state(u, r))
         /\ Len(push_undo_state(u, r)) <= UndoMax /\ Len(push_undo_state(u, r)) >= Len(u)
         /\ Len(push_undo_state(u, r)) >= 1
<1> DEFINE e   == [writes |-> << >>, before |-> r, others |-> {}]
           all == <<e>> \o u
           v   == push_undo_state(u, r)
<1>1. e \in Checkpoint /\ e.writes = << >> /\ e.before = r /\ e.others = {}
  BY EmptySeq DEF Checkpoint
<1>2. Undone(r, << >>) = r
  <2>1. << >> \in Seq(Writes) /\ Len(<< >>) = 0
    BY EmptySeq
  <2>2. Undone(r, << >>) = TakenBack(r, << >>)[Len(<< >>)] /\ TakenBack(r, << >>)[0] = r
    BY <2>1, TakenBackDef
  <2> QED BY <2>1, <2>2
<1> HIDE DEF e
<1>3. Len(u) \in Nat /\ UndoMax \in Nat \ {0}
  BY LenProperties, PathAssumption
<1>4. /\ all \in Seq(Checkpoint) /\ Len(all) = Len(u) + 1 /\ all[1] = e
      /\ \A k \in 2 .. Len(all) : all[k] = u[k - 1]
  <2>1. <<e>> \in Seq(Checkpoint) /\ Len(<<e>>) = 1 /\ <<e>>[1] = e
    BY <1>1
  <2>2. /\ all \in Seq(Checkpoint) /\ Len(all) = 1 + Len(u)
        /\ \A i \in 1 .. 1 + Len(u) : all[i] = IF i <= 1 THEN <<e>>[i] ELSE u[i - 1]
    BY <2>1, ConcatProperties
  <2> QED BY <1>3, <2>1, <2>2
<1> DEFINE n == Len(v)
<1>5. /\ v \in Seq(Checkpoint) /\ n \in Nat /\ n <= Len(u) + 1 /\ n <= UndoMax /\ n >= Len(u) /\ n >= 1
      /\ \A k \in 1 .. n : v[k] = all[k]
  <2>1. CASE Len(all) > UndoMax
    <3>1. v = SubSeq(all, 1, Len(all) - 1)
      BY <2>1 DEF push_undo_state, Front, e
    <3>2. \A i \in 1 .. Len(all) - 1 : all[i] \in Checkpoint
      BY <1>3, <1>4, ElementOfSeq
    <3>3. /\ v \in Seq(Checkpoint) /\ n = (IF 1 <= Len(all) - 1 THEN (Len(all) - 1) - 1 + 1 ELSE 0)
          /\ \A i \in 1 .. (Len(all) - 1) - 1 + 1 : v[i] = all[1 + i - 1]
      <4> HIDE DEF all, v
      <4>1. 1 \in Int /\ Len(all) - 1 \in Int
        BY <1>3, <1>4
      <4> QED BY <3>1, <3>2, <4>1, SubSeqProperties
    <3> HIDE DEF all, v
    <3>4. n = Len(all) - 1
      BY <1>3, <1>4, <2>1, <3>3
    <3>5. \A k \in 1 .. n : v[k] = all[k]
      <4> TAKE k \in 1 .. n
      <4>1. k \in 1 .. (Len(all) - 1) - 1 + 1 /\ 1 + k - 1 = k
        BY <1>3, <1>4, <3>4
      <4>2. v[k] = all[1 + k - 1]
        BY <3>3, <4>1
      <4> QED BY <4>1, <4>2
    <3> QED BY <1>3, <1>4, <2>1, <3>3, <3>4, <3>5
  <2>2. CASE ~(Len(all) > UndoMax)
    <3>1. v = all
      BY <2>2 DEF push_undo_state, e
    <3> HIDE DEF all, v
    <3> QED BY <1>3, <1>4, <2>2, <3>1
  <2> QED BY <2>1, <2>2
<1> HIDE DEF all, v
<1>6. v[1] = e /\ \A k \in 2 .. n : v[k] = u[k - 1] /\ k - 1 \in 1 .. Len(u)
  BY <1>3, <1>4, <1>5
<1>7. ASSUME NEW k \in 1 .. n, NEW b \in RamAddrs \ v[k].others
      PROVE  Undone(AfterIt(r, v, k), v[k].writes)[b] = v[k].before[b]
  <2>1. CASE k = 1
    BY <1>1, <1>2, <1>6, <2>1 DEF AfterIt
  <2>2. CASE k # 1
    <3>1. k \in 2 .. n /\ k - 1 \in 1 .. n /\ v[k] = u[k - 1] /\ k - 1 \in 1 .. Len(u)
      BY <1>5, <1>6, <2>2
    <3>2. AfterIt(r, v, k) = AfterIt(r, u, k - 1)
      <4>1. CASE k = 2
        BY <1>1, <1>6, <4>1 DEF AfterIt
      <4>2. CASE k # 2
        <5>1. k - 1 \in 2 .. n /\ k - 1 # 1
          BY <1>5, <3>1, <4>2
        <5>2. v[k - 1] = u[(k - 1) - 1]
          BY <1>6, <5>1
        <5> QED BY <2>2, <5>1, <5>2 DEF AfterIt
      <4> QED BY <4>1, <4>2
    <3>3. Undone(AfterIt(r, u, k - 1), u[k - 1].writes)[b] = u[k - 1].before[b]
      BY <1>7, <3>1 DEF Reversible
    <3> QED BY <3>1, <3>2, <3>3
  <2> QED BY <2>1, <2>2
<1>8. ASSUME NEW k \in 1 .. n, k > 1
      PROVE  v[k - 1].others \subseteq v[k].others
  <2>1. CASE k = 2
    BY <1>1, <1>6, <2>1
  <2>2. CASE k # 2
    <3>1. k \in 2 .. n /\ k - 1 \in 2 .. n /\ k - 1 > 1
      BY <1>5, <1>8, <2>2
    <3>2. v[k] = u[k - 1] /\ v[k - 1] = u[(k - 1) - 1] /\ k - 1 \in 1 .. Len(u)
      BY <1>6, <3>1
    <3> QED BY <3>1, <3>2 DEF Reversible
  <2> QED BY <2>1, <2>2
<1>9. Reversible(r, v)
  BY <1>7, <1>8 DEF Reversible
<1> QED BY <1>5, <1>9 DEF v

\* A store records the bytes it replaces.
LEMMA RecordReversible ==
  ASSUME NEW r \in Memory, NEW u \in Seq(Checkpoint), Reversible(r, u), NEW a \in Nat, NEW bytes \in Seq(ByteValues),
         Len(bytes) \in 1 .. LineBytes, a + Len(bytes) <= RamBytes
  PROVE  LET q == ram_write_fast(r, a, bytes)
             v == record_mem_write(u, a, ram_read_fast(r, a, Len(bytes)))
         IN  v \in Seq(Checkpoint) /\ Len(v) = Len(u) /\ Reversible(q, v)
<1> DEFINE q == ram_write_fast(r, a, bytes)
           x == <<a, ram_read_fast(r, a, Len(bytes))>>
           v == record_mem_write(u, a, ram_read_fast(r, a, Len(bytes)))
<1>1. x \in Writes /\ ram_write_fast(q, x[1], x[2]) = r
  BY PutBack
<1>2. CASE u = << >>
  BY <1>2, EmptySeq DEF record_mem_write, Reversible
<1>3. CASE u # << >>
  <2> DEFINE e == [u[1] EXCEPT !.writes = Append(@, x)]
  <2>1. Len(u) \in Nat /\ Len(u) >= 1 /\ 1 \in 1 .. Len(u) /\ u[1] \in Checkpoint
    BY <1>3, EmptySeq, ElementOfSeq
  <2>2. v = [u EXCEPT ![1].writes = Append(@, x)]
    BY <1>3 DEF record_mem_write
  <2> HIDE DEF x, v, q
  <2>3. Append(u[1].writes, x) \in Seq(Writes) /\ u[1].writes \in Seq(Writes)
    BY <1>1, <2>1, AppendProperties DEF Checkpoint
  <2>4. /\ e \in Checkpoint /\ e.writes = Append(u[1].writes, x) /\ e.before = u[1].before /\ e.others = u[1].others
    BY <2>1, <2>3 DEF Checkpoint
  <2>5. v = [u EXCEPT ![1] = e]
    BY <2>2
  <2> HIDE DEF e
  <2>6. v \in Seq(Checkpoint) /\ Len(v) = Len(u) /\ \A j \in 1 .. Len(u) : v[j] = IF j = 1 THEN e ELSE u[j]
    BY <2>1, <2>4, <2>5, ExceptSeq
  <2>7. \A k \in 1 .. Len(u) : v[k].before = u[k].before /\ v[k].others = u[k].others
    BY <2>4, <2>6
  <2>8. ASSUME NEW k \in 1 .. Len(u), NEW b \in RamAddrs \ v[k].others
        PROVE  Undone(AfterIt(q, v, k), v[k].writes)[b] = v[k].before[b]
    <3>1. Undone(AfterIt(r, u, k), u[k].writes)[b] = u[k].before[b]
      BY <2>7, <2>8 DEF Reversible
    <3>2. CASE k = 1
      <4>1. v[1].writes = Append(u[1].writes, x)
        BY <2>1, <2>4, <2>6
      <4>2. Undone(q, Append(u[1].writes, x)) = Undone(r, u[1].writes)
        BY <1>1, <2>3, UndoneAppend
      <4> QED BY <2>7, <3>1, <3>2, <4>1, <4>2 DEF AfterIt
    <3>3. CASE k # 1
      <4>1. k - 1 \in 1 .. Len(u) /\ v[k] = u[k]
        BY <2>1, <2>6, <3>3
      <4>2. AfterIt(q, v, k) = AfterIt(r, u, k)
        BY <2>7, <3>3, <4>1 DEF AfterIt
      <4> QED BY <3>1, <4>1, <4>2
    <3> QED BY <3>2, <3>3
  <2>9. ASSUME NEW k \in 1 .. Len(u), k > 1
        PROVE  v[k - 1].others \subseteq v[k].others
    <3>1. k - 1 \in 1 .. Len(u) /\ u[k - 1].others \subseteq u[k].others
      BY <2>1, <2>9 DEF Reversible
    <3> QED BY <2>7, <3>1
  <2>10. Reversible(q, v)
    BY <2>6, <2>8, <2>9 DEF Reversible
  <2> QED BY <2>6, <2>10 DEF v, q
<1> QED BY <1>2, <1>3

LEMMA FetchStep ==
  ASSUME NEW st, StateInv(st), NEW pc \in RamAddrs
  PROVE  StateInv(fetch_read_instruction_word(st, pc)) /\ fetch_read_instruction_word(st, pc).undo = st.undo
<1> DEFINE c == read(st.icache, pc, 1)
           e == fetch_read_instruction_word(st, pc)
<1>1. pc \in Nat /\ st \in State /\ st.ram \in Memory /\ st.stale.i \in SUBSET Int
  BY PathAssumption DEF RamAddrs, StateInv, State
<1>2. Sound(c, st.ram, st.stale.i) /\ (~read_hits(st.icache, pc, 1) => c.lines = st.icache.lines)
  <2> DEFINE i == st.icache
             m == st.ram
             S == st.stale.i
  <2>1. Sound(i, m, S)
    BY DEF StateInv
  <2> HIDE DEF i, m, S
  <2>2. Sound(read(i, pc, 1), m, S) /\ (~read_hits(i, pc, 1) => read(i, pc, 1).lines = i.lines)
    BY <1>1, <2>1, ReadSound, Zenon
  <2> QED BY <2>2, Zenon DEF i, m, S
<1>3. CASE hp
  BY <1>3 DEF fetch_read_instruction_word
<1>4. CASE ~hp /\ read_hits(st.icache, pc, 1)
  <2>1. e = [st EXCEPT !.icache = c]
    BY <1>4 DEF fetch_read_instruction_word
  <2> HIDE DEF c, e
  <2>2. /\ e \in State /\ e.ram = st.ram /\ e.dcache = st.dcache /\ e.icache = c /\ e.undo = st.undo /\ e.stale = st.stale
    BY <1>1, <1>2, <2>1 DEF State, Sound
  <2> QED BY <1>2, <2>2 DEF StateInv, e
<1>5. CASE ~hp /\ ~read_hits(st.icache, pc, 1)
  <2> DEFINE i == line_insert(c, pc, LineOf(st.ram, pc))
             S == st.stale.i \ LineBytesOf(pc)
  <2>1. ~Holds(c, pc)
    <3>1. (pc % LineBytes) + 1 <= LineBytes /\ (pc % LineBytes) + 1 \in Int /\ LineBytes \in Int
      BY <1>1, CacheGeometry, ModDef
    <3>2. ~Crosses(pc, 1)
      BY <3>1 DEF Crosses
    <3>3. ~Holds(st.icache, pc)
      BY <1>5, <3>2 DEF read_hits
    <3> QED BY <1>2, <1>5, <3>3 DEF Holds, HitWays
  <2>2. e = [st EXCEPT !.icache = i, !.stale.i = S]
    BY <1>5 DEF fetch_read_instruction_word
  <2> HIDE DEF c, e
  <2>3. Sound(i, st.ram, S)
    BY <1>1, <1>2, <2>1, InsertSound
  <2> HIDE DEF i
  <2>4. S \in SUBSET Int
    BY <1>1
  <2> HIDE DEF S
  <2>5. /\ e \in State /\ e.ram = st.ram /\ e.dcache = st.dcache /\ e.icache = i /\ e.undo = st.undo
        /\ e.stale.d = st.stale.d /\ e.stale.i = S
    BY <1>1, <2>2, <2>3, <2>4 DEF State, Sound
  <2> QED BY <2>3, <2>5 DEF StateInv, e
<1> QED BY <1>3, <1>4, <1>5

LEMMA ReadStep ==
  ASSUME NEW st, StateInv(st), NEW a \in RamAddrs, NEW n \in Nat, NEW direct \in BOOLEAN
  PROVE  StateInv(issue_read(st, a, n, direct)) /\ issue_read(st, a, n, direct).undo = st.undo
<1> DEFINE c == read(st.dcache, a, n)
           e == issue_read(st, a, n, direct)
<1>1. a \in Nat /\ st \in State /\ st.ram \in Memory /\ st.stale.d \in SUBSET Int
  BY PathAssumption DEF RamAddrs, StateInv, State
<1>2. Sound(c, st.ram, st.stale.d) /\ (~read_hits(st.dcache, a, n) => c.lines = st.dcache.lines)
  BY <1>1, ReadSound DEF StateInv
<1>3. CASE direct \/ Crosses(a, n)
  BY <1>3 DEF issue_read
<1>4. CASE ~direct /\ ~Crosses(a, n) /\ read_hits(st.dcache, a, n)
  <2>1. e = [st EXCEPT !.dcache = c]
    BY <1>4 DEF issue_read, through_cache
  <2> HIDE DEF c, e
  <2>2. /\ e \in State /\ e.ram = st.ram /\ e.icache = st.icache /\ e.dcache = c /\ e.undo = st.undo /\ e.stale = st.stale
    BY <1>1, <1>2, <2>1 DEF State, Sound
  <2> QED BY <1>2, <2>2 DEF StateInv, e
<1>5. CASE ~direct /\ ~Crosses(a, n) /\ ~read_hits(st.dcache, a, n)
  <2> DEFINE d == line_insert(c, a, LineOf(st.ram, a))
             S == st.stale.d \ LineBytesOf(a)
             f == [st EXCEPT !.dcache = c]
  <2>1. ~Holds(c, a)
    BY <1>2, <1>5 DEF read_hits, Holds, HitWays
  <2>2. e = [f EXCEPT !.dcache = line_insert(@, a, LineOf(st.ram, a)), !.stale.d = @ \ LineBytesOf(a)]
    BY <1>5 DEF issue_read, through_cache
  <2> HIDE DEF c, e
  <2>3. Sound(d, st.ram, S)
    BY <1>1, <1>2, <2>1, InsertSound
  <2>4. /\ f \in State /\ f.ram = st.ram /\ f.icache = st.icache /\ f.dcache = c /\ f.undo = st.undo /\ f.stale = st.stale
    BY <1>1, <1>2 DEF State, Sound
  <2> HIDE DEF f
  <2>5. e = [f EXCEPT !.dcache = d, !.stale.d = S]
    BY <2>2, <2>4
  <2> HIDE DEF d
  <2>6. S \in SUBSET Int
    BY <1>1
  <2> HIDE DEF S
  <2>7. /\ e \in State /\ e.ram = st.ram /\ e.icache = st.icache /\ e.dcache = d /\ e.undo = st.undo
        /\ e.stale.i = st.stale.i /\ e.stale.d = S
    BY <2>3, <2>4, <2>5, <2>6 DEF State, Sound
  <2> QED BY <2>3, <2>7 DEF StateInv, e
<1> QED BY <1>3, <1>4, <1>5

LEMMA WriteStep ==
  ASSUME NEW st, StateInv(st), NEW w \in Writes, NEW direct \in BOOLEAN, rollback \in BOOLEAN
  PROVE  /\ StateInv(issue_write(st, w[1], w[2], direct))
         /\ Len(issue_write(st, w[1], w[2], direct).undo) = Len(st.undo)
<1> DEFINE a == w[1]
           bytes == w[2]
           X == Span(a, Len(bytes))
           q == ram_write_fast(st.ram, a, bytes)
           c == IF direct THEN st.dcache ELSE write(st.dcache, a, bytes)
           u == IF rollback THEN record_mem_write(st.undo, a, ram_read_fast(st.ram, a, Len(bytes))) ELSE st.undo
           D == IF direct THEN st.stale.d \cup X ELSE st.stale.d \ X
           I == st.stale.i \cup X
           e == issue_write(st, w[1], w[2], direct)
<1>1. a \in Nat /\ bytes \in Seq(ByteValues) /\ Len(bytes) \in 1 .. LineBytes /\ a + Len(bytes) <= RamBytes
  BY DEF Writes, IsWrite
<1>2. st \in State /\ st.ram \in Memory /\ st.undo \in Seq(Checkpoint) /\ st.stale.d \in SUBSET Int /\ st.stale.i \in SUBSET Int
  BY DEF StateInv, State
<1>3. e = [st EXCEPT !.ram = q, !.dcache = c, !.undo = u, !.stale = [i |-> I, d |-> D]]
  BY <1>2 DEF issue_write, State
<1>4. Len(bytes) \in Nat /\ Len(bytes) >= 1 /\ X \in SUBSET Int
  BY <1>1, CacheGeometry DEF Span
<1> HIDE DEF a, bytes
<1>5. q \in Memory /\ \A b \in RamAddrs \ X : q[b] = st.ram[b]
  BY <1>1, <1>2, <1>4, Written
<1>6. Sound(c, q, D)
  <2>1. CASE direct
    <3>1. Sound(st.dcache, q, st.stale.d \cup X)
      <4> HIDE DEF X, q
      <4> QED BY <1>5, BypassSound DEF StateInv
    <3> QED BY <2>1, <3>1
  <2>2. CASE ~direct
    <3>1. Sound(write(st.dcache, a, bytes), q, st.stale.d \ X)
      BY <1>1, <1>2, WriteSound DEF StateInv
    <3> QED BY <2>2, <3>1
  <2> QED BY <2>1, <2>2
<1>7. Sound(st.icache, q, I)
  <2> HIDE DEF X, q
  <2> QED BY <1>5, BypassSound DEF StateInv
<1>8. u \in Seq(Checkpoint) /\ Len(u) = Len(st.undo) /\ Reversible(q, u) /\ (~rollback => u = << >>)
  <2>1. CASE rollback
    <3>1. Reversible(st.ram, st.undo)
      BY DEF StateInv
    <3> QED BY <1>1, <1>2, <2>1, <3>1, RecordReversible
  <2>2. CASE ~rollback
    BY <2>2, <1>2, EmptySeq DEF StateInv, Reversible
  <2> QED BY <2>1, <2>2
<1>9. D \in SUBSET Int /\ I \in SUBSET Int
  BY <1>2, <1>4
<1> HIDE DEF X, q, c, u, D, I, e
<1>10. /\ e \in State /\ e.ram = q /\ e.dcache = c /\ e.icache = st.icache /\ e.undo = u
       /\ e.stale.d = D /\ e.stale.i = I
  BY <1>2, <1>3, <1>5, <1>6, <1>8, <1>9 DEF State, Sound
<1> QED BY <1>6, <1>7, <1>8, <1>10 DEF StateInv, e

\* The state between the stores of an instruction.
Stored(st, ws, direct) ==
  CHOOSE g : g = [k \in 0 .. Len(ws) |-> IF k = 0 THEN st ELSE issue_write(g[k - 1], ws[k][1], ws[k][2], direct)]

LEMMA StoredDef ==
  ASSUME NEW st, NEW ws \in Seq(Writes), NEW direct \in BOOLEAN
  PROVE  /\ issue_writes(st, ws, direct) = Stored(st, ws, direct)[Len(ws)] /\ Len(ws) \in Nat
         /\ Stored(st, ws, direct)[0] = st
         /\ \A k \in 1 .. Len(ws) : Stored(st, ws, direct)[k] = issue_write(Stored(st, ws, direct)[k - 1], ws[k][1], ws[k][2], direct)
<1> DEFINE F(m, k) == issue_write(m, ws[k][1], ws[k][2], direct)
           T       == {n \in Nat : \E g : g = [k \in 0 .. n |-> IF k = 0 THEN st ELSE F(g[k - 1], k)]}
<1>1. Len(ws) \in Nat
  BY LenProperties
<1>2. Stored(st, ws, direct) = CHOOSE g : g = [k \in 0 .. Len(ws) |-> IF k = 0 THEN st ELSE F(g[k - 1], k)]
  BY DEF Stored
<1>3. issue_writes(st, ws, direct) = Stored(st, ws, direct)[Len(ws)]
  BY DEF issue_writes, Stored
<1> HIDE DEF F
<1>4. 0 \in T
  <2> DEFINE h == [k \in 0 .. 0 |-> st]
  <2>1. h = [k \in 0 .. 0 |-> IF k = 0 THEN st ELSE F(h[k - 1], k)]
    OBVIOUS
  <2> QED BY <2>1
<1>5. ASSUME NEW n \in Nat, n \in T PROVE n + 1 \in T
  <2>1. PICK g : g = [k \in 0 .. n |-> IF k = 0 THEN st ELSE F(g[k - 1], k)]
    BY <1>5
  <2> DEFINE h == [k \in 0 .. n + 1 |-> IF k = 0 THEN st ELSE F(g[k - 1], k)]
  <2>2. \A k \in 0 .. n : h[k] = g[k]
    <3> TAKE k \in 0 .. n
    <3>1. k \in 0 .. n + 1
      OBVIOUS
    <3>2. h[k] = IF k = 0 THEN st ELSE F(g[k - 1], k)
      BY <3>1
    <3>3. g[k] = IF k = 0 THEN st ELSE F(g[k - 1], k)
      BY <2>1
    <3> QED BY <3>2, <3>3
  <2>3. \A k \in 0 .. n + 1 : k # 0 => h[k - 1] = g[k - 1]
    <3> HIDE DEF h
    <3> TAKE k \in 0 .. n + 1
    <3>1. k # 0 => k - 1 \in 0 .. n
      OBVIOUS
    <3> QED BY <2>2, <3>1
  <2>4. h = [k \in 0 .. n + 1 |-> IF k = 0 THEN st ELSE F(h[k - 1], k)]
    BY <2>3
  <2> HIDE DEF h
  <2>5. \E e : e = [k \in 0 .. n + 1 |-> IF k = 0 THEN st ELSE F(e[k - 1], k)]
    BY <2>4
  <2>6. n + 1 \in Nat
    OBVIOUS
  <2> QED BY <2>5, <2>6
<1>6. Len(ws) \in T
  <2> HIDE DEF T
  <2>1. Nat \subseteq T
    BY <1>4, <1>5, SetInduction
  <2> QED BY <1>1, <2>1
<1> DEFINE b == Stored(st, ws, direct)
<1>7. b = [k \in 0 .. Len(ws) |-> IF k = 0 THEN st ELSE F(b[k - 1], k)]
  BY <1>2, <1>6
<1> HIDE DEF b
<1>8. b[0] = st
  BY <1>1, <1>7
<1>9. \A k \in 1 .. Len(ws) : b[k] = F(b[k - 1], k)
  <2> TAKE k \in 1 .. Len(ws)
  <2>1. k \in 0 .. Len(ws) /\ k # 0
    BY <1>1
  <2> QED BY <1>7, <2>1
<1> QED BY <1>1, <1>3, <1>8, <1>9 DEF b, F

LEMMA WritesStep ==
  ASSUME NEW st, StateInv(st), NEW ws \in Seq(Writes), NEW direct \in BOOLEAN, rollback \in BOOLEAN
  PROVE  StateInv(issue_writes(st, ws, direct)) /\ Len(issue_writes(st, ws, direct).undo) = Len(st.undo)
<1> DEFINE f == Stored(st, ws, direct)
           T == {n \in Nat : n <= Len(ws) => StateInv(f[n]) /\ Len(f[n].undo) = Len(st.undo)}
<1>1. Len(ws) \in Nat /\ issue_writes(st, ws, direct) = f[Len(ws)] /\ f[0] = st
  BY StoredDef
<1>2. \A k \in 1 .. Len(ws) : f[k] = issue_write(f[k - 1], ws[k][1], ws[k][2], direct)
  BY StoredDef
<1> HIDE DEF f
<1>3. 0 \in T
  BY <1>1
<1>4. ASSUME NEW n \in Nat, n \in T PROVE n + 1 \in T
  <2> SUFFICES ASSUME n + 1 <= Len(ws)
               PROVE  StateInv(f[n + 1]) /\ Len(f[n + 1].undo) = Len(st.undo)
    OBVIOUS
  <2> DEFINE w == ws[n + 1]
             e == f[n]
  <2>1. n + 1 \in 1 .. Len(ws) /\ (n + 1) - 1 = n /\ n <= Len(ws)
    BY <1>1
  <2>2. w \in Writes
    BY <2>1, ElementOfSeq
  <2>3. f[n + 1] = issue_write(e, w[1], w[2], direct) /\ StateInv(e) /\ Len(e.undo) = Len(st.undo)
    BY <1>2, <1>4, <2>1
  <2> HIDE DEF w, e
  <2>4. StateInv(issue_write(e, w[1], w[2], direct)) /\ Len(issue_write(e, w[1], w[2], direct).undo) = Len(e.undo)
    BY <2>2, <2>3, WriteStep
  <2> QED BY <2>3, <2>4
<1>5. Len(ws) \in T
  <2> HIDE DEF T
  <2>1. Nat \subseteq T
    BY <1>3, <1>4, SetInduction
  <2> QED BY <1>1, <2>1
<1> QED BY <1>1, <1>5

-----------------------------------------------------------------------------

PathInv == StateInv(Now) /\ hp \in BOOLEAN /\ rollback \in BOOLEAN

\* The state that an instruction starts from: its checkpoint is pushed.
LEMMA BeginState ==
  ASSUME PathInv
  PROVE  StateInv(Begin) /\ (rollback => Len(Begin.undo) >= Len(undo))
<1> DEFINE u == IF rollback THEN push_undo_state(undo, ram) ELSE undo
<1>1. /\ Now \in State /\ Now.ram = ram /\ Now.dcache = dcache /\ Now.icache = icache /\ Now.undo = undo
      /\ Now.stale = stale /\ ram \in Memory /\ undo \in Seq(Checkpoint) /\ Len(undo) <= UndoMax /\ Reversible(ram, undo)
      /\ (~rollback => undo = << >>)
  BY DEF PathInv, StateInv, Now, State
<1>2. /\ u \in Seq(Checkpoint) /\ Len(u) <= UndoMax /\ Reversible(ram, u) /\ (~rollback => u = << >>)
      /\ (rollback => Len(u) >= Len(undo))
  BY <1>1, PushReversible
<1>3. Begin = [Now EXCEPT !.undo = u]
  BY <1>1 DEF Begin
<1> HIDE DEF u
<1>4. /\ Begin \in State /\ Begin.ram = ram /\ Begin.dcache = dcache /\ Begin.icache = icache /\ Begin.undo = u
      /\ Begin.stale = stale
  BY <1>1, <1>2, <1>3 DEF State
<1> QED BY <1>1, <1>2, <1>4 DEF StateInv, PathInv

\* The rest of an instruction after its fetch: its load and its stores, past the data cache or not.
LEMMA ExecutesStep ==
  ASSUME PathInv, NEW ins \in Program, NEW direct \in BOOLEAN,
         NEW fetched, StateInv(fetched), fetched.undo = Begin.undo, Executes(fetched, ins, direct)
  PROVE  PathInv' /\ (rollback => Len(undo') >= Len(undo))
<1> DEFINE loaded == IF ins.n = 0 THEN fetched ELSE issue_read(fetched, ins.addr, ins.n, direct)
           end    == issue_writes(loaded, ins.writes, direct)
<1>4. /\ ram' = end.ram /\ dcache' = end.dcache /\ icache' = end.icache /\ undo' = end.undo /\ stale' = end.stale
      /\ hp' = hp /\ rollback' = rollback
  BY DEF Executes
<1>7. ins.pc \in RamAddrs /\ ins.addr \in RamAddrs /\ ins.n \in Nat
  BY ProgramAssumption
<1>8. ins.writes \in Seq(Writes)
  <2> DEFINE ws == ins.writes
  <2>1. ws \in Seq(Nat \X Seq(ByteValues)) /\ \A k \in DOMAIN ws : IsWrite(ws[k])
    BY ProgramAssumption
  <2> HIDE DEF ws
  <2>2. Len(ws) \in Nat /\ DOMAIN ws = 1 .. Len(ws) /\ ws \in [1 .. Len(ws) -> Nat \X Seq(ByteValues)]
    BY <2>1, LenProperties
  <2>3. \A k \in 1 .. Len(ws) : ws[k] \in Writes
    BY <2>1, <2>2 DEF Writes
  <2>4. ws \in Seq(Writes)
    BY <2>2, <2>3
  <2> QED BY <2>4 DEF ws
<1>9. StateInv(loaded) /\ loaded.undo = Begin.undo
  BY <1>7, ReadStep
<1> HIDE DEF loaded
<1>10. StateInv(end) /\ Len(end.undo) = Len(Begin.undo)
  BY <1>8, <1>9, WritesStep DEF PathInv
<1> HIDE DEF end
<1>11. Now' = end
  <2>1. end \in State
    BY <1>10 DEF StateInv
  <2>2. end = [ram |-> end.ram, dcache |-> end.dcache, icache |-> end.icache, undo |-> end.undo, stale |-> end.stale]
    BY <2>1 DEF State
  <2> QED BY <1>4, <2>2 DEF Now
<1>12. StateInv(Now)'
  BY <1>4, <1>10, <1>11 DEF StateInv
<1> QED BY <1>4, <1>10, <1>12, BeginState DEF PathInv

\* An instruction, in the stages of either kind of machine.
LEMMA RunStep ==
  ASSUME PathInv, NEW ins \in Program, run_cycle(ins) \/ run_cycle_baremetal(ins)
  PROVE  PathInv' /\ (rollback => Len(undo') >= Len(undo)) /\ rollback' = rollback
<1>1. ins.pc \in RamAddrs /\ ins.vector \in BOOLEAN /\ hp \in BOOLEAN
  BY ProgramAssumption DEF PathInv
<1> DEFINE f == fetch_read_instruction_word(Begin, ins.pc)
           g == run_fetch_stage_baremetal(Begin, ins.pc)
           m == hp \/ ~ins.vector
<1>2. StateInv(f) /\ f.undo = Begin.undo
  BY <1>1, BeginState, FetchStep
<1>3. StateInv(g) /\ g.undo = Begin.undo
  BY <1>2, BeginState DEF run_fetch_stage_baremetal
<1>4. m \in BOOLEAN
  BY <1>1
<1>5. CASE run_cycle(ins)
  <2>1. Executes(f, ins, hp)
    BY <1>5 DEF run_cycle
  <2> HIDE DEF f
  <2>2. rollback' = rollback
    BY <2>1 DEF Executes
  <2> QED BY <1>1, <1>2, <2>1, <2>2, ExecutesStep
<1>6. CASE run_cycle_baremetal(ins)
  <2>1. Executes(g, ins, m)
    BY <1>6 DEF run_cycle_baremetal
  <2> HIDE DEF g, m
  <2>2. rollback' = rollback
    BY <2>1 DEF Executes
  <2> QED BY <1>3, <1>4, <2>1, <2>2, ExecutesStep
<1> QED BY <1>5, <1>6

\* Where the instruction wrote nothing, nothing is taken back.
LEMMA UndoneElsewhere ==
  ASSUME NEW r \in Memory, NEW ws \in Seq(Writes), NEW b \in RamAddrs \ Rewritten(ws)
  PROVE  Undone(r, ws)[b] = r[b]
<1> DEFINE f == TakenBack(r, ws)
           T == {n \in Nat : n <= Len(ws) => f[n] \in Memory /\ f[n][b] = r[b]}
<1>1. Len(ws) \in Nat /\ Undone(r, ws) = f[Len(ws)] /\ f[0] = r /\ DOMAIN ws = 1 .. Len(ws)
  BY TakenBackDef, LenProperties
<1>2. \A k \in 1 .. Len(ws) : f[k] = ram_write_fast(f[k - 1], ws[(Len(ws) + 1) - k][1], ws[(Len(ws) + 1) - k][2])
  BY TakenBackDef
<1> HIDE DEF f
<1>3. 0 \in T
  BY <1>1
<1>4. ASSUME NEW n \in Nat, n \in T PROVE n + 1 \in T
  <2> SUFFICES ASSUME n + 1 <= Len(ws) PROVE f[n + 1] \in Memory /\ f[n + 1][b] = r[b]
    OBVIOUS
  <2> DEFINE i == (Len(ws) + 1) - (n + 1)
             w == ws[i]
             m == f[n]
             X == Span(w[1], Len(w[2]))
  <2>1. n + 1 \in 1 .. Len(ws) /\ (n + 1) - 1 = n /\ i \in 1 .. Len(ws)
    BY <1>1
  <2>2. f[n + 1] = ram_write_fast(m, w[1], w[2]) /\ m \in Memory /\ m[b] = r[b]
    BY <1>1, <1>2, <1>4, <2>1
  <2>3. w \in Writes
    BY <2>1, ElementOfSeq
  <2>4. b \notin X
    BY <1>1, <2>1 DEF Rewritten
  <2> HIDE DEF w, m
  <2>5. w[1] \in Nat /\ w[2] \in Seq(ByteValues) /\ Len(w[2]) >= 1
    BY <2>3, CacheGeometry DEF Writes, IsWrite
  <2>6. /\ ram_write_fast(m, w[1], w[2]) \in Memory
        /\ \A e \in RamAddrs \ X : ram_write_fast(m, w[1], w[2])[e] = m[e]
    BY <2>2, <2>5, Written
  <2> HIDE DEF X
  <2> QED BY <2>2, <2>4, <2>6
<1>5. Len(ws) \in T
  <2> HIDE DEF T
  <2>1. Nat \subseteq T
    BY <1>3, <1>4, SetInduction
  <2> QED BY <1>1, <2>1
<1> QED BY <1>1, <1>5

LEMMA FlushStep ==
  ASSUME PathInv, flush_caches \/ write_satp
  PROVE  PathInv' /\ undo' = undo
<1>1. /\ dcache' = flush(dcache) /\ icache' = flush(icache) /\ stale' = [d |-> {}, i |-> {}]
      /\ ram' = ram /\ undo' = undo /\ hp' = hp /\ rollback' = rollback
  BY DEF flush_caches, write_satp
<1>2. dcache \in Contents /\ icache \in Contents
  BY DEF PathInv, StateInv, Now, State
<1>3. Sound(dcache', ram, {}) /\ Sound(icache', ram, {})
  BY <1>1, <1>2, EmptySound
<1>4. StateInv(Now)'
  BY <1>1, <1>3 DEF PathInv, StateInv, Now, State, Sound
<1> QED BY <1>1, <1>4 DEF PathInv

LEMMA SubmitStep ==
  ASSUME PathInv, NEW fast \in BOOLEAN, NEW tracking \in BOOLEAN, submit(fast, tracking)
  PROVE  PathInv' /\ (rollback' => undo' = undo)
<1>1. << >> \in Seq(Checkpoint) /\ Len(<< >>) = 0
  BY EmptySeq
<1>2. StateInv(Now)'
  <2>1. CASE tracking
    BY <2>1 DEF submit, PathInv, StateInv, Now, State
  <2>2. CASE ~tracking
    <3>1. undo' = << >> /\ ram' = ram /\ dcache' = dcache /\ icache' = icache /\ stale' = stale
      BY <2>2 DEF submit
    <3>2. Reversible(ram, << >>) /\ 0 <= UndoMax
      BY <1>1, PathAssumption DEF Reversible
    <3>3. Now' \in State
      BY <1>1, <3>1 DEF PathInv, StateInv, Now, State
    <3> QED BY <1>1, <3>1, <3>2, <3>3 DEF PathInv, StateInv, Now
  <2> QED BY <2>1, <2>2
<1> QED BY <1>2 DEF PathInv, submit

LEMMA MemoryWriteStep ==
  ASSUME PathInv, NEW w \in Behind, memory_write(w[1], w[2])
  PROVE  PathInv' /\ Len(undo') = Len(undo)
<1> DEFINE X == Span(w[1], Len(w[2]))
           q == ram_write_fast(ram, w[1], w[2])
<1>1. IsWrite(w)
  BY ProgramAssumption
<1>2. w[1] \in Nat /\ w[2] \in Seq(ByteValues) /\ Len(w[2]) \in Nat /\ Len(w[2]) >= 1 /\ X \in SUBSET Int
  BY <1>1, CacheGeometry DEF IsWrite, Span
<1>3. /\ ram \in Memory /\ dcache \in Contents /\ icache \in Contents /\ undo \in Seq(Checkpoint)
      /\ stale \in [d : SUBSET Int, i : SUBSET Int]
      /\ Sound(dcache, ram, stale.d) /\ Sound(icache, ram, stale.i)
      /\ Len(undo) <= UndoMax /\ Reversible(ram, undo) /\ (~rollback => undo = << >>)
  BY DEF PathInv, StateInv, Now, State
<1>4. /\ ram' = q /\ undo' = [k \in DOMAIN undo |-> [undo[k] EXCEPT !.others = @ \cup X]]
      /\ stale' = [d |-> stale.d \cup X, i |-> stale.i \cup X]
      /\ dcache' = dcache /\ icache' = icache /\ hp' = hp /\ rollback' = rollback
  BY DEF memory_write
<1>5. q \in Memory /\ \A b \in RamAddrs \ X : q[b] = ram[b]
  BY <1>2, <1>3, Written
<1> HIDE DEF X, q
<1>6. Sound(dcache, q, stale.d \cup X) /\ Sound(icache, q, stale.i \cup X)
  <2>1. Sound(dcache, q, stale.d \cup X)
    BY <1>3, <1>5, BypassSound
  <2>2. Sound(icache, q, stale.i \cup X)
    BY <1>3, <1>5, BypassSound
  <2> QED BY <2>1, <2>2
<1>7. DOMAIN undo = 1 .. Len(undo) /\ Len(undo) \in Nat /\ \A k \in 1 .. Len(undo) : undo[k] \in Checkpoint
  BY <1>3, LenProperties, ElementOfSeq
<1>8. \A k \in 1 .. Len(undo) : /\ undo'[k] \in Checkpoint /\ undo'[k].writes = undo[k].writes
                                /\ undo'[k].before = undo[k].before /\ undo'[k].others = undo[k].others \cup X
  BY <1>2, <1>4, <1>7 DEF Checkpoint
<1>9. undo' \in Seq(Checkpoint) /\ Len(undo') = Len(undo)
  <2>1. undo' \in [1 .. Len(undo) -> Checkpoint]
    BY <1>4, <1>7, <1>8
  <2> QED BY <1>7, <2>1
<1>10. ASSUME NEW k \in 1 .. Len(undo), NEW b \in RamAddrs \ undo'[k].others
       PROVE  Undone(AfterIt(q, undo', k), undo'[k].writes)[b] = undo'[k].before[b]
  <2>1. b \in RamAddrs \ undo[k].others /\ b \notin X
    BY <1>8, <1>10
  <2>2. Undone(AfterIt(ram, undo, k), undo[k].writes)[b] = undo[k].before[b]
    BY <1>3, <2>1 DEF Reversible
  <2>3. CASE k = 1
    <3>1. undo[1].writes \in Seq(Writes) /\ q[b] = ram[b]
      BY <1>5, <1>7, <2>1, <2>3 DEF Checkpoint
    <3>2. Undone(q, undo[1].writes)[b] = Undone(ram, undo[1].writes)[b]
      BY <1>3, <1>5, <2>1, <3>1, UndoneLocal
    <3> QED BY <1>8, <2>2, <2>3, <3>2 DEF AfterIt
  <2>4. CASE k # 1
    <3>1. k - 1 \in 1 .. Len(undo)
      BY <1>7, <2>4
    <3>2. AfterIt(q, undo', k) = AfterIt(ram, undo, k)
      BY <1>8, <2>4, <3>1 DEF AfterIt
    <3> QED BY <1>8, <2>2, <3>2
  <2> QED BY <2>3, <2>4
<1>11. ASSUME NEW k \in 1 .. Len(undo), k > 1
       PROVE  undo'[k - 1].others \subseteq undo'[k].others
  <2>1. k - 1 \in 1 .. Len(undo) /\ undo[k - 1].others \subseteq undo[k].others
    BY <1>3, <1>7, <1>11 DEF Reversible
  <2> QED BY <1>8, <2>1
<1>12. Reversible(q, undo')
  BY <1>9, <1>10, <1>11 DEF Reversible
<1>13. undo = << >> => undo' = << >>
  BY <1>9, EmptySeq
<1>14. Now' \in State
  BY <1>2, <1>3, <1>4, <1>5, <1>9 DEF Now, State
<1>15. StateInv(Now)'
  BY <1>3, <1>4, <1>6, <1>9, <1>12, <1>13, <1>14 DEF StateInv, Now
<1> QED BY <1>4, <1>9, <1>15 DEF PathInv

LEMMA BackStep ==
  ASSUME PathInv, perform_backstep
  PROVE  PathInv' /\ \A b \in RamAddrs : ram'[b] = Head(undo).before[b] \/ b \in Head(undo).others
<1> DEFINE e == undo[1]
           w == undo[1].writes
           X == Rewritten(w)
           q == Undone(ram, w)
           v == Tail(undo)
<1>1. /\ ram \in Memory /\ dcache \in Contents /\ icache \in Contents /\ undo \in Seq(Checkpoint)
      /\ stale \in [d : SUBSET Int, i : SUBSET Int]
      /\ Sound(dcache, ram, stale.d) /\ Sound(icache, ram, stale.i)
      /\ Len(undo) <= UndoMax /\ Reversible(ram, undo) /\ (~rollback => undo = << >>)
  BY DEF PathInv, StateInv, Now, State
<1>2. undo # << >> /\ Len(undo) \in Nat /\ Len(undo) >= 1 /\ e \in Checkpoint /\ w \in Seq(Writes) /\ Head(undo) = e
  <2>1. undo # << >>
    BY DEF perform_backstep
  <2>2. Len(undo) \in Nat /\ Len(undo) >= 1
    BY <1>1, <2>1, EmptySeq
  <2>3. e \in Checkpoint
    BY <1>1, <2>2, ElementOfSeq
  <2> QED BY <1>1, <2>1, <2>2, <2>3 DEF Checkpoint
<1>3. /\ ram' = q /\ undo' = v /\ stale' = [d |-> stale.d \cup X, i |-> stale.i \cup X]
      /\ dcache' = dcache /\ icache' = icache /\ hp' = hp /\ rollback' = rollback
  BY <1>2 DEF perform_backstep
<1>4. X \in SUBSET Int
  <2>1. DOMAIN w = 1 .. Len(w) /\ \A i \in 1 .. Len(w) : w[i] \in Writes
    BY <1>2, LenProperties, ElementOfSeq
  <2> HIDE DEF w
  <2>2. \A i \in DOMAIN w : Span(w[i][1], Len(w[i][2])) \subseteq Int
    BY <2>1 DEF Span
  <2> QED BY <2>2 DEF Rewritten
<1> HIDE DEF w
<1>5. q \in Memory /\ \A b \in RamAddrs \ X : q[b] = ram[b]
  <2>1. \A b \in RamAddrs \ X : q[b] = ram[b]
    BY <1>1, <1>2, UndoneElsewhere
  <2>2. q \in Memory
    <3>1. CASE RamAddrs = {}
      <4>1. ram = q
        <5>1. ~(\E i \in 1 .. Len(w) : TRUE)
          <6> SUFFICES ASSUME NEW i \in 1 .. Len(w) PROVE FALSE
            OBVIOUS
          <6>1. w[i] \in Writes
            BY <1>2, ElementOfSeq
          <6>2. w[i][1] \in Nat /\ Len(w[i][2]) >= 1 /\ w[i][1] + Len(w[i][2]) <= RamBytes /\ Len(w[i][2]) \in Int
            BY <6>1, CacheGeometry DEF Writes, IsWrite
          <6>3. w[i][1] \in RamAddrs
            BY <6>2, PathAssumption DEF RamAddrs
          <6> QED BY <3>1, <6>3
        <5>2. Len(w) = 0
          BY <1>2, <5>1, LenProperties
        <5> QED BY <1>2, <5>2, TakenBackDef, ZenonT(60)
      <4> QED BY <1>1, <4>1
    <3>2. CASE RamAddrs # {}
      <4>1. PICK b \in RamAddrs : TRUE
        BY <3>2
      <4> QED BY <1>1, <1>2, <4>1, UndoneLocal
    <3> QED BY <3>1, <3>2
  <2> QED BY <2>1, <2>2
<1>6. \A b \in RamAddrs : q[b] = e.before[b] \/ b \in e.others
  <2>1. 1 \in 1 .. Len(undo) /\ AfterIt(ram, undo, 1) = ram
    BY <1>2 DEF AfterIt
  <2> QED BY <1>1, <2>1 DEF Reversible, w
<1> HIDE DEF X, q, v
<1>7. Sound(dcache, q, stale.d \cup X) /\ Sound(icache, q, stale.i \cup X)
  <2>1. Sound(dcache, q, stale.d \cup X)
    BY <1>1, <1>5, BypassSound
  <2>2. Sound(icache, q, stale.i \cup X)
    BY <1>1, <1>5, BypassSound
  <2> QED BY <2>1, <2>2
<1>8. v \in Seq(Checkpoint) /\ Len(v) = Len(undo) - 1 /\ \A k \in 1 .. Len(v) : v[k] = undo[k + 1]
  BY <1>1, <1>2, HeadTailProperties DEF v
<1>9. ASSUME NEW k \in 1 .. Len(v), NEW b \in RamAddrs \ v[k].others
      PROVE  Undone(AfterIt(q, v, k), v[k].writes)[b] = v[k].before[b]
  <2>1. k + 1 \in 1 .. Len(undo) /\ k + 1 > 1 /\ (k + 1) - 1 = k /\ k \in 1 .. Len(undo) /\ v[k] = undo[k + 1]
    BY <1>2, <1>8
  <2>2. Undone(undo[k].before, undo[k + 1].writes)[b] = undo[k + 1].before[b]
    <3>1. AfterIt(ram, undo, k + 1) = undo[k].before
      BY <2>1 DEF AfterIt
    <3> QED BY <1>1, <1>9, <2>1, <3>1 DEF Reversible
  <2>3. CASE k = 1
    <3>1. e.others \subseteq undo[k + 1].others
      BY <1>1, <2>1, <2>3 DEF Reversible
    <3>2. q[b] = e.before[b]
      BY <1>6, <1>9, <2>1, <3>1
    <3>3. undo[k + 1].writes \in Seq(Writes) /\ e.before \in Memory
      <4>1. undo[k + 1] \in Checkpoint
        BY <1>1, <2>1, ElementOfSeq
      <4> QED BY <1>2, <4>1 DEF Checkpoint
    <3>4. Undone(q, undo[k + 1].writes)[b] = Undone(e.before, undo[k + 1].writes)[b]
      BY <1>5, <1>9, <3>2, <3>3, UndoneLocal
    <3> QED BY <2>1, <2>2, <2>3, <3>4 DEF AfterIt
  <2>4. CASE k # 1
    <3>1. k - 1 \in 1 .. Len(v) /\ (k - 1) + 1 = k
      BY <1>2, <1>8, <2>4
    <3>2. AfterIt(q, v, k) = undo[k].before
      BY <1>8, <2>4, <3>1 DEF AfterIt
    <3> QED BY <2>1, <2>2, <3>2
  <2> QED BY <2>3, <2>4
<1>10. ASSUME NEW k \in 1 .. Len(v), k > 1
       PROVE  v[k - 1].others \subseteq v[k].others
  <2>1. /\ k - 1 \in 1 .. Len(v) /\ (k - 1) + 1 = k /\ k + 1 \in 1 .. Len(undo) /\ k + 1 > 1 /\ (k + 1) - 1 = k
    BY <1>2, <1>8, <1>10
  <2>2. undo[k].others \subseteq undo[k + 1].others
    BY <1>1, <2>1 DEF Reversible
  <2> QED BY <1>8, <2>1, <2>2
<1>11. Reversible(q, v)
  BY <1>9, <1>10 DEF Reversible
<1>12. Len(v) <= UndoMax /\ rollback
  BY <1>1, <1>2, <1>8, PathAssumption
<1>13. Now' \in State
  BY <1>1, <1>3, <1>4, <1>5, <1>8 DEF Now, State
<1>14. StateInv(Now)'
  BY <1>3, <1>7, <1>11, <1>12, <1>13 DEF StateInv, Now
<1> QED BY <1>2, <1>3, <1>6, <1>14 DEF PathInv

LEMMA PathStep == PathInv /\ [PathNext]_pathVars => PathInv'
<1> SUFFICES ASSUME PathInv, [PathNext]_pathVars PROVE PathInv'
  OBVIOUS
<1>1. CASE UNCHANGED pathVars
  BY <1>1 DEF pathVars, PathInv, StateInv, Now
<1>2. CASE PathNext
  BY <1>2, RunStep, FlushStep, MemoryWriteStep, SubmitStep, BackStep DEF PathNext
<1> QED BY <1>1, <1>2

LEMMA PathBegins == PathInit => PathInv
<1> SUFFICES ASSUME PathInit PROVE PathInv
  OBVIOUS
<1>1. ram \in Memory
  BY DEF PathInit, Memory, ByteValues
<1>2. EmptyCache \in Contents /\ Sound(EmptyCache, ram, {})
  <2>1. EmptyLine \in Line
    BY DEF EmptyLine, Line, NoTag, NoData, ByteValues
  <2>2. EmptyCache \in Contents
    BY <2>1 DEF EmptyCache, EmptyLines, Contents, Sets, Ways
  <2> QED BY <2>2, EmptySound
<1>3. << >> \in Seq(Checkpoint) /\ Len(<< >>) = 0
  BY EmptySeq
<1>4. Reversible(ram, << >>) /\ 0 <= UndoMax
  BY <1>3, PathAssumption DEF Reversible
<1>5. Now \in State
  BY <1>1, <1>2, <1>3 DEF PathInit, Now, State
<1> QED BY <1>2, <1>3, <1>4, <1>5 DEF PathInv, StateInv, PathInit, Now

LEMMA PathKept == PathSpec => []PathInv
<1> QED BY PathBegins, PathStep, PTL DEF PathSpec

\* For every geometry, program and sequence of mode changes, on both kinds of machine: a byte of a
\* cache that differs from memory was written by someone who bypasses that cache since its line
\* came in (for the data cache also a scalar store of run_memory_stage_baremetal); DCache::write
\* keeps up with every store of issue_write outside the fast mode, those that cross lines included.
THEOREM CachesFollow == PathSpec => []OnlyBypassStale
<1>1. PathInv => OnlyBypassStale
  <2> SUFFICES ASSUME PathInv PROVE OnlyBypassStale
    OBVIOUS
  <2>1. AllFresh(dcache, ram, stale.d) /\ AllFresh(icache, ram, stale.i)
    BY DEF PathInv, StateInv, Now, Sound
  <2> QED BY <2>1 DEF OnlyBypassStale, LinesOf, LineAt, AllFresh, Fresh, Sets, Ways
<1> QED BY <1>1, PathKept, PTL

\* However many instructions are taken back, each step back (CPU::perform_backstep) leaves every
\* byte as it was before its instruction, apart from what others wrote since.
THEOREM BackstepsRestore == PathSpec => BackstepRestores
<1> DEFINE Restored == rollback' /\ undo # << >> /\ undo' = Tail(undo)
                         => \A b \in RamAddrs : ram'[b] = Head(undo).before[b] \/ b \in Head(undo).others
<1>1. PathInv /\ [PathNext]_pathVars => [Restored]_pathVars
  <2> SUFFICES ASSUME PathInv, PathNext, rollback', undo # << >>, undo' = Tail(undo)
               PROVE  \A b \in RamAddrs : ram'[b] = Head(undo).before[b] \/ b \in Head(undo).others
    BY DEF pathVars
  <2> DEFINE m == Len(undo)
             n == Len(undo')
  <2>1. m \in Nat /\ n = m - 1
    <3>1. undo \in Seq(Checkpoint)
      BY DEF PathInv, StateInv, Now, State
    <3>2. Len(undo) \in Nat /\ Len(Tail(undo)) = Len(undo) - 1
      BY <3>1, LenProperties, HeadTailProperties
    <3> QED BY <3>2
  <2>2. ASSUME NEW ins \in Program, run_cycle(ins) \/ run_cycle_baremetal(ins) PROVE FALSE
    <3>1. rollback
      BY <2>2, RunStep
    <3>2. n >= m
      BY <2>2, <3>1, RunStep
    <3> HIDE DEF m, n
    <3> QED BY <2>1, <3>2
  <2>3. ASSUME flush_caches \/ write_satp PROVE FALSE
    <3>1. n = m
      BY <2>3, FlushStep
    <3> HIDE DEF m, n
    <3> QED BY <2>1, <3>1
  <2>4. ASSUME NEW w \in Behind, memory_write(w[1], w[2]) PROVE FALSE
    <3>1. n = m
      BY <2>4, MemoryWriteStep
    <3> HIDE DEF m, n
    <3> QED BY <2>1, <3>1
  <2>5. ASSUME NEW fast \in BOOLEAN, NEW tracking \in BOOLEAN, submit(fast, tracking) PROVE FALSE
    <3>1. n = m
      BY <2>5, SubmitStep
    <3> HIDE DEF m, n
    <3> QED BY <2>1, <3>1
  <2>6. perform_backstep
    BY <2>2, <2>3, <2>4, <2>5 DEF PathNext
  <2> QED BY <2>6, BackStep
<1> QED BY <1>1, PathKept, PTL DEF PathSpec, BackstepRestores

-----------------------------------------------------------------------------
(* LR and SC: the two fields of the hart say exactly what the history says.  *)

\* A reservation is held exactly after an LR that nothing has ended, and is for its word.
Held ==
  /\ reserved \in BOOLEAN
  /\ reserved => link = load_res
  /\ ~reserved => link = NoLink

ResInv == Held /\ ScExact

\* An SC succeeds on the word that it is linked to, and on no other.
LEMMA ScStep ==
  ASSUME ResInv, NEW a \in Words, NEW g \in BOOLEAN, NEW f \in BOOLEAN, StoreConditional(a, g, f)
  PROVE  ResInv'
<1> DEFINE ok == a = load_res /\ reserved
           r == IF ok /\ g THEN 0 ELSE 1
           b == r = 0 /\ reserved
           l == link = a
<1>1. l <=> ok
  BY WordsAssumption DEF ResInv, Held, NoLink
<1>2. reserved' = FALSE /\ link' = NoLink
  BY DEF StoreConditional, memory_store_phase, raise_exception
<1>3. (r = 0 <=> ok /\ g) /\ (b <=> r = 0)
  OBVIOUS
<1>4. sc' = sc \/ sc' = [rd |-> r, wrote |-> b, linked |-> l, agreed |-> g]
  BY DEF StoreConditional
<1> HIDE DEF ok, r, b, l
<1>5. ScExact'
  <2>1. CASE sc' = sc
    BY <2>1 DEF ResInv, ScExact
  <2>2. CASE sc' = [rd |-> r, wrote |-> b, linked |-> l, agreed |-> g]
    <3>1. sc'.rd = r /\ sc'.wrote = b /\ sc'.linked = l /\ sc'.agreed = g
      BY <2>2, Zenon
    <3> QED BY <1>1, <1>3, <3>1, Zenon DEF ScExact
  <2> QED BY <1>4, <2>1, <2>2
<1> QED BY <1>2, <1>5 DEF ResInv, Held

\* For every set of words and every sequence of LR, SC, scalar and vector stores, traps and returns:
\* an SC reports success exactly when it stored, and stores exactly on the word of an LR after which
\* the hart made no scalar store, no AMO, no other SC and no trap (memory_load_phase,
\* memory_store_phase, execute_core, raise_exception), unless the lockstep reference fails it; a
\* vector store in between does not matter (run_memory_stage).
THEOREM ScsExact == ResSpec => []ScExact
<1>1. ResInit => ResInv
  <2> SUFFICES ASSUME ResInit PROVE ResInv
    OBVIOUS
  <2>1. sc.rd = 1 /\ ~sc.wrote /\ ~sc.linked
    BY Zenon DEF ResInit, NoSc
  <2>2. ScExact
    BY <2>1 DEF ScExact
  <2> QED BY <2>2 DEF ResInit, ResInv, Held
<1>2. ResInv /\ [ResNext]_resVars => ResInv'
  <2> SUFFICES ASSUME ResInv, [ResNext]_resVars PROVE ResInv'
    OBVIOUS
  <2>1. ASSUME NEW a \in Words, NEW f \in BOOLEAN, LoadReserved(a, f) PROVE ResInv'
    BY <2>1 DEF LoadReserved, raise_exception, ResInv, Held, ScExact
  <2>2. ASSUME NEW a \in Words, NEW f \in BOOLEAN, PlainStore(a, f) PROVE ResInv'
    BY <2>2 DEF PlainStore, memory_store_phase, raise_exception, ResInv, Held, ScExact
  <2>6. ASSUME NEW f \in BOOLEAN, VectorStore(f) PROVE ResInv'
    BY <2>6 DEF VectorStore, raise_exception, ResInv, Held, ScExact
  <2>3. ASSUME NEW a \in Words, NEW g \in BOOLEAN, NEW f \in BOOLEAN, StoreConditional(a, g, f) PROVE ResInv'
    BY <2>3, ScStep
  <2>4. CASE TrapOrReturn
    BY <2>4 DEF TrapOrReturn, raise_exception, ResInv, Held, ScExact
  <2>5. CASE UNCHANGED resVars
    BY <2>5 DEF resVars, ResInv, Held, ScExact
  <2> QED BY <2>1, <2>2, <2>3, <2>4, <2>5, <2>6 DEF ResNext
<1>3. ResInv => ScExact
  BY DEF ResInv
<1> QED BY <1>1, <1>2, <1>3, PTL DEF ResSpec
=============================================================================
