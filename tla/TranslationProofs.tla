------------------------- MODULE TranslationProofs -------------------------
(***************************************************************************)
(* Coherence of the TLBs, the soft TLBs and the decode cache with the page *)
(* tables, for every memory layout, TLB geometry, set of address spaces    *)
(* and number of soft TLB generations.                                     *)
(***************************************************************************)
EXTENDS Translation, TLAPS

\* A cached translation that may be used in the current state.
Good(a, k, f) ==
    /\ satp # Bare /\ k.asid = Asid[satp]
    /\ k.page \in dirty \/ Granted(a, k, f)

\* The entries of table t of access a may be used.
TableGood(a, t) ==
    \A s \in Sets, w \in Ways : t[s].way[w] # None => Good(a, t[s].way[w].key, t[s].way[w].frame)

\* No entry of the soft TLBs is of a later generation.
SoftPast == \A a \in {"Read", "Write"}, i \in Indices : soft[a][i].epoch <= epoch

\* The decoded instruction d at pc is good for the privilege that fetched it, whatever
\* the current one is.
InstructionGood(pc, d) ==
    \A i \in DOMAIN d.frames :
        /\ i \in DOMAIN PagesOf[pc]
        /\ IF On(d.priv)
           THEN Good("Code", Key(PagesOf[pc][i], d.priv), d.frames[i])
           ELSE d.frames[i] = Identity[PagesOf[pc][i]]

DecodeGood == \A pc \in Pcs : decode[pc] # None => InstructionGood(pc, decode[pc])

CohInv == TrTypeOK /\ TlbCoherent /\ SoftCoherent /\ SoftPast /\ ReadYourWrites /\ DecodeGood

-----------------------------------------------------------------------------
(* Tables.                                                                 *)

\* An insertion replaces one entry by the new one.
LEMMA InsertTable ==
    ASSUME NEW t \in Table, NEW k \in Keys, NEW f \in Frames
    PROVE  /\ insert(t, k, f) \in Table
           /\ \A s \in Sets, w \in Ways :
                 insert(t, k, f)[s].way[w] \in {t[s].way[w], [key |-> k, frame |-> f]}
<1> DEFINE s == TlbSet[k.page]
           w == t[s].lru
<1>1. s \in Sets /\ w \in Ways /\ 1 - w \in Ways
  BY DEF Table, Keys, Sets, Ways
<1>2. [key |-> k, frame |-> f] \in Entry
  BY DEF Entry
<1> QED BY <1>1, <1>2 DEF insert, Table

\* A lookup moves the LRU bit and nothing else.
LEMMA LookupTable ==
    ASSUME NEW t \in Table, NEW k \in Keys
    PROVE  /\ lookup(t, k) \in Table
           /\ \A s \in Sets, w \in Ways : lookup(t, k)[s].way[w] = t[s].way[w]
<1> DEFINE s == TlbSet[k.page]
           h == CHOOSE w \in Hits(t, k) : TRUE
<1>1. s \in Sets
  BY DEF Keys, Sets
<1>2. CASE Hits(t, k) = {}
  BY <1>2 DEF lookup
<1>3. CASE Hits(t, k) # {}
  <2>1. h \in Hits(t, k)
    BY <1>3
  <2> HIDE DEF h
  <2>2. 1 - h \in Ways
    BY <2>1 DEF Hits, Ways
  <2>3. lookup(t, k) = [t EXCEPT ![s].lru = 1 - h]
    BY <1>3 DEF lookup, h
  <2> QED BY <1>1, <2>2, <2>3 DEF Table
<1> QED BY <1>2, <1>3

\* What a hit returns is an entry of the table.
LEMMA HitEntry ==
    ASSUME NEW t \in Table, NEW k \in Keys, Hits(t, k) # {}
    PROVE  /\ Frame(t, k) \in Frames
           /\ \E s \in Sets, w \in Ways : /\ t[s].way[w] # None
                                          /\ t[s].way[w].key = k /\ t[s].way[w].frame = Frame(t, k)
<1> DEFINE s == TlbSet[k.page]
           h == CHOOSE w \in Hits(t, k) : TRUE
<1>1. s \in Sets
  BY DEF Keys, Sets
<1>2. h \in Hits(t, k)
  OBVIOUS
<1>3. h \in Ways /\ t[s].way[h] # None /\ t[s].way[h].key = k
  BY <1>2 DEF Hits
<1>4. Frame(t, k) = t[s].way[h].frame
  BY DEF Frame
<1> HIDE DEF h
<1> QED BY <1>1, <1>3, <1>4 DEF Table, Entry

\* The flushed TLBs have their type and no entry.
LEMMA EmptyTable ==
    /\ EmptyTlb \in [Accesses -> Table]
    /\ \A a \in Accesses, s \in Sets, w \in Ways : EmptyTlb[a][s].way[w] = None
BY DEF EmptyTlb, Table, Ways

\* A selective flush drops entries, among them all that match.
LEMMA SelectiveFlush ==
    ASSUME TrTypeOK, NEW page, NEW asid
    PROVE  /\ flush_selective(page, asid) \in [Accesses -> Table]
           /\ \A a \in Accesses, s \in Sets, w \in Ways :
                 LET e == flush_selective(page, asid)[a][s].way[w] IN
                 e # None => /\ e = tlb[a][s].way[w]
                             /\ ~((page = None \/ e.key.page = page) /\ (asid = None \/ e.key.asid = asid))
<1>1. CASE page = None /\ asid = None
  BY <1>1, EmptyTable DEF flush_selective
<1>2. CASE ~(page = None /\ asid = None)
  <2> DEFINE K(k) == ~((page = None \/ k.page = page) /\ (asid = None \/ k.asid = asid))
  <2>1. flush_selective(page, asid) =
          [a \in Accesses |-> [s \in Sets |-> [tlb[a][s] EXCEPT !.way =
             [w \in Ways |-> IF @[w] # None /\ K(@[w].key) THEN @[w] ELSE None]]]]
    BY <1>2 DEF flush_selective, Keep
  <2> HIDE DEF K
  <2>2. ASSUME NEW a \in Accesses, NEW s \in Sets
        PROVE  /\ flush_selective(page, asid)[a][s] \in [way : [Ways -> Entry \cup {None}], lru : Ways]
               /\ \A w \in Ways : LET e == flush_selective(page, asid)[a][s].way[w] IN
                    e # None => e = tlb[a][s].way[w] /\ K(e.key)
    <3>1. tlb[a][s] \in [way : [Ways -> Entry \cup {None}], lru : Ways]
      BY DEF TrTypeOK, Table
    <3> DEFINE W == [w \in Ways |-> IF tlb[a][s].way[w] # None /\ K(tlb[a][s].way[w].key)
                                     THEN tlb[a][s].way[w] ELSE None]
    <3>2. flush_selective(page, asid)[a][s] = [tlb[a][s] EXCEPT !.way = W]
      BY <2>1
    <3>3. W \in [Ways -> Entry \cup {None}]
      BY <3>1
    <3>4. \A w \in Ways : W[w] # None => W[w] = tlb[a][s].way[w] /\ K(W[w].key)
      OBVIOUS
    <3> HIDE DEF W
    <3>5. flush_selective(page, asid)[a][s].way = W
      BY <3>1, <3>2
    <3> QED BY <3>1, <3>2, <3>3, <3>4, <3>5
  <2>3. flush_selective(page, asid) \in [Accesses -> Table]
    BY <2>1, <2>2 DEF Table
  <2> QED BY <2>2, <2>3 DEF K
<1> QED BY <1>1, <1>2

-----------------------------------------------------------------------------
(* What keeps a good translation good.                                     *)

\* Recording A and D changes nothing that a translation rests on.
LEMMA AccessBitsKeep ==
    ASSUME NEW q \in Pte, NEW a \in Accesses, NEW b, NEW p, validate_pte_permissions(q, a, p)
    PROVE  /\ update_pte_access_bits(q, b) \in Pte
           /\ update_pte_access_bits(q, b).frame = q.frame
           /\ q.bits \subseteq update_pte_access_bits(q, b).bits
           /\ validate_pte_permissions(update_pte_access_bits(q, b), a, p)
<1> DEFINE r == update_pte_access_bits(q, b)
           D == IF b = "Write" THEN {"D"} ELSE {}
<1>1. q.bits \cup {"A"} \cup D \subseteq PteBits
  BY DEF Pte, PteBits
<1>2. r = [q EXCEPT !.bits = q.bits \cup {"A"} \cup D] /\ D \subseteq {"D"}
  BY DEF update_pte_access_bits
<1> HIDE DEF D, r
<1>3. r \in Pte /\ r.frame = q.frame /\ r.bits = q.bits \cup {"A"} \cup D
  BY <1>1, <1>2 DEF Pte
<1>4. \A x \in {"V", "R", "W", "X", "U"} : x \in r.bits <=> x \in q.bits
  BY <1>2, <1>3
<1>5. validate_pte_permissions(r, a, p)
  BY <1>4 DEF validate_pte_permissions, Accesses
<1> QED BY <1>3, <1>5 DEF r

\* SUM and MXR are the bits of mstatus that a permission depends on.
SameStatus == ("SUM" \in mstatus' <=> "SUM" \in mstatus) /\ ("MXR" \in mstatus' <=> "MXR" \in mstatus)

\* The leaf PTE of the page keeps frame and bits but for A and D, which only appear.
Grows(q, r) == r = q \/ \E b : r = update_pte_access_bits(q, b)

\* A translation stays good while satp, SUM and MXR do and its PTE only grows, or
\* its page becomes dirty.
LEMMA GoodKept ==
    ASSUME TrTypeOK, UNCHANGED satp, SameStatus, dirty \subseteq dirty',
           satp # Bare => \A l \in Slots : Grows(pt[satp][l], pt'[satp][l])
                                         \/ \A g \in Pages : LeafOf[g] = l => g \in dirty',
           NEW a \in Accesses, NEW k \in Keys, NEW f, Good(a, k, f)
    PROVE  Good(a, k, f)'
<1>1. CASE k.page \in dirty'
  BY <1>1 DEF Good
<1>2. CASE k.page \notin dirty'
  <2> DEFINE l == LeafOf[k.page]
             q == pt[satp][l]
             r == pt'[satp][l]
  <2>1. l \in Slots /\ k.page \in Pages /\ satp \in Spaces
    BY DEF Slots, Keys, Good, TrTypeOK
  <2>2. Granted(a, k, f) /\ q \in Pte
    BY <1>2, <2>1 DEF Good, TrTypeOK
  <2>3. Grows(q, r)
    BY <1>2, <2>1 DEF Good
  <2>4. q.frame = f /\ validate_pte_permissions(q, a, k.priv)
        /\ "A" \in q.bits /\ (a = "Write" => "D" \in q.bits)
    BY <2>2 DEF Granted, page_walk
  <2>5. r.frame = f /\ validate_pte_permissions(r, a, k.priv)
        /\ "A" \in r.bits /\ (a = "Write" => "D" \in r.bits)
    <3> HIDE DEF q, r
    <3> QED BY <2>2, <2>3, <2>4, AccessBitsKeep DEF Grows
  <2>6. \A x, p : validate_pte_permissions(x, a, p) => validate_pte_permissions(x, a, p)'
    BY DEF validate_pte_permissions, SameStatus, Accesses
  <2>7. Granted(a, k, f)'
    <3>1. page_walk(k.page)' = r
      BY DEF page_walk
    <3>2. validate_pte_permissions(page_walk(k.page), a, k.priv)'
      <4>1. validate_pte_permissions(page_walk(k.page), a, k.priv)' <=>
              \E x : x = page_walk(k.page)' /\ validate_pte_permissions(x, a, k.priv)'
        OBVIOUS
      <4> QED BY <2>5, <2>6, <3>1, <4>1
    <3> QED BY <2>5, <3>1, <3>2 DEF Granted
  <2> QED BY <2>7 DEF Good
<1> QED BY <1>1, <1>2

\* A walk that is granted leaves a good translation behind.
LEMMA WalkGood ==
    ASSUME TrTypeOK, satp # Bare, UNCHANGED <<satp, mstatus>>,
           NEW a \in Accesses, NEW page \in Pages, NEW k, k.page = page, k.asid = Asid[satp],
           validate_pte_permissions(page_walk(page), a, k.priv),
           pt'[satp][LeafOf[page]] = update_pte_access_bits(page_walk(page), a),
           NEW f, f = page_walk(page).frame
    PROVE  Good(a, k, f)' /\ f \in Frames
<1> DEFINE q == page_walk(page)
           r == update_pte_access_bits(q, a)
<1>1. q \in Pte
  <2>1. satp \in Spaces /\ LeafOf[page] \in Slots
    BY DEF TrTypeOK, Slots
  <2> QED BY <2>1 DEF page_walk, TrTypeOK
<1>2. r.frame = q.frame /\ validate_pte_permissions(r, a, k.priv)
  BY <1>1, AccessBitsKeep
<1>3. "A" \in r.bits /\ (a = "Write" => "D" \in r.bits)
  BY <1>1 DEF update_pte_access_bits, Pte
<1>4. page_walk(page)' = r
  BY DEF page_walk
<1>5. \A x : validate_pte_permissions(x, a, k.priv) => validate_pte_permissions(x, a, k.priv)'
  BY DEF validate_pte_permissions, Accesses
<1>6. validate_pte_permissions(page_walk(page), a, k.priv)'
  <2>1. validate_pte_permissions(page_walk(page), a, k.priv)' <=>
          \E x : x = page_walk(page)' /\ validate_pte_permissions(x, a, k.priv)'
    OBVIOUS
  <2> QED BY <1>2, <1>4, <1>5, <2>1
<1>7. Granted(a, k, f)'
  BY <1>2, <1>3, <1>4, <1>6 DEF Granted
<1> QED BY <1>1, <1>7 DEF Good, Pte

-----------------------------------------------------------------------------
(* What a step does to the three caches.                                   *)

\* The step invalidates no translation.
KeepsGood == \A a \in Accesses, k \in Keys, f \in Frames : Good(a, k, f) => Good(a, k, f)'

\* Every TLB entry is good, and still is after such a step.
LEMMA TlbCarries ==
    ASSUME CohInv, KeepsGood, NEW a \in Accesses, NEW s \in Sets, NEW w \in Ways,
           tlb[a][s].way[w] # None
    PROVE  Good(a, tlb[a][s].way[w].key, tlb[a][s].way[w].frame)
        /\ \A k, f : (k = tlb[a][s].way[w].key /\ f = tlb[a][s].way[w].frame) => Good(a, k, f)'
<1>1. tlb[a][s].way[w].key \in Keys /\ tlb[a][s].way[w].frame \in Frames
  BY DEF CohInv, TrTypeOK, Table, Entry
<1>2. Good(a, tlb[a][s].way[w].key, tlb[a][s].way[w].frame)
  BY DEF CohInv, TlbCoherent, Good
<1> QED BY <1>1, <1>2 DEF KeepsGood

\* The TLBs stay coherent if every entry is an old one or good.
LEMMA TlbStep ==
    ASSUME CohInv, KeepsGood,
           \A a \in Accesses, s \in Sets, w \in Ways :
              LET e == tlb'[a][s].way[w] IN
              e # None => e = tlb[a][s].way[w] \/ \E k, f : e = [key |-> k, frame |-> f] /\ Good(a, k, f)'
    PROVE  TlbCoherent'
<1> SUFFICES ASSUME NEW a \in Accesses, NEW s \in Sets, NEW w \in Ways, NEW e,
                    e = tlb'[a][s].way[w], e # None
             PROVE  \A k, f : (k = e.key /\ f = e.frame) => Good(a, k, f)'
  BY DEF TlbCoherent, Good
<1>1. CASE e = tlb[a][s].way[w]
  BY <1>1, TlbCarries
<1>2. ASSUME NEW k, NEW f, e = [key |-> k, frame |-> f], Good(a, k, f)'
      PROVE  \A k1, f1 : (k1 = e.key /\ f1 = e.frame) => Good(a, k1, f1)'
  BY <1>2
<1> QED BY <1>1, <1>2

\* Unchanged soft TLBs stay coherent.
LEMMA SoftStutter ==
    ASSUME CohInv, KeepsGood, UNCHANGED <<soft, epoch>>
    PROVE  SoftCoherent' /\ SoftPast' /\ ReadYourWrites'
<1>1. SoftCoherent'
  <2> SUFFICES ASSUME NEW a \in {"Read", "Write"}, NEW i \in Indices, NEW k, NEW f,
                      k = soft[a][i].tag, f = soft[a][i].frame, k # None, soft[a][i].epoch = epoch
               PROVE  Good(a, k, f)' /\ f \in Dram
    BY DEF SoftCoherent, Good
  <2>1. Good(a, k, f) /\ f \in Dram
    BY DEF CohInv, SoftCoherent, Good
  <2>2. k \in Keys /\ f \in Frames /\ a \in Accesses
    BY <2>1, TranslationAssumption DEF CohInv, TrTypeOK, SoftTable, Accesses
  <2> QED BY <2>1, <2>2 DEF KeepsGood
<1>2. SoftPast' /\ ReadYourWrites'
  BY DEF CohInv, SoftPast, ReadYourWrites
<1> QED BY <1>1, <1>2

\* A fill with a good translation keeps the soft TLBs coherent and in agreement.
LEMMA SoftFill ==
    ASSUME CohInv, KeepsGood, UNCHANGED epoch, NEW a \in {"Read", "Write"},
           NEW k \in Keys, NEW f \in Frames, Good(a, k, f)', soft_fill(a, k, f)
    PROVE  /\ soft' \in [{"Read", "Write"} -> SoftTable]
           /\ SoftCoherent' /\ SoftPast' /\ ReadYourWrites'
<1>1. CASE UNCHANGED soft
  BY <1>1, SoftStutter DEF CohInv, TrTypeOK
<1>2. CASE HighPerf /\ f \in Dram
  <2> DEFINE i == SoftIndex[k.page]
             b == IF a = "Read" THEN "Write" ELSE "Read"
             new == [tag |-> k, epoch |-> epoch, frame |-> f]
             kept == IF soft[b][i].frame # f THEN NoSoft ELSE soft[b][i]
  <2>1. i \in Indices /\ b \in {"Read", "Write"} /\ b # a
    BY DEF Keys, Indices
  <2>2. soft' = [soft EXCEPT ![a][i] = new, ![b][i] = kept]
    BY <1>2, <2>1 DEF soft_fill
  <2>3. /\ new \in [tag : Keys \cup {None}, epoch : 0..EpochMax, frame : Frames \cup {None}]
        /\ kept \in [tag : Keys \cup {None}, epoch : 0..EpochMax, frame : Frames \cup {None}]
    BY <2>1, TranslationAssumption DEF CohInv, TrTypeOK, SoftTable, NoSoft
  <2>4. /\ new.tag = k /\ new.epoch = epoch /\ new.frame = f
        /\ kept = NoSoft \/ (kept = soft[b][i] /\ kept.frame = f)
    OBVIOUS
  <2> HIDE DEF i, b, new, kept
  <2>5. soft \in [{"Read", "Write"} -> SoftTable]
    BY DEF CohInv, TrTypeOK
  <2>6. soft' \in [{"Read", "Write"} -> SoftTable]
    BY <2>1, <2>2, <2>3, <2>5 DEF SoftTable
  <2>7. /\ soft'[a][i] = new /\ soft'[b][i] = kept
        /\ \A j \in Indices \ {i} : soft'[a][j] = soft[a][j] /\ soft'[b][j] = soft[b][j]
    BY <2>1, <2>2, <2>5 DEF SoftTable
  <2>8. \A c \in {"Read", "Write"} : c = a \/ c = b
    BY <2>1
  <2>9. SoftCoherent'
    <3> SUFFICES ASSUME NEW c \in {"Read", "Write"}, NEW j \in Indices, NEW k1, NEW f1,
                        k1 = soft'[c][j].tag, f1 = soft'[c][j].frame, k1 # None, soft'[c][j].epoch = epoch
                 PROVE  Good(c, k1, f1)' /\ f1 \in Dram
      BY DEF SoftCoherent, Good
    <3>1. CASE soft'[c][j] = soft[c][j]
      <4>1. Good(c, k1, f1) /\ f1 \in Dram
        BY <3>1 DEF CohInv, SoftCoherent, Good
      <4>2. k1 \in Keys /\ f1 \in Frames /\ c \in Accesses
        BY <3>1, <4>1, <2>5, TranslationAssumption DEF SoftTable, Accesses
      <4> QED BY <4>1, <4>2 DEF KeepsGood
    <3>2. CASE soft'[c][j] = new /\ c = a
      BY <3>2, <1>2, <2>4
    <3>3. CASE soft'[c][j] = NoSoft
      BY <3>3 DEF NoSoft
    <3> QED BY <3>1, <3>2, <3>3, <2>4, <2>7, <2>8
  <2>10. SoftPast'
    <3>1. epoch \in Nat /\ \A c \in {"Read", "Write"}, j \in Indices : soft[c][j].epoch <= epoch
      BY DEF CohInv, SoftPast, TrTypeOK
    <3>2. NoSoft.epoch <= epoch
      BY <3>1 DEF NoSoft
    <3> SUFFICES ASSUME NEW c \in {"Read", "Write"}, NEW j \in Indices
                 PROVE  soft'[c][j].epoch <= epoch
      BY DEF SoftPast
    <3> QED BY <3>1, <3>2, <2>1, <2>4, <2>7, <2>8
  <2>11. ReadYourWrites'
    <3> SUFFICES ASSUME NEW j \in Indices, soft'["Read"][j].tag # None,
                        soft'["Read"][j].tag = soft'["Write"][j].tag,
                        soft'["Read"][j].epoch = epoch, soft'["Write"][j].epoch = epoch
                 PROVE  soft'["Read"][j].frame = soft'["Write"][j].frame
      BY DEF ReadYourWrites
    <3>1. CASE j # i
      BY <3>1, <2>1, <2>7, <2>8 DEF CohInv, ReadYourWrites
    <3>2. CASE j = i
      <4>1. {a, b} = {"Read", "Write"}
        BY <2>1
      <4>2. kept.tag # None => kept.frame = new.frame
        BY <2>4 DEF NoSoft
      <4> QED BY <3>2, <4>1, <4>2, <2>1, <2>7
    <3> QED BY <3>1, <3>2
  <2> QED BY <2>6, <2>9, <2>10, <2>11
<1> QED BY <1>1, <1>2 DEF soft_fill

\* After a flush no entry of the soft TLBs can match.
LEMMA SoftFlush ==
    ASSUME CohInv, soft_tlb_flush
    PROVE  /\ soft' \in [{"Read", "Write"} -> SoftTable] /\ epoch' \in 1..EpochMax
           /\ SoftCoherent' /\ SoftPast' /\ ReadYourWrites'
<1>1. EpochMax \in Nat \ {0} /\ epoch \in 1..EpochMax /\ soft \in [{"Read", "Write"} -> SoftTable]
  BY TranslationAssumption DEF CohInv, TrTypeOK
<1>2. CASE epoch = EpochMax
  <2>1. epoch' = 1 /\ soft' = EmptySoft
    BY <1>2 DEF soft_tlb_flush
  <2>2. soft' \in [{"Read", "Write"} -> SoftTable]
    BY <1>1, <2>1 DEF EmptySoft, NoSoft, SoftTable
  <2>3. \A a \in {"Read", "Write"}, i \in Indices : soft'[a][i].tag = None /\ soft'[a][i].epoch <= epoch'
    BY <2>1 DEF EmptySoft, NoSoft
  <2>4. SoftCoherent' /\ ReadYourWrites'
    BY <2>3 DEF SoftCoherent, ReadYourWrites
  <2>5. SoftPast'
    BY <2>3 DEF SoftPast
  <2> QED BY <1>1, <2>1, <2>2, <2>4, <2>5
<1>3. CASE epoch # EpochMax
  <2>1. epoch' = epoch + 1 /\ soft' = soft
    BY <1>3 DEF soft_tlb_flush
  <2>2. epoch' \in 1..EpochMax
    BY <1>1, <1>3, <2>1
  <2>3. \A a \in {"Read", "Write"}, i \in Indices : soft'[a][i].epoch <= epoch' /\ soft'[a][i].epoch # epoch'
    <3> SUFFICES ASSUME NEW a \in {"Read", "Write"}, NEW i \in Indices
                 PROVE  soft[a][i].epoch <= epoch + 1 /\ soft[a][i].epoch # epoch + 1
      BY <2>1
    <3>1. soft[a][i].epoch \in Nat /\ epoch \in Nat
      BY <1>1 DEF SoftTable
    <3>2. soft[a][i].epoch <= epoch
      BY DEF CohInv, SoftPast
    <3> QED BY <3>1, <3>2
  <2>4. SoftCoherent' /\ ReadYourWrites'
    BY <2>3 DEF SoftCoherent, ReadYourWrites
  <2>5. SoftPast'
    BY <2>3 DEF SoftPast
  <2> QED BY <1>1, <2>1, <2>2, <2>4, <2>5
<1> QED BY <1>2, <1>3

\* An empty decode cache serves nothing.
LEMMA DecodeEmpty ==
    ASSUME decode' = EmptyDecode
    PROVE  decode' \in [Pcs -> [priv : Privs, frames : Seq(Frames)] \cup {None}] /\ DecodeGood'
BY DEF EmptyDecode, DecodeGood

\* The key of a translated access has its type.
LEMMA KeyType ==
    ASSUME TrTypeOK, NEW page \in Pages, NEW p \in Privs, On(p)
    PROVE  Key(page, p) \in Keys /\ satp \in Spaces
BY DEF TrTypeOK, On, Key, Keys, Privs

\* A good decoded instruction stays good.
LEMMA DecodeStep ==
    ASSUME CohInv, KeepsGood, UNCHANGED satp,
           NEW pc \in Pcs, NEW d, InstructionGood(pc, d), d \in [priv : Privs, frames : Seq(Frames)]
    PROVE  InstructionGood(pc, d)'
<1> SUFFICES ASSUME NEW i \in DOMAIN d.frames, On(d.priv), NEW k, k = Key(PagesOf[pc][i], d.priv)
             PROVE  Good("Code", k, d.frames[i])'
  BY DEF InstructionGood, On, Key
<1>1. i \in DOMAIN PagesOf[pc] /\ Good("Code", k, d.frames[i])
  BY DEF InstructionGood
<1>2. PagesOf[pc][i] \in Pages /\ d.frames[i] \in Frames
  BY <1>1, TranslationAssumption
<1>3. k \in Keys
  BY <1>2, KeyType DEF CohInv
<1> QED BY <1>1, <1>2, <1>3 DEF KeepsGood, Accesses

\* An unchanged decode cache stays good.
LEMMA DecodeStutter ==
    ASSUME CohInv, KeepsGood, UNCHANGED <<satp, decode>>
    PROVE  DecodeGood'
<1> SUFFICES ASSUME NEW pc \in Pcs, NEW d, d = decode[pc], d # None
             PROVE  InstructionGood(pc, d)'
  BY DEF DecodeGood
<1> QED BY DecodeStep DEF CohInv, DecodeGood, TrTypeOK

-----------------------------------------------------------------------------
(* One step, action by action.                                             *)

\* The premises of GoodKept, for every translation at once.
LEMMA KeptAll ==
    ASSUME TrTypeOK, UNCHANGED satp, SameStatus, dirty \subseteq dirty',
           satp # Bare => \A l \in Slots : Grows(pt[satp][l], pt'[satp][l])
                                         \/ \A g \in Pages : LeafOf[g] = l => g \in dirty'
    PROVE  KeepsGood
BY GoodKept DEF KeepsGood

\* A load or store that misses the soft TLB.
LEMMA DataStep ==
    ASSUME CohInv, NEW a \in {"Read", "Write"}, NEW page \in Pages, NEW p \in Privs, Data(a, page, p)
    PROVE  CohInv'
<1> DEFINE k == Key(page, p)
           t == tlb[a]
           pte == page_walk(page)
<1>1. On(p) /\ k \in Keys /\ satp \in Spaces /\ satp # Bare /\ LeafOf[page] \in Slots
  BY KeyType DEF Data, CohInv, On, Slots
<1>2. t \in Table /\ a \in Accesses /\ tlb \in [Accesses -> Table] /\ pt \in [Spaces -> [Slots -> Pte]]
  BY DEF CohInv, TrTypeOK, Accesses
<1>3. UNCHANGED <<satp, priv, mstatus, epoch, decode, dirty>>
  BY DEF Data, hartVars
<1>4. k.page = page /\ k.asid = Asid[satp] /\ k.priv = p
  BY DEF Key
<1>5. CASE /\ Hits(t, k) # {}
           /\ tlb' = [tlb EXCEPT ![a] = lookup(t, k)]
           /\ soft_fill(a, k, Frame(t, k))
           /\ UNCHANGED pt
  <2>1. KeepsGood
    BY <1>3, <1>5, KeptAll DEF CohInv, SameStatus, Grows
  <2> HIDE DEF k, t
  <2>2. lookup(t, k) \in Table /\ \A s \in Sets, w \in Ways : lookup(t, k)[s].way[w] = t[s].way[w]
    BY <1>1, <1>2, LookupTable
  <2>3. PICK s \in Sets, w \in Ways : /\ t[s].way[w] # None
                                      /\ t[s].way[w].key = k /\ t[s].way[w].frame = Frame(t, k)
    BY <1>1, <1>2, <1>5, HitEntry
  <2>4. ASSUME NEW k1, NEW f1, k1 = k, f1 = Frame(t, k)
        PROVE  Good(a, k1, f1)' /\ f1 \in Frames
    BY <1>1, <1>2, <1>5, <2>1, <2>3, <2>4, TlbCarries, HitEntry DEF t
  <2>5. soft' \in [{"Read", "Write"} -> SoftTable] /\ SoftCoherent' /\ SoftPast' /\ ReadYourWrites'
    <3>1. PICK k1, f1 : k1 = k /\ f1 = Frame(t, k)
      OBVIOUS
    <3> QED BY <1>1, <1>3, <1>5, <2>1, <2>4, <3>1, SoftFill
  <2>6. TlbCoherent'
    BY <1>2, <1>5, <2>1, <2>2, TlbStep DEF t
  <2>7. DecodeGood'
    BY <1>3, <2>1, DecodeStutter
  <2>8. TrTypeOK'
    BY <1>2, <1>3, <1>5, <2>2, <2>5 DEF CohInv, TrTypeOK
  <2> QED BY <2>5, <2>6, <2>7, <2>8 DEF CohInv
<1>6. CASE /\ Hits(t, k) = {}
           /\ validate_pte_permissions(pte, a, p)
           /\ pt' = [pt EXCEPT ![satp][LeafOf[page]] = update_pte_access_bits(pte, a)]
           /\ tlb' = [tlb EXCEPT ![a] = insert(t, k, pte.frame)]
           /\ soft_fill(a, k, pte.frame)
  <2>1. /\ \A l \in Slots : Grows(pt[satp][l], pt'[satp][l])
        /\ pt'[satp][LeafOf[page]] = update_pte_access_bits(pte, a)
    BY <1>1, <1>2, <1>6 DEF Grows, page_walk
  <2>2. KeepsGood
    BY <1>3, <2>1, KeptAll DEF CohInv, SameStatus
  <2>3. PICK k1, f1 : k1 = k /\ f1 = pte.frame
    OBVIOUS
  <2>4. Good(a, k1, f1)' /\ f1 \in Frames
    BY <1>1, <1>2, <1>3, <1>4, <1>6, <2>1, <2>3, WalkGood DEF CohInv
  <2>5. pte \in Pte /\ update_pte_access_bits(pte, a) \in Pte
    BY <1>1, <1>2, <1>6, AccessBitsKeep DEF page_walk
  <2> HIDE DEF k, t, pte
  <2>6. /\ insert(t, k, f1) \in Table
        /\ \A s \in Sets, w \in Ways :
              insert(t, k, f1)[s].way[w] \in {t[s].way[w], [key |-> k1, frame |-> f1]}
    BY <1>1, <1>2, <2>3, <2>4, InsertTable
  <2>7. soft' \in [{"Read", "Write"} -> SoftTable] /\ SoftCoherent' /\ SoftPast' /\ ReadYourWrites'
    BY <1>1, <1>3, <1>6, <2>2, <2>3, <2>4, SoftFill
  <2>8. TlbCoherent'
    BY <1>2, <1>6, <2>2, <2>3, <2>4, <2>6, TlbStep DEF t
  <2>9. DecodeGood'
    BY <1>3, <2>2, DecodeStutter
  <2>10. TrTypeOK'
    BY <1>1, <1>2, <1>3, <1>6, <2>3, <2>5, <2>6, <2>7 DEF CohInv, TrTypeOK
  <2> QED BY <2>7, <2>8, <2>9, <2>10 DEF CohInv
<1> QED BY <1>5, <1>6 DEF Data

\* A fetch without translation.
LEMMA FetchBareStep ==
    ASSUME CohInv, NEW pc \in Pcs, FetchBare(pc)
    PROVE  CohInv'
<1>1. UNCHANGED <<pt, satp, priv, mstatus, tlb, soft, epoch, dirty>> /\ ~On(priv)
  BY DEF FetchBare, hartVars
<1>2. KeepsGood
  BY <1>1, KeptAll DEF CohInv, SameStatus, Grows
<1>3. PICK n \in 1..Len(PagesOf[pc]) :
         decode' = [decode EXCEPT ![pc] = [priv |-> priv,
                      frames |-> [i \in 1..n |-> Identity[PagesOf[pc][i]]]]]
  BY DEF FetchBare
<1> DEFINE d == [priv |-> priv, frames |-> [i \in 1..n |-> Identity[PagesOf[pc][i]]]]
<1>4. PagesOf[pc] \in Seq(Pages) /\ Len(PagesOf[pc]) \in {1, 2} /\ n \in Nat
  BY TranslationAssumption
<1>5. \A i \in 1..n : i \in DOMAIN PagesOf[pc] /\ Identity[PagesOf[pc][i]] \in Frames
  BY <1>4, TranslationAssumption
<1>6. d.priv = priv /\ DOMAIN d.frames = 1..n /\ \A i \in 1..n : d.frames[i] = Identity[PagesOf[pc][i]]
  OBVIOUS
<1>7. d \in [priv : Privs, frames : Seq(Frames)]
  BY <1>4, <1>5 DEF CohInv, TrTypeOK
<1> HIDE DEF d
<1>8. decode' = [decode EXCEPT ![pc] = d]
  BY <1>3 DEF d
<1>9. DecodeGood'
  <2> SUFFICES ASSUME NEW c \in Pcs, NEW e, e = decode'[c], e # None
               PROVE  InstructionGood(c, e)'
    BY DEF DecodeGood
  <2>1. CASE c = pc
    <3>1. e = d
      BY <2>1, <1>8 DEF CohInv, TrTypeOK
    <3> QED BY <3>1, <2>1, <1>1, <1>5, <1>6 DEF InstructionGood, On
  <2>2. CASE c # pc
    BY <2>2, <1>1, <1>2, <1>8, DecodeStep DEF CohInv, TrTypeOK, DecodeGood
  <2> QED BY <2>1, <2>2
<1>10. TrTypeOK'
  BY <1>1, <1>7, <1>8 DEF CohInv, TrTypeOK
<1>11. TlbCoherent'
  BY <1>1, <1>2, TlbStep
<1> QED BY <1>1, <1>2, <1>9, <1>10, <1>11, SoftStutter DEF CohInv

\* Steps that drop everything and leave the page tables alone.
LEMMA FlushStep ==
    ASSUME CohInv, TLB_flush, UNCHANGED pt, satp' \in Spaces \cup {Bare}, priv' \in Privs,
           mstatus' \subseteq StatusBits, dirty' \subseteq Pages
    PROVE  CohInv'
<1>1. tlb' = EmptyTlb /\ decode' = EmptyDecode /\ soft_tlb_flush
  BY DEF TLB_flush
<1>2. TlbCoherent'
  BY <1>1, EmptyTable DEF TlbCoherent
<1>3. TrTypeOK'
  BY <1>1, EmptyTable, SoftFlush, DecodeEmpty DEF CohInv, TrTypeOK
<1> QED BY <1>1, <1>2, <1>3, SoftFlush, DecodeEmpty DEF CohInv

\* Steps that change only the privilege and MPRV.
LEMMA StutterStep ==
    ASSUME CohInv, UNCHANGED <<pt, satp, tlb, soft, epoch, decode, dirty>>, priv' \in Privs,
           mstatus' \subseteq StatusBits, SameStatus
    PROVE  CohInv'
<1>1. KeepsGood
  BY KeptAll DEF CohInv, Grows
<1>2. TlbCoherent'
  BY <1>1, TlbStep
<1>3. TrTypeOK'
  BY DEF CohInv, TrTypeOK
<1> QED BY <1>1, <1>2, <1>3, SoftStutter, DecodeStutter DEF CohInv

\* A store into a page table makes its pages dirty.
LEMMA WritePteStep ==
    ASSUME CohInv, NEW space \in Spaces, NEW slot \in Slots, NEW pte \in PteWrites[space],
           WritePte(space, slot, pte)
    PROVE  CohInv'
<1>1. UNCHANGED <<satp, priv, mstatus, tlb, soft, epoch, decode>>
  BY DEF WritePte, hartVars
<1>2. /\ pt' = [pt EXCEPT ![space][slot] = pte]
      /\ dirty' = IF space = satp THEN dirty \cup {g \in Pages : LeafOf[g] = slot} ELSE dirty
  BY DEF WritePte
<1>3. pt \in [Spaces -> [Slots -> Pte]] /\ pte \in Pte /\ satp \in Spaces \cup {Bare}
  BY TranslationAssumption DEF CohInv, TrTypeOK
<1>4. \A l \in Slots : satp # Bare => \/ pt'[satp][l] = pt[satp][l]
                                      \/ \A g \in Pages : LeafOf[g] = l => g \in dirty'
  BY <1>2, <1>3
<1>5. dirty \subseteq dirty' /\ (dirty \subseteq Pages => dirty' \subseteq Pages)
  BY <1>2
<1>6. KeepsGood
  BY <1>1, <1>4, <1>5, KeptAll DEF CohInv, SameStatus, Grows
<1>7. TlbCoherent'
  BY <1>1, <1>6, TlbStep
<1>8. TrTypeOK'
  BY <1>1, <1>2, <1>3, <1>5 DEF CohInv, TrTypeOK
<1> QED BY <1>1, <1>6, <1>7, <1>8, SoftStutter, DecodeStutter DEF CohInv

\* SFENCE.VMA makes pages clean only together with dropping their entries.
LEMMA SfenceStep ==
    ASSUME CohInv, NEW page \in Pages \cup {None}, NEW asid, SfenceVma(page, asid)
    PROVE  CohInv'
<1>1. /\ UNCHANGED <<pt, satp, priv, mstatus>>
      /\ tlb' = flush_selective(page, asid) /\ decode' = EmptyDecode /\ soft_tlb_flush
      /\ dirty' = IF satp # Bare /\ asid \notin {None, Asid[satp]} THEN dirty
                  ELSE IF page = None THEN {} ELSE dirty \ {page}
  BY DEF SfenceVma, hartVars
<1>2. TlbCoherent'
  <2> SUFFICES ASSUME NEW a \in Accesses, NEW s \in Sets, NEW w \in Ways, NEW e,
                      e = tlb'[a][s].way[w], e # None
               PROVE  \A k, f : (k = e.key /\ f = e.frame) => Good(a, k, f)'
    BY DEF TlbCoherent, Good
  <2>1. e = tlb[a][s].way[w] /\ ~((page = None \/ e.key.page = page) /\ (asid = None \/ e.key.asid = asid))
    BY <1>1, SelectiveFlush DEF CohInv
  <2>2. satp # Bare /\ e.key.asid = Asid[satp] /\ (e.key.page \in dirty \/ Granted(a, e.key, e.frame))
    BY <2>1 DEF CohInv, TlbCoherent
  <2>3. e.key.page \in dirty => e.key.page \in dirty'
    BY <1>1, <2>1, <2>2
  <2>4. \A k, f : Granted(a, k, f) => Granted(a, k, f)'
    BY <1>1, ZenonT(60) DEF Granted, validate_pte_permissions, page_walk
  <2> QED BY <1>1, <2>2, <2>3, <2>4 DEF Good
<1>3. TrTypeOK'
  BY <1>1, SelectiveFlush, SoftFlush, DecodeEmpty DEF CohInv, TrTypeOK
<1> QED BY <1>1, <1>2, <1>3, SoftFlush, DecodeEmpty DEF CohInv

\* A fetch of an instruction that has one or two pages.  T(t) says of a table that its
\* entries are old ones or ones that a walk of this step made.
LEMMA FetchStep ==
    ASSUME CohInv, NEW pc \in Pcs, Fetch(pc)
    PROVE  CohInv'
<1> DEFINE pages == PagesOf[pc]
           K(i) == Key(pages[i], priv)
           t0 == tlb["Code"]
           t1 == lookup(t0, K(1))
           t2 == IF Len(pages) = 2 THEN lookup(t1, K(2)) ELSE t1
           hit(i) == Hits(t0, K(i)) # {}
           pte(i) == page_walk(pages[i])
           ok(i) == hit(i) \/ validate_pte_permissions(pte(i), "Code", priv)
           frame(i) == IF hit(i) THEN Frame(t0, K(i)) ELSE pte(i).frame
           walk(t, i) == IF hit(i) THEN t ELSE insert(t, K(i), pte(i).frame)
           walked(n) == {LeafOf[pages[i]] : i \in {j \in 1..n : ~hit(j)}}
<1>1. UNCHANGED <<satp, priv, mstatus, soft, epoch, dirty>> /\ On(priv)
  BY DEF Fetch, hartVars
<1>2. PICK n \in 1..Len(pages) :
        LET done == IF ~ok(1) THEN 0 ELSE IF n = 2 /\ ok(2) THEN 2 ELSE 1
        IN  /\ tlb' = [tlb EXCEPT !["Code"] =
                  IF done = 0 THEN t2
                  ELSE IF done = 1 THEN walk(t2, 1) ELSE walk(walk(t2, 1), 2)]
            /\ pt' = [pt EXCEPT ![satp] = [s \in Slots |->
                  IF s \in walked(done) THEN update_pte_access_bits(@[s], "Code") ELSE @[s]]]
            /\ decode' = IF done = n /\ HighPerf
                         THEN [decode EXCEPT ![pc] = [priv |-> priv, frames |-> [i \in 1..n |-> frame(i)]]]
                         ELSE decode
  BY DEF Fetch
<1> DEFINE done == IF ~ok(1) THEN 0 ELSE IF n = 2 /\ ok(2) THEN 2 ELSE 1
<1>3. pages \in Seq(Pages) /\ Len(pages) \in {1, 2} /\ n \in {1, 2} /\ n <= Len(pages)
  <2>1. pages \in Seq(Pages) /\ Len(pages) \in {1, 2}
    BY TranslationAssumption
  <2>2. n \in 1..Len(pages)
    OBVIOUS
  <2>3. \A m \in {1, 2} : \A l \in 1..m : l \in {1, 2} /\ l <= m
    OBVIOUS
  <2> HIDE DEF pages
  <2> QED BY <2>1, <2>2, <2>3
<1>4. satp \in Spaces /\ satp # Bare /\ priv \in {"U", "S"}
  BY <1>1 DEF CohInv, TrTypeOK, On, Privs
<1>5. \A i \in 1..Len(pages) : /\ pages[i] \in Pages /\ LeafOf[pages[i]] \in Slots
                               /\ K(i) \in Keys /\ K(i).page = pages[i]
                               /\ K(i).asid = Asid[satp] /\ K(i).priv = priv
  BY <1>3, <1>4 DEF Slots, Key, Keys
<1>6. /\ done \in 0..n
      /\ \A i \in 1..done : i \in 1..Len(pages) /\ ok(i)
  BY <1>3
<1>7. /\ t0 \in Table /\ tlb \in [Accesses -> Table] /\ pt \in [Spaces -> [Slots -> Pte]]
      /\ "Code" \in Accesses
  BY DEF CohInv, TrTypeOK, Accesses
<1>8. \A i \in 1..Len(pages) : pte(i) \in Pte
  BY <1>4, <1>5, <1>7 DEF page_walk
<1>9. /\ \A l \in Slots : Grows(pt[satp][l], pt'[satp][l])
      /\ \A i \in 1..done : ~hit(i) => pt'[satp][LeafOf[pages[i]]] = update_pte_access_bits(pte(i), "Code")
      /\ pt' \in [Spaces -> [Slots -> Pte]]
  <2> HIDE DEF hit, done
  <2>1. /\ pt' = [pt EXCEPT ![satp] = [s \in Slots |->
              IF s \in walked(done) THEN update_pte_access_bits(pt[satp][s], "Code") ELSE pt[satp][s]]]
        /\ \A i \in 1..done : ~hit(i) => LeafOf[pages[i]] \in walked(done)
    BY <1>2 DEF done
  <2> HIDE DEF walked
  <2>2. \A l \in Slots : pt[satp][l] \in Pte /\ update_pte_access_bits(pt[satp][l], "Code") \in Pte
    <3>1. ASSUME NEW q \in Pte PROVE update_pte_access_bits(q, "Code") \in Pte
      BY DEF update_pte_access_bits, Pte, PteBits
    <3> QED BY <1>4, <1>7, <3>1
  <2>3. \A l \in Slots : pt'[satp][l] = IF l \in walked(done) THEN update_pte_access_bits(pt[satp][l], "Code")
                                                              ELSE pt[satp][l]
    BY <2>1, <1>4, <1>7
  <2>4. pt' \in [Spaces -> [Slots -> Pte]]
    BY <2>1, <2>2, <1>4, <1>7
  <2> QED BY <2>1, <2>3, <2>4, <1>5, <1>6 DEF Grows, page_walk
<1>10. KeepsGood
  BY <1>1, <1>9, KeptAll DEF CohInv, SameStatus
\* What a lookup or a walk of this step yields.
<1>11. \A i \in 1..done : \A k, f : (k = K(i) /\ f = frame(i)) => Good("Code", k, f)' /\ f \in Frames
  <2> SUFFICES ASSUME NEW i \in 1..done, NEW k, NEW f, k = K(i), f = frame(i)
               PROVE  Good("Code", k, f)' /\ f \in Frames
    OBVIOUS
  <2>1. i \in 1..Len(pages) /\ ok(i)
    BY <1>6
  <2> HIDE DEF done
  <2>2. CASE hit(i)
    <3>1. PICK s \in Sets, w \in Ways : /\ t0[s].way[w] # None /\ t0[s].way[w].key = k
                                        /\ t0[s].way[w].frame = f /\ f \in Frames
      BY <2>1, <2>2, <1>5, <1>7, HitEntry
    <3> QED BY <3>1, <1>7, <1>10, TlbCarries
  <2>3. CASE ~hit(i)
    BY <2>1, <2>3, <1>1, <1>4, <1>5, <1>7, <1>9, WalkGood, SMTT(60) DEF CohInv
  <2> QED BY <2>2, <2>3
<1> DEFINE New(e) == \E k, f : e = [key |-> k, frame |-> f] /\ Good("Code", k, f)'
           T(t) == t \in Table /\ \A s \in Sets, w \in Ways : t[s].way[w] = t0[s].way[w] \/ New(t[s].way[w])
<1>12. T(t0) /\ T(t1) /\ T(t2)
  <2>1. T(t0)
    BY <1>7
  <2>2. ASSUME NEW t, T(t), NEW k \in Keys PROVE T(lookup(t, k))
    BY <2>2, LookupTable
  <2> HIDE DEF T
  <2> QED BY <2>1, <2>2, <1>3, <1>5
<1>13. ASSUME NEW t, T(t), NEW i \in 1..done PROVE T(walk(t, i))
  <2>1. CASE hit(i)
    BY <2>1, <1>13
  <2>2. CASE ~hit(i)
    <3>1. K(i) \in Keys /\ frame(i) = pte(i).frame /\ walk(t, i) = insert(t, K(i), frame(i))
      BY <2>2, <1>5, <1>6
    <3>2. frame(i) \in Frames /\ New([key |-> K(i), frame |-> frame(i)])
      BY <1>11
    <3> HIDE DEF K, frame, New, walk, t0, done
    <3> QED BY <3>1, <3>2, <1>13, InsertTable
  <2> QED BY <2>1, <2>2
<1>14. PICK t : T(t) /\ tlb' = [tlb EXCEPT !["Code"] = t]
  <2>1. done = 0 \/ (done = 1 /\ 1 \in 1..done) \/ (done = 2 /\ 1 \in 1..done /\ 2 \in 1..done)
    BY <1>3
  <2>2. tlb' = [tlb EXCEPT !["Code"] =
                  IF done = 0 THEN t2
                  ELSE IF done = 1 THEN walk(t2, 1) ELSE walk(walk(t2, 1), 2)]
    BY <1>2
  <2>3. (1 \in 1..done => T(walk(t2, 1))) /\ (1 \in 1..done /\ 2 \in 1..done => T(walk(walk(t2, 1), 2)))
    <3> HIDE DEF T, walk, done, t2
    <3> QED BY <1>12, <1>13
  <2> HIDE DEF T, walk, done, t2
  <2>4. CASE done = 0
    BY <2>2, <2>4, <1>12
  <2>5. CASE done = 1 /\ 1 \in 1..done
    <3>1. T(walk(t2, 1)) /\ tlb' = [tlb EXCEPT !["Code"] = walk(t2, 1)]
      BY <2>2, <2>3, <2>5
    <3> QED BY <3>1, Zenon
  <2>6. CASE done = 2 /\ 1 \in 1..done /\ 2 \in 1..done
    <3>1. T(walk(walk(t2, 1), 2)) /\ tlb' = [tlb EXCEPT !["Code"] = walk(walk(t2, 1), 2)]
      BY <2>2, <2>3, <2>6
    <3> QED BY <3>1, Zenon
  <2> QED BY <2>1, <2>4, <2>5, <2>6
<1>15. TlbCoherent'
  <2>1. \A a \in Accesses, s \in Sets, w \in Ways :
           tlb'[a][s].way[w] = tlb[a][s].way[w] \/ (a = "Code" /\ New(tlb'[a][s].way[w]))
    BY <1>7, <1>14
  <2> QED BY <2>1, <1>10, TlbStep
<1>16. decode' \in [Pcs -> [priv : Privs, frames : Seq(Frames)] \cup {None}] /\ DecodeGood'
  <2>1. CASE UNCHANGED decode
    BY <2>1, <1>1, <1>10, DecodeStutter DEF CohInv, TrTypeOK
  <2>2. CASE done = n /\ decode' = [decode EXCEPT ![pc] = [priv |-> priv, frames |-> [i \in 1..n |-> frame(i)]]]
    <3>0. PICK d : d = [priv |-> priv, frames |-> [i \in 1..n |-> frame(i)]]
      OBVIOUS
    <3>1. ASSUME NEW i \in 1..n
          PROVE  frame(i) \in Frames /\ i \in DOMAIN pages
      <4> HIDE DEF frame, K, done, pages
      <4>1. i \in 1..done /\ \E k, f : k = K(i) /\ f = frame(i)
        BY <2>2
      <4> QED BY <4>1, <1>3, <1>11
    <3> HIDE DEF frame, done
    <3>2. d.priv = priv /\ DOMAIN d.frames = 1..n /\ \A i \in 1..n : d.frames[i] = frame(i)
      BY <3>0
    <3>3. d \in [priv : Privs, frames : Seq(Frames)]
      <4>1. n \in Nat /\ priv \in Privs
        BY <1>3 DEF CohInv, TrTypeOK
      <4> QED BY <3>0, <3>1, <4>1
    <3>4. \A i \in 1..n : \A k, f : (k = K(i) /\ f = d.frames[i]) => Good("Code", k, f)'
      BY <2>2, <3>2, <1>11
    <3>5. decode' = [decode EXCEPT ![pc] = d]
      BY <2>2, <3>0
    <3>6. ASSUME NEW c \in Pcs, NEW e, e = decode'[c], e # None
          PROVE  InstructionGood(c, e)'
      <4>1. CASE c = pc
        <5>1. e = d
          BY <3>5, <3>6, <4>1 DEF CohInv, TrTypeOK
        <5>2. On(d.priv)'
          BY <1>1, <3>2 DEF On
        <5> SUFFICES ASSUME NEW i \in 1..n, NEW k, k = Key(pages[i], d.priv)'
                     PROVE  Good("Code", k, d.frames[i])'
          BY <3>1, <3>2, <4>1, <5>1, <5>2 DEF InstructionGood
        <5>3. k = K(i)
          BY <1>1, <3>2 DEF Key
        <5> QED BY <3>4, <5>3
      <4>2. CASE c # pc
        BY <4>2, <3>5, <3>6, <1>1, <1>10, DecodeStep DEF CohInv, TrTypeOK, DecodeGood
      <4> QED BY <4>1, <4>2
    <3> QED BY <3>3, <3>5, <3>6 DEF CohInv, TrTypeOK, DecodeGood
  <2> QED BY <2>1, <2>2, <1>2
<1>17. TrTypeOK'
  BY <1>1, <1>7, <1>9, <1>14, <1>16 DEF CohInv, TrTypeOK
<1> QED BY <1>1, <1>10, <1>15, <1>16, <1>17, SoftStutter DEF CohInv

\* FENCE.I, local or by SBI call.
LEMMA DecodeDropStep ==
    ASSUME CohInv, decode' = EmptyDecode, UNCHANGED <<pt, satp, priv, mstatus, tlb, soft, epoch, dirty>>
    PROVE  CohInv'
<1>1. KeepsGood
  BY KeptAll DEF CohInv, SameStatus, Grows
<1>2. TrTypeOK'
  BY DecodeEmpty DEF CohInv, TrTypeOK
<1> QED BY <1>1, <1>2, TlbStep, SoftStutter, DecodeEmpty DEF CohInv

-----------------------------------------------------------------------------
\* The invariant holds after reset.
LEMMA CohInit == TrInit => CohInv
<1> SUFFICES ASSUME TrInit PROVE CohInv
  OBVIOUS
<1>1. /\ satp = Bare /\ priv = "M" /\ mstatus = {} /\ tlb = EmptyTlb /\ soft = EmptySoft
      /\ epoch = 1 /\ decode = EmptyDecode /\ dirty = {}
      /\ pt = [s \in Spaces |-> [l \in Slots |-> CHOOSE pte \in Cleared(s) : TRUE]]
  BY DEF TrInit
<1>2. \A s \in Spaces : (CHOOSE pte \in Cleared(s) : TRUE) \in Pte
  <2> SUFFICES ASSUME NEW s \in Spaces PROVE (CHOOSE pte \in Cleared(s) : TRUE) \in Pte
    OBVIOUS
  <2>1. Cleared(s) # {} /\ Cleared(s) \subseteq Pte
    BY TranslationAssumption DEF Cleared
  <2>2. (CHOOSE pte \in Cleared(s) : TRUE) \in Cleared(s)
    BY <2>1
  <2> QED BY <2>1, <2>2
<1>3. pt \in [Spaces -> [Slots -> Pte]]
  BY <1>1, <1>2
<1>4. /\ soft \in [{"Read", "Write"} -> SoftTable] /\ epoch \in 1..EpochMax
      /\ \A a \in {"Read", "Write"}, i \in Indices : soft[a][i].tag = None /\ soft[a][i].epoch <= epoch
  BY <1>1, TranslationAssumption DEF EmptySoft, NoSoft, SoftTable
<1>5. decode \in [Pcs -> [priv : Privs, frames : Seq(Frames)] \cup {None}] /\ DecodeGood
  BY <1>1 DEF EmptyDecode, DecodeGood
<1>6. TrTypeOK
  BY <1>1, <1>3, <1>4, <1>5, EmptyTable DEF TrTypeOK, Privs, StatusBits
<1>7. TlbCoherent
  BY <1>1, EmptyTable DEF TlbCoherent
<1>8. SoftCoherent /\ SoftPast /\ ReadYourWrites
  BY <1>4 DEF SoftCoherent, SoftPast, ReadYourWrites
<1> QED BY <1>5, <1>6, <1>7, <1>8 DEF CohInv

\* Every step preserves it.
LEMMA CohStep == CohInv /\ [TrNext]_trVars => CohInv'
<1> SUFFICES ASSUME CohInv, [TrNext]_trVars PROVE CohInv'
  OBVIOUS
<1>0. TrTypeOK /\ priv \in Privs /\ mstatus \subseteq StatusBits /\ satp \in Spaces \cup {Bare}
      /\ dirty \subseteq Pages
  BY DEF CohInv, TrTypeOK
<1>1. ASSUME NEW a \in {"Read", "Write"}, NEW g \in DataPages, NEW p \in effective_data_privilege, Data(a, g, p)
      PROVE  CohInv'
  BY <1>0, <1>1, DataStep, TranslationAssumption DEF effective_data_privilege
<1>2. ASSUME NEW pc \in Pcs, FetchBare(pc) \/ Fetch(pc) PROVE CohInv'
  BY <1>2, FetchBareStep, FetchStep
<1>3. ASSUME NEW s \in Spaces, NEW l \in Slots, NEW v \in PteWrites[s], WritePte(s, l, v) PROVE CohInv'
  BY <1>3, WritePteStep
<1>4. ASSUME NEW p \in Pages \cup {None}, NEW i, SfenceVma(p, i) PROVE CohInv'
  BY <1>4, SfenceStep
<1>5. ASSUME NEW s \in Spaces \cup {Bare}, WriteSatp(s) PROVE CohInv'
  BY <1>0, <1>5, FlushStep DEF WriteSatp
<1>6. ASSUME NEW b \in StatusWrites, setMstatus(b) PROVE CohInv'
  <2>1. b \subseteq StatusBits
    BY TranslationAssumption
  <2>2. UNCHANGED <<pt, satp, priv, dirty>> /\ mstatus' = b
        /\ (TLB_flush \/ (b = mstatus /\ UNCHANGED <<tlb, soft, epoch, decode>>))
    BY <1>6 DEF setMstatus
  <2>3. CASE TLB_flush
    BY <1>0, <2>1, <2>2, <2>3, FlushStep
  <2>4. CASE b = mstatus /\ UNCHANGED <<tlb, soft, epoch, decode>>
    BY <1>0, <2>1, <2>2, <2>4, StutterStep DEF SameStatus
  <2> QED BY <2>2, <2>3, <2>4
<1>7. CASE Switch
  <2>1. /\ UNCHANGED <<pt, satp, tlb, soft, epoch, decode, dirty>> /\ priv' \in Privs
        /\ mstatus' = mstatus \/ mstatus' = mstatus \ {"MPRV"}
    BY <1>0, <1>7 DEF Switch, Privs
  <2> QED BY <1>0, <2>1, StutterStep DEF SameStatus
<1>8. CASE handle_rfence
  <2>1. UNCHANGED <<pt, satp, priv, mstatus>>
    BY <1>8 DEF handle_rfence, hartVars
  <2>2. CASE TLB_flush /\ dirty' = {}
    BY <1>0, <2>1, <2>2, FlushStep
  <2>3. CASE decode' = EmptyDecode /\ UNCHANGED <<tlb, soft, epoch, dirty>>
    BY <2>1, <2>3, DecodeDropStep
  <2> QED BY <1>8, <2>2, <2>3 DEF handle_rfence
<1>9. CASE FenceI
  BY <1>9, DecodeDropStep DEF FenceI, hartVars
<1>10. CASE DiskRead
  <2>1. UNCHANGED <<pt, satp, priv, mstatus, tlb, dirty>> /\ decode' = EmptyDecode /\ soft_tlb_flush
    BY <1>10 DEF DiskRead, hartVars
  <2>2. KeepsGood
    BY <2>1, KeptAll DEF CohInv, SameStatus, Grows
  <2>3. TrTypeOK'
    BY <2>1, SoftFlush, DecodeEmpty DEF CohInv, TrTypeOK
  <2> QED BY <2>1, <2>2, <2>3, SoftFlush, DecodeEmpty, TlbStep DEF CohInv
<1>11. CASE UNCHANGED trVars
  BY <1>0, <1>11, StutterStep DEF trVars, SameStatus
<1>12. CASE Use
  BY <1>1, <1>2, <1>12 DEF Use
<1>13. CASE Control
  BY <1>3, <1>4, <1>5, <1>6, <1>7, <1>8, <1>9, <1>10, <1>13 DEF Control
<1> QED BY <1>11, <1>12, <1>13 DEF TrNext

\* For every geometry and every behaviour: the TLBs, the soft TLBs and the decode cache
\* hold nothing that the page tables do not grant, outside of the pages that the guest
\* has changed and not fenced, and the fast paths of loads and stores agree.
THEOREM Coherence == TrSpec => [](TrTypeOK /\ TlbCoherent /\ SoftCoherent /\ ReadYourWrites /\ DecodeCoherent)
<1>1. CohInv => TrTypeOK /\ TlbCoherent /\ SoftCoherent /\ ReadYourWrites /\ DecodeCoherent
  <2> SUFFICES ASSUME CohInv PROVE DecodeCoherent
    BY DEF CohInv
  <2> SUFFICES ASSUME NEW pc \in Pcs, decode[pc] # None, decode[pc].priv = priv,
                      NEW i \in DOMAIN decode[pc].frames, NEW g, g = PagesOf[pc][i]
               PROVE  IF On(priv) THEN g \in dirty \/ Granted("Code", Key(g, priv), decode[pc].frames[i])
                                  ELSE decode[pc].frames[i] = Identity[g]
    BY DEF DecodeCoherent
  <2>1. IF On(priv) THEN Good("Code", Key(g, priv), decode[pc].frames[i])
                    ELSE decode[pc].frames[i] = Identity[g]
    BY DEF CohInv, DecodeGood, InstructionGood
  <2>2. Key(g, priv).page = g
    BY DEF Key
  <2> QED BY <2>1, <2>2 DEF Good
<1> QED BY <1>1, CohInit, CohStep, PTL DEF TrSpec

\* No TLB way answers for another address space or for a page that a walk would no longer
\* grant, unless the guest changed the page and has not fenced it, for every geometry.
THEOREM TlbsCoherent == TrSpec => []TlbCoherent
BY Coherence, PTL

\* The decode cache serves an instruction only to a privilege that could fetch it from
\* the frames it came from, also when it lies on two pages.
THEOREM DecodesCoherent == TrSpec => []DecodeCoherent
BY Coherence, PTL
=============================================================================
