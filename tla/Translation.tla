---------------------------- MODULE Translation ----------------------------
(***************************************************************************)
(* Address translation and its cached copies: the page tables in memory,   *)
(* the three 2-way TLBs of class Tlb, the direct-mapped soft TLBs with     *)
(* their generation epoch, and the decode cache, which lets a fetch skip   *)
(* translation altogether.                                                 *)
(*                                                                         *)
(* A page-table walk is abstracted to the leaf PTE that it finds: LeafOf   *)
(* names the slot, two pages with one slot lie in one superpage, and a PTE *)
(* without V stands for every descent that faults.  An access that faults  *)
(* or that needs no translation changes nothing here and is not a step;    *)
(* the trap it causes is Trap's, its effect on the privilege is Switch.    *)
(***************************************************************************)
EXTENDS Naturals, Sequences, FiniteSets

CONSTANTS
    Pages,      \* virtual 4 KiB pages
    DataPages,  \* those that loads and stores use
    Frames,     \* physical pages
    Dram,       \* those frames that are memory and not devices
    Identity,   \* the frame that an untranslated access to a page reaches
    LeafOf,     \* page -> slot of its leaf PTE
    Spaces,     \* values of satp with translation on
    Asid,       \* space -> address space identifier
    Pcs,        \* program counters, with
    PagesOf,    \* the one or two pages an instruction there may occupy
    TlbSet,     \* page -> set of the TLBs
    SoftIndex,  \* page -> index of the soft TLBs
    HighPerf,   \* s_high_performance: soft TLBs and decode cache in use
    EpochMax,   \* largest soft_tlb_epoch before it wraps
    PteWrites,  \* space -> PTEs the guest may store; a cleared one is among them
    StatusWrites,   \* values the guest gives to SUM, MXR and MPRV
    Bare,       \* satp with translation off
    None        \* an invalid entry, and an operand that matches all

Privs == {"U", "S", "M"}
Accesses == {"Read", "Write", "Code"}
Ways == {0, 1}
Slots == {LeafOf[p] : p \in Pages}
Sets == {TlbSet[p] : p \in Pages}
Indices == {SoftIndex[p] : p \in Pages}
StatusBits == {"SUM", "MXR", "MPRV"}
Cleared(s) == {pte \in PteWrites[s] : pte.bits = {}}

PteBits == {"V", "R", "W", "X", "U", "A", "D"}
Pte == [frame : Frames, bits : SUBSET PteBits]

ASSUME TranslationAssumption ==
    /\ DataPages \subseteq Pages /\ Dram \subseteq Frames /\ None \notin Frames /\ PteWrites \in [Spaces -> SUBSET Pte]
    /\ Identity \in [Pages -> Frames] /\ DOMAIN LeafOf = Pages
    /\ DOMAIN Asid = Spaces /\ Bare \notin Spaces
    /\ PagesOf \in [Pcs -> Seq(Pages)] /\ \A pc \in Pcs : Len(PagesOf[pc]) \in {1, 2}
    /\ DOMAIN TlbSet = Pages /\ DOMAIN SoftIndex = Pages
    /\ HighPerf \in BOOLEAN /\ EpochMax \in Nat \ {0}
    /\ StatusWrites \subseteq SUBSET StatusBits /\ \A s \in Spaces : Cleared(s) # {}

VARIABLES
    pt,         \* the leaf PTEs in memory: space -> slot -> PTE
    satp,       \* ArchState::satp
    priv,       \* ArchState::priv
    mstatus,    \* its SUM, MXR and MPRV; MPP is any value at any time
    tlb,        \* Tlb: inst_r, data_r and data_w with their LRU bits
    soft,       \* CPU::soft_tlb_read and soft_tlb_write
    epoch,      \* CPU::soft_tlb_epoch
    decode,     \* CPU::decode_cache, with the privilege of the fetch (history)
    dirty       \* history: pages whose PTE changed since a fence covered them

hartVars == <<satp, priv, mstatus>>
trVars == <<pt, satp, priv, mstatus, tlb, soft, epoch, decode, dirty>>

-----------------------------------------------------------------------------
(* What the page tables say.                                               *)

\* Translation is off in M-mode and with satp Bare.
On(p) == p # "M" /\ satp # Bare

\* Mmu::page_walk descends to the leaf PTE of the page.
page_walk(page) == pt[satp][LeafOf[page]]

\* CPU::effective_data_privilege: MPP under MPRV.
effective_data_privilege == IF "MPRV" \in mstatus THEN Privs ELSE {priv}

\* Mmu::validate_pte_permissions over the permission bits that page_walk makes.
validate_pte_permissions(pte, access, p) ==
    /\ "V" \in pte.bits
    /\ "W" \in pte.bits => "R" \in pte.bits
    /\ p = "S" /\ "U" \in pte.bits => access # "Code" /\ "SUM" \in mstatus
    /\ p = "U" => "U" \in pte.bits
    /\ CASE access = "Read"  -> "R" \in pte.bits \/ ("MXR" \in mstatus /\ "X" \in pte.bits)
         [] access = "Write" -> "W" \in pte.bits
         [] access = "Code"  -> "X" \in pte.bits

\* Mmu::update_pte_access_bits.
update_pte_access_bits(pte, access) ==
    [pte EXCEPT !.bits = @ \cup {"A"} \cup (IF access = "Write" THEN {"D"} ELSE {})]

-----------------------------------------------------------------------------
(* Tlb.  A table maps each set to its two ways and an LRU bit.             *)

Key(page, p) == [page |-> page, asid |-> Asid[satp], priv |-> p]

\* The ways of table t that hold key k.
Hits(t, k) == {w \in Ways : LET e == t[TlbSet[k.page]].way[w] IN e # None /\ e.key = k}

Frame(t, k) == t[TlbSet[k.page]].way[CHOOSE w \in Hits(t, k) : TRUE].frame

\* lookup_inst_r, lookup_data_r, lookup_data_w: a hit makes the other way the victim.
lookup(t, k) ==
    IF Hits(t, k) = {} THEN t
    ELSE [t EXCEPT ![TlbSet[k.page]].lru = 1 - CHOOSE w \in Hits(t, k) : TRUE]

\* insert_inst_r, insert_data_r, insert_data_w.
insert(t, k, f) ==
    LET s == TlbSet[k.page]
        w == t[s].lru
    IN  [t EXCEPT ![s] = [way |-> [@.way EXCEPT ![w] = [key |-> k, frame |-> f]], lru |-> 1 - w]]

EmptyTlb == [a \in Accesses |-> [s \in Sets |-> [way |-> [w \in Ways |-> None], lru |-> 0]]]

\* Keep the entries of every table that satisfy K.
Keep(K(_)) ==
    [a \in Accesses |-> [s \in Sets |-> [tlb[a][s] EXCEPT !.way =
        [w \in Ways |-> IF @[w] # None /\ K(@[w].key) THEN @[w] ELSE None]]]]

\* Mutant: an SFENCE.VMA with an address matches the ASID only.
flush_selective_by_asid(page, asid) ==
    IF page = None /\ asid = None THEN EmptyTlb
    ELSE Keep(LAMBDA k : ~(asid # None /\ k.asid = asid))

\* Tlb::flush_selective, None for a match-all operand.
flush_selective(page, asid) ==
    IF page = None /\ asid = None THEN EmptyTlb
    ELSE Keep(LAMBDA k : ~((page = None \/ k.page = page) /\ (asid = None \/ k.asid = asid)))

-----------------------------------------------------------------------------
(* The soft TLBs.  An entry whose tag is None is kInvalidTag.              *)

NoSoft == [tag |-> None, epoch |-> 0, frame |-> None]
EmptySoft == [a \in {"Read", "Write"} |-> [i \in Indices |-> NoSoft]]

\* SoftTlbEntry::matches.
matches(e, k) == e.epoch = epoch /\ e.tag = k

\* try_fast_load, try_fast_store and the head of target_read and target_write: an
\* access that hits goes to host memory at once and changes nothing here.
fast_path(access, k) == HighPerf /\ matches(soft[access][SoftIndex[k.page]], k)

\* Mutant: the epoch wraps and the old entries stay.
soft_tlb_flush_wraps ==
    /\ epoch' = IF epoch = EpochMax THEN 1 ELSE epoch + 1
    /\ UNCHANGED soft

\* CPU::soft_tlb_flush (soft_tlb_flush_selective is the same).
soft_tlb_flush ==
    IF epoch = EpochMax THEN epoch' = 1 /\ soft' = EmptySoft
                        ELSE epoch' = epoch + 1 /\ UNCHANGED soft

\* The tail of target_read and target_write: fill the table of the access and drop
\* what the other one has at that index if it leads to another frame.
soft_fill(access, k, f) ==
    LET i == SoftIndex[k.page]
        other == IF access = "Read" THEN "Write" ELSE "Read"
    IN  soft' = IF HighPerf /\ f \in Dram
                THEN [soft EXCEPT ![access][i] = [tag |-> k, epoch |-> epoch, frame |-> f],
                                  ![other][i] = IF @.frame # f THEN NoSoft ELSE @]
                ELSE soft

-----------------------------------------------------------------------------
EmptyDecode == [pc \in Pcs |-> None]

\* Mutant: decoded instructions outlive the address space.
TLB_flush_keeps_decode ==
    /\ tlb' = EmptyTlb
    /\ UNCHANGED decode
    /\ soft_tlb_flush

\* CPU::TLB_flush.
TLB_flush ==
    /\ tlb' = EmptyTlb
    /\ decode' = EmptyDecode
    /\ soft_tlb_flush

\* A load or store that misses the soft TLB: TLB hit, or walk with A/D update.
Data(access, page, p) ==
    LET k == Key(page, p)
        t == tlb[access]
        slot == LeafOf[page]
        pte == page_walk(page)
    IN  /\ On(p)
        /\ ~fast_path(access, k)
        /\ \/ /\ Hits(t, k) # {}
              /\ tlb' = [tlb EXCEPT ![access] = lookup(t, k)]
              /\ soft_fill(access, k, Frame(t, k))
              /\ UNCHANGED pt
           \/ /\ Hits(t, k) = {}
              /\ validate_pte_permissions(pte, access, p)
              /\ pt' = [pt EXCEPT ![satp][slot] = update_pte_access_bits(pte, access)]
              /\ tlb' = [tlb EXCEPT ![access] = insert(t, k, pte.frame)]
              /\ soft_fill(access, k, pte.frame)
        /\ UNCHANGED <<hartVars, epoch, decode, dirty>>

\* A fetch that misses the decode cache, untranslated.
FetchBare(pc) ==
    /\ decode[pc] = None /\ HighPerf
    /\ ~On(priv)
    /\ \E n \in 1..Len(PagesOf[pc]) :
          decode' = [decode EXCEPT ![pc] = [priv |-> priv,
                        frames |-> [i \in 1..n |-> Identity[PagesOf[pc][i]]]]]
    /\ UNCHANGED <<pt, hartVars, tlb, soft, epoch, dirty>>

\* fetch_address_translate looks up both pages, fetch_resolve_page_walk walks for
\* those of the instruction's n pages that missed, in order, until one faults.
Fetch(pc) ==
    LET pages == PagesOf[pc]
        K(i) == Key(pages[i], priv)
        t0 == tlb["Code"]
        t1 == lookup(t0, K(1))
        t2 == IF Len(pages) = 2 THEN lookup(t1, K(2)) ELSE t1
        hit(i) == Hits(t0, K(i)) # {}
        pte(i) == page_walk(pages[i])
        ok(i) == hit(i) \/ validate_pte_permissions(pte(i), "Code", priv)
        frame(i) == IF hit(i) THEN Frame(t0, K(i)) ELSE pte(i).frame
        walk(t, i) == IF hit(i) THEN t ELSE insert(t, K(i), pte(i).frame)
        walked(n) == {LeafOf[pages[i]] : i \in {j \in 1..n : ~hit(j)}}
    IN  /\ decode[pc] = None
        /\ On(priv)
        /\ \E n \in 1..Len(pages) :
              LET done == IF ~ok(1) THEN 0 ELSE IF n = 2 /\ ok(2) THEN 2 ELSE 1
              IN  /\ tlb' = [tlb EXCEPT !["Code"] =
                        IF done = 0 THEN t2
                        ELSE IF done = 1 THEN walk(t2, 1) ELSE walk(walk(t2, 1), 2)]
                  /\ pt' = [pt EXCEPT ![satp] = [s \in Slots |->
                        IF s \in walked(done) THEN update_pte_access_bits(@[s], "Code") ELSE @[s]]]
                  /\ decode' = IF done = n /\ HighPerf
                               THEN [decode EXCEPT ![pc] = [priv |-> priv, frames |-> [i \in 1..n |-> frame(i)]]]
                               ELSE decode
        /\ UNCHANGED <<hartVars, soft, epoch, dirty>>

-----------------------------------------------------------------------------
(* What the guest may do about it.                                         *)

\* A store into a page table; which store it is, and through which translation,
\* does not matter here.
WritePte(space, slot, pte) ==
    /\ pte # pt[space][slot]
    /\ pt' = [pt EXCEPT ![space][slot] = pte]
    /\ dirty' = IF space = satp THEN dirty \cup {p \in Pages : LeafOf[p] = slot} ELSE dirty
    /\ UNCHANGED <<hartVars, tlb, soft, epoch, decode>>

\* The commit of SFENCE.VMA.
SfenceVma(page, asid) ==
    /\ priv # "U"
    /\ tlb' = flush_selective(page, asid)
    /\ decode' = EmptyDecode
    /\ soft_tlb_flush
    /\ dirty' = IF satp # Bare /\ asid \notin {None, Asid[satp]} THEN dirty
                ELSE IF page = None THEN {} ELSE dirty \ {page}
    /\ UNCHANGED <<pt, hartVars>>

\* CsrFile::write, case Satp: a write of the value it has changes nothing.
WriteSatp(s) ==
    /\ priv # "U"
    /\ s # satp
    /\ satp' = s
    /\ TLB_flush
    /\ dirty' = {}
    /\ UNCHANGED <<pt, priv, mstatus>>

\* Who may write which bits: S-mode reaches SUM and MXR through sstatus.
Writable(bits) == priv = "M" \/ (priv = "S" /\ ("MPRV" \in bits <=> "MPRV" \in mstatus))

\* CsrFile::setMstatus.  Under MPRV a change of MPP flushes too.
setMstatus(bits) ==
    /\ Writable(bits)
    /\ mstatus' = bits
    /\ \/ (bits # mstatus \/ "MPRV" \in mstatus) /\ TLB_flush
       \/ bits = mstatus /\ UNCHANGED <<tlb, soft, epoch, decode>>
    /\ UNCHANGED <<pt, satp, priv, dirty>>

\* Traps and returns change the privilege and MPRV, and flush nothing.
Switch ==
    /\ \/ priv' = "M" /\ UNCHANGED mstatus                              \* a trap to M-mode
       \/ priv # "M" /\ priv' = "S" /\ UNCHANGED mstatus                \* a delegated trap
       \/ /\ priv = "M" /\ priv' \in {"U", "S"}                         \* mret
          /\ mstatus' = mstatus \ {"MPRV"}
       \/ /\ priv # "U" /\ priv' \in {"U", "S"}                         \* sret
          /\ mstatus' = mstatus \ {"MPRV"}
    /\ UNCHANGED <<pt, satp, tlb, soft, epoch, decode, dirty>>

\* Sbi::handle_rfence on the local hart: remote SFENCE.VMA and remote FENCE.I.
handle_rfence ==
    /\ priv = "S"
    /\ \/ TLB_flush /\ dirty' = {}
       \/ decode' = EmptyDecode /\ UNCHANGED <<tlb, soft, epoch, dirty>>
    /\ UNCHANGED <<pt, hartVars>>

\* FENCE.I, and a Disk read into memory.
FenceI == decode' = EmptyDecode /\ UNCHANGED <<pt, hartVars, tlb, soft, epoch, dirty>>

DiskRead ==
    /\ decode' = EmptyDecode
    /\ soft_tlb_flush
    /\ UNCHANGED <<pt, hartVars, tlb, dirty>>

-----------------------------------------------------------------------------
TrInit ==
    /\ pt = [s \in Spaces |-> [l \in Slots |-> CHOOSE pte \in Cleared(s) : TRUE]]
    /\ satp = Bare /\ priv = "M" /\ mstatus = {}
    /\ tlb = EmptyTlb /\ soft = EmptySoft /\ epoch = 1 /\ decode = EmptyDecode
    /\ dirty = {}

Use ==
    \/ \E a \in {"Read", "Write"}, g \in DataPages, p \in effective_data_privilege : Data(a, g, p)
    \/ \E pc \in Pcs : FetchBare(pc) \/ Fetch(pc)

Control ==
    \/ \E s \in Spaces, l \in Slots : \E v \in PteWrites[s] : WritePte(s, l, v)
    \/ \E p \in Pages \cup {None}, i \in {Asid[s] : s \in Spaces} \cup {None} : SfenceVma(p, i)
    \/ \E s \in Spaces \cup {Bare} : WriteSatp(s)
    \/ \E b \in StatusWrites : setMstatus(b)
    \/ Switch
    \/ handle_rfence
    \/ FenceI
    \/ DiskRead

TrNext == Use \/ Control

TrSpec == TrInit /\ [][TrNext]_trVars

-----------------------------------------------------------------------------
(* Properties.                                                             *)

Keys == [page : Pages, asid : {Asid[s] : s \in Spaces}, priv : {"U", "S"}]
Entry == [key : Keys, frame : Frames]
Table == [Sets -> [way : [Ways -> Entry \cup {None}], lru : Ways]]
SoftTable == [Indices -> [tag : Keys \cup {None}, epoch : 0..EpochMax, frame : Frames \cup {None}]]

TrTypeOK ==
    /\ pt \in [Spaces -> [Slots -> Pte]]
    /\ satp \in Spaces \cup {Bare} /\ priv \in Privs
    /\ mstatus \subseteq StatusBits /\ epoch \in 1..EpochMax /\ dirty \subseteq Pages
    /\ tlb \in [Accesses -> Table] /\ soft \in [{"Read", "Write"} -> SoftTable]
    /\ decode \in [Pcs -> [priv : Privs, frames : Seq(Frames)] \cup {None}]

\* The PTE in memory grants this translation, with its A and D bits recorded.
Granted(access, key, frame) ==
    LET pte == page_walk(key.page) IN
    /\ pte.frame = frame
    /\ validate_pte_permissions(pte, access, key.priv)
    /\ "A" \in pte.bits /\ (access = "Write" => "D" \in pte.bits)

\* Every entry that a TLB lookup can return is of the current address space, and
\* is what a walk would find now, unless the guest changed the PTE and has not
\* executed an SFENCE.VMA for the page since.
TlbCoherent ==
    \A a \in Accesses, s \in Sets, w \in Ways :
        LET e == tlb[a][s].way[w] IN
        e # None => /\ satp # Bare /\ e.key.asid = Asid[satp]
                    /\ e.key.page \in dirty \/ Granted(a, e.key, e.frame)

\* The same of the soft TLBs, through which loads and stores reach host memory
\* without any check: an entry of an earlier generation never comes back to life.
SoftCoherent ==
    \A a \in {"Read", "Write"}, i \in Indices :
        LET e == soft[a][i] IN
        (e.tag # None /\ e.epoch = epoch) =>
            /\ satp # Bare /\ e.tag.asid = Asid[satp] /\ e.frame \in Dram
            /\ e.tag.page \in dirty \/ Granted(a, e.tag, e.frame)

\* Loads and stores to one page agree on the frame, also while its PTE is changing:
\* a load on the fast path sees what the last store on the fast path wrote.
ReadYourWrites ==
    \A i \in Indices :
        LET r == soft["Read"][i]
            w == soft["Write"][i]
        IN  (r.tag # None /\ r.tag = w.tag /\ r.epoch = epoch /\ w.epoch = epoch) => r.frame = w.frame

\* An instruction that the decode cache serves to the privilege that fetched it is
\* the one that a fetch would find, on every page it occupies.
DecodeCoherent ==
    \A pc \in Pcs :
        (decode[pc] # None /\ decode[pc].priv = priv) =>
            \A i \in DOMAIN decode[pc].frames :
                LET p == PagesOf[pc][i] IN
                IF On(priv)
                THEN p \in dirty \/ Granted("Code", Key(p, priv), decode[pc].frames[i])
                ELSE decode[pc].frames[i] = Identity[p]

\* No fetch in supervisor mode executes an instruction from a page with U set, also
\* when the decode cache serves it.
SupervisorFetch ==
    \A pc \in Pcs :
        (decode[pc] # None /\ priv = "S" /\ satp # Bare) =>
            \A i \in DOMAIN decode[pc].frames :
                LET p == PagesOf[pc][i] IN
                p \in dirty \/ "U" \notin page_walk(p).bits
=============================================================================
