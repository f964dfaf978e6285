---------------------------- MODULE LoaderProofs ----------------------------
(***************************************************************************)
(* Address spaces for every size of memory and every number of slots,      *)
(* images and calls of spawn_elf: no frame is used twice, every space      *)
(* shares the kernel's half, and the task finds its image in it.           *)
(***************************************************************************)
EXTENDS Loader, WellFoundedInduction, TLAPS

-----------------------------------------------------------------------------
(* The lowest frame, and pages as slot and index *)

\* pmm hands out a frame that is free.
LEMMA MinIsIn ==
    ASSUME NEW S, S \subseteq Nat, S # {}
    PROVE  Min(S) \in S
<1> DEFINE R == {ss \in Nat \X Nat : ss[1] < ss[2]}
<1>1. IsWellFoundedOn(R, Nat)
  BY NatLessThanWellFounded DEF OpToRel
<1>2. PICK x \in S : \A y \in S : ~ (<<y, x>> \in R)
  BY <1>1, WFMin, Zenon
<1>3. ASSUME NEW y \in S
      PROVE  x <= y
  <2>1. ~ (<<y, x>> \in R) /\ x \in Nat /\ y \in Nat
    BY <1>2
  <2> QED BY <2>1
<1> QED BY <1>3 DEF Min

LEMMA PageIs ==
    ASSUME NEW p \in Nat
    PROVE  /\ SlotOf(p) \in Nat /\ IndexOf(p) \in 0 .. Entries - 1
           /\ p = Entries * SlotOf(p) + IndexOf(p)
<1>1. Entries \in Nat /\ Entries > 0
  BY SizesAssumption
<1> QED BY <1>1 DEF SlotOf, IndexOf

LEMMA SamePage ==
    ASSUME NEW p \in Nat, NEW q \in Nat, SlotOf(p) = SlotOf(q), IndexOf(p) = IndexOf(q)
    PROVE  p = q
BY PageIs

LEMMA UserSlot ==
    ASSUME NEW p \in Nat, p < Half * Entries
    PROVE  SlotOf(p) \in Slots \ KernelSlots
<1>1. PICK q \in Nat : q = SlotOf(p)
  BY PageIs
<1>2. Entries * q <= p
  BY <1>1, PageIs, SizesAssumption
<1>3. q < Half
  <2> SUFFICES ASSUME q >= Half
               PROVE  FALSE
    BY SizesAssumption
  <2>1. PICK d \in Nat : q = Half + d
    <3>1. q - Half \in Nat /\ q = Half + (q - Half)
      BY SizesAssumption
    <3> QED BY <3>1
  <2>2. Entries * q = Entries * Half + Entries * d
    BY <2>1, SizesAssumption
  <2>3. Entries * d \in Nat /\ Entries * Half \in Nat /\ Half * Entries = Entries * Half
    BY SizesAssumption
  <2> QED BY <1>2, <2>2, <2>3
<1> QED BY <1>1, <1>3, SizesAssumption DEF Slots, KernelSlots

LEMMA KernelSlot ==
    ASSUME NEW p \in Half * Entries .. 2 * Half * Entries - 1
    PROVE  SlotOf(p) \in KernelSlots /\ p \in Nat
<1>0. Half * Entries \in Nat /\ 2 * Half * Entries \in Nat
  BY SizesAssumption
<1>1. p \in Nat
  BY <1>0
<1>2. PICK q \in Nat : q = SlotOf(p)
  BY <1>1, PageIs
<1>3. p = Entries * q + IndexOf(p) /\ IndexOf(p) \in 0 .. Entries - 1
  BY <1>1, <1>2, PageIs
<1>4. q >= Half
  <2> SUFFICES ASSUME q < Half
               PROVE  FALSE
    BY SizesAssumption
  <2>1. PICK d \in Nat : Half = (q + 1) + d
    <3>1. Half - (q + 1) \in Nat /\ Half = (q + 1) + (Half - (q + 1))
      BY SizesAssumption
    <3> QED BY <3>1
  <2>2. Half * Entries = Entries * q + Entries + Entries * d
    BY <2>1, SizesAssumption
  <2>3. Entries * d \in Nat /\ Entries * q \in Nat
    BY SizesAssumption
  <2>4. p >= Half * Entries
    BY <1>0
  <2> QED BY <1>0, <1>3, <2>2, <2>3, <2>4, SizesAssumption
<1>5. q < 2 * Half
  <2> SUFFICES ASSUME q >= 2 * Half
               PROVE  FALSE
    BY SizesAssumption
  <2>1. PICK d \in Nat : q = 2 * Half + d
    <3>1. q - 2 * Half \in Nat /\ q = 2 * Half + (q - 2 * Half)
      BY SizesAssumption
    <3> QED BY <3>1
  <2>2. Entries * q = 2 * Half * Entries + Entries * d
    BY <2>1, SizesAssumption
  <2>3. Entries * d \in Nat /\ Entries * q \in Nat
    BY SizesAssumption
  <2>4. p <= 2 * Half * Entries - 1
    BY <1>0
  <2> QED BY <1>0, <1>3, <2>2, <2>3, <2>4, SizesAssumption
<1> QED BY <1>1, <1>2, <1>4, <1>5, SizesAssumption DEF KernelSlots

-----------------------------------------------------------------------------
(* What is held, as a function of the tables *)

EntryOf(pm, tb, s, p) ==
  IF pm[s][SlotOf(p)] = None THEN None ELSE tb[pm[s][SlotOf(p)]][IndexOf(p)]

UnderOf(pm, tb, space, slots) ==
  {<<space, "table", s, pm[space][s]>> : s \in {t \in slots : pm[space][t] # None}} \cup
  {<<space, "page", p, EntryOf(pm, tb, space, p).frame>> :
     p \in {q \in 0 .. (2 * Half * Entries - 1) :
              SlotOf(q) \in slots /\ EntryOf(pm, tb, space, q) # None}}

HoldingsOf(pm, tb, spaces) ==
  UnderOf(pm, tb, KERNEL, KernelSlots) \cup
  (UNION {UnderOf(pm, tb, s, Slots \ KernelSlots) : s \in spaces}) \cup
  {<<s, "pml4", 0, s>> : s \in spaces}

\* The slots that are accounted to a space.
Accounted(spaces, s, k) ==
  \/ s = KERNEL /\ k \in KernelSlots
  \/ s \in spaces /\ k \in Slots \ KernelSlots

LEMMA HoldingsAre ==
    ASSUME NEW pm, NEW tb, NEW spaces, NEW h
    PROVE  h \in HoldingsOf(pm, tb, spaces) <=>
             \/ \E s, k : /\ Accounted(spaces, s, k) /\ pm[s][k] # None
                          /\ h = <<s, "table", k, pm[s][k]>>
             \/ \E s, p : /\ p \in 0 .. (2 * Half * Entries - 1)
                          /\ Accounted(spaces, s, SlotOf(p)) /\ EntryOf(pm, tb, s, p) # None
                          /\ h = <<s, "page", p, EntryOf(pm, tb, s, p).frame>>
             \/ \E s \in spaces : h = <<s, "pml4", 0, s>>
<1> DEFINE Tables(s, slots) == \E k \in slots : pm[s][k] # None /\ h = <<s, "table", k, pm[s][k]>>
           Pages(s, slots) ==
             \E p \in 0 .. (2 * Half * Entries - 1) :
                /\ SlotOf(p) \in slots /\ EntryOf(pm, tb, s, p) # None
                /\ h = <<s, "page", p, EntryOf(pm, tb, s, p).frame>>
<1>1. ASSUME NEW s, NEW slots
      PROVE  h \in UnderOf(pm, tb, s, slots) <=> Tables(s, slots) \/ Pages(s, slots)
  <2>1. h \in {<<s, "table", k, pm[s][k]>> : k \in {t \in slots : pm[s][t] # None}}
          <=> Tables(s, slots)
    OBVIOUS
  <2>2. h \in {<<s, "page", p, EntryOf(pm, tb, s, p).frame>> :
                 p \in {q \in 0 .. (2 * Half * Entries - 1) :
                          SlotOf(q) \in slots /\ EntryOf(pm, tb, s, q) # None}}
          <=> Pages(s, slots)
    OBVIOUS
  <2> HIDE DEF Tables, Pages
  <2> QED BY <2>1, <2>2 DEF UnderOf
<1>2. h \in HoldingsOf(pm, tb, spaces) <=>
        \/ h \in UnderOf(pm, tb, KERNEL, KernelSlots)
        \/ \E s \in spaces : h \in UnderOf(pm, tb, s, Slots \ KernelSlots)
        \/ \E s \in spaces : h = <<s, "pml4", 0, s>>
  <2> DEFINE K == UnderOf(pm, tb, KERNEL, KernelSlots)
             U == UNION {UnderOf(pm, tb, s, Slots \ KernelSlots) : s \in spaces}
             P == {<<s, "pml4", 0, s>> : s \in spaces}
  <2>1. h \in U <=> \E s \in spaces : h \in UnderOf(pm, tb, s, Slots \ KernelSlots)
    OBVIOUS
  <2>2. h \in P <=> \E s \in spaces : h = <<s, "pml4", 0, s>>
    OBVIOUS
  <2>3. HoldingsOf(pm, tb, spaces) = K \cup U \cup P
    BY DEF HoldingsOf
  <2>4. h \in HoldingsOf(pm, tb, spaces) <=> h \in K \/ h \in U \/ h \in P
    <3> HIDE DEF K, U, P
    <3> QED BY <2>3
  <2> QED BY ONLY <2>1, <2>2, <2>4
<1>3. h \in HoldingsOf(pm, tb, spaces) <=>
        \/ Tables(KERNEL, KernelSlots) \/ Pages(KERNEL, KernelSlots)
        \/ \E s \in spaces : Tables(s, Slots \ KernelSlots) \/ Pages(s, Slots \ KernelSlots)
        \/ \E s \in spaces : h = <<s, "pml4", 0, s>>
  <2> HIDE DEF Tables, Pages
  <2> QED BY <1>1, <1>2
<1>4. (\E s, k : Accounted(spaces, s, k) /\ pm[s][k] # None /\ h = <<s, "table", k, pm[s][k]>>)
        <=> Tables(KERNEL, KernelSlots) \/ \E s \in spaces : Tables(s, Slots \ KernelSlots)
  BY DEF Accounted
<1>5. (\E s, p : /\ p \in 0 .. (2 * Half * Entries - 1)
                 /\ Accounted(spaces, s, SlotOf(p)) /\ EntryOf(pm, tb, s, p) # None
                 /\ h = <<s, "page", p, EntryOf(pm, tb, s, p).frame>>)
        <=> Pages(KERNEL, KernelSlots) \/ \E s \in spaces : Pages(s, Slots \ KernelSlots)
  BY DEF Accounted
<1> QED BY <1>3, <1>4, <1>5

\* Two places for one frame, or a place for a free one, are what must not be.
ApartIn(H, fr) ==
  /\ \A h \in H : h[4] \notin fr
  /\ \A g, h \in H : g[4] = h[4] => g = h

LEMMA HoldingsNow == Holdings = HoldingsOf(pml4, table, Spaces)
BY DEF Holdings, HoldingsOf, Under, UnderOf, is_mapped, translate, EntryOf

LEMMA ApartNow == SpacesApart <=> ApartIn(Holdings, free)
BY DEF SpacesApart, ApartIn

-----------------------------------------------------------------------------
(* The inductive invariant *)

PTE == [frame : Frames \cup {Devices[i][2] : i \in 1 .. Len(Devices)}, nx : BOOLEAN] \cup {None}

Tables == Frames \cup {BootTable}

MemoryType ==
  /\ free \subseteq Frames
  /\ pml4 \in [Frames \cup {KERNEL} -> [Slots -> Tables \cup {None}]]
  /\ table \in [Tables -> [0 .. (Entries - 1) -> PTE]]

JobType ==
  /\ job = [image |-> job.image, space |-> job.space, seg |-> job.seg, pos |-> job.pos]
  /\ job.space \in Frames \cup {None}
  /\ \A l \in loaded : l.space \in Frames

\* The stages of spawn_elf after AddressSpace::new.
Building == {"header", "segment", "map", "copy", "zero", "entry", "stack"}

StageInv ==
  /\ stage \in {"heap", "apic"} => loaded = {} /\ job.space = None /\ job.pos \in Nat \ {0}
  /\ stage \in Building => job.space \in Frames /\ job.image \in Images
  /\ stage \in {"segment", "map", "copy", "zero"} => job.seg \in Nat \ {0}
  /\ stage \in {"map", "copy", "zero"} =>
       job.seg \in 1 .. Len(job.image.headers) /\ Segment.load
  /\ stage \in {"map", "stack"} => job.pos \in Nat

\* The frames the kernel holds before its devices are mapped.
DeviceInv ==
  /\ stage = "heap" => \A h \in Holdings : h[4] \in Tables
  /\ stage = "apic" =>
       \A h \in Holdings : h[4] \in Tables \cup {Devices[i][2] : i \in 1 .. (job.pos - 1)}

KernelShared == \A s \in Spaces, k \in KernelSlots : pml4[s][k] = pml4[KERNEL][k]

LoaderInv == MemoryType /\ JobType /\ StageInv /\ DeviceInv /\ KernelShared /\ SpacesApart

LEMMA SlotsAre == KernelSlots \subseteq Slots /\ Half \in KernelSlots
BY SizesAssumption DEF Slots, KernelSlots

LEMMA LoaderInit == Init => LoaderInv
<1> SUFFICES ASSUME Init
             PROVE  LoaderInv
  OBVIOUS
<1>1. MemoryType
  <2>1. free \subseteq Frames
    BY FramesAssumption DEF Init
  <2>2. pml4 \in [Frames \cup {KERNEL} -> [Slots -> Tables \cup {None}]]
    BY DEF Init, Tables
  <2>3. Empty \in [0 .. (Entries - 1) -> PTE]
    BY DEF Empty, PTE
  <2>4. table \in [Tables -> [0 .. (Entries - 1) -> PTE]]
    BY <2>3 DEF Init, Tables
  <2> QED BY <2>1, <2>2, <2>4 DEF MemoryType
<1>2. job = [image |-> None, space |-> None, seg |-> 0, pos |-> 1] /\ loaded = {} /\ stage = "heap"
  BY DEF Init, Idle
<1>3. JobType
  BY <1>2 DEF JobType
<1>4. StageInv
  BY <1>2 DEF StageInv, Building
<1>5. Spaces = {}
  BY <1>2 DEF Spaces
<1>6. KernelShared
  BY <1>5 DEF KernelShared
<1>7. ASSUME NEW h \in Holdings
      PROVE  h = <<KERNEL, "table", Half, BootTable>>
  <2>1. h \in HoldingsOf(pml4, table, {})
    BY <1>5, HoldingsNow
  <2>2. CASE \E s, k : /\ Accounted({}, s, k) /\ pml4[s][k] # None
                       /\ h = <<s, "table", k, pml4[s][k]>>
    <3>1. PICK s, k : /\ Accounted({}, s, k) /\ pml4[s][k] # None
                      /\ h = <<s, "table", k, pml4[s][k]>>
      BY <2>2
    <3>2. s = KERNEL /\ k \in KernelSlots
      BY <3>1 DEF Accounted
    <3>3. k = Half /\ pml4[KERNEL][k] = BootTable
      BY <3>1, <3>2, SlotsAre DEF Init
    <3> QED BY <3>1, <3>2, <3>3
  <2>3. CASE \E s, p : /\ p \in 0 .. (2 * Half * Entries - 1)
                       /\ Accounted({}, s, SlotOf(p)) /\ EntryOf(pml4, table, s, p) # None
    <3>1. PICK s, p : /\ p \in 0 .. (2 * Half * Entries - 1)
                      /\ Accounted({}, s, SlotOf(p)) /\ EntryOf(pml4, table, s, p) # None
      BY <2>3
    <3>2. p \in Nat
      BY <3>1
    <3>3. IndexOf(p) \in 0 .. (Entries - 1)
      BY <3>2, PageIs
    <3>4. s = KERNEL /\ SlotOf(p) \in Slots
      BY <3>1, SlotsAre DEF Accounted
    <3>5. PICK t : t = pml4[s][SlotOf(p)]
      OBVIOUS
    <3>6. t # None /\ table[t][IndexOf(p)] # None
      BY <3>1, <3>5 DEF EntryOf
    <3>7. t = BootTable
      BY <3>4, <3>5, <3>6 DEF Init
    <3>8. table[t][IndexOf(p)] = None
      BY <3>3, <3>7 DEF Init, Empty
    <3> QED BY <3>6, <3>8
  <2> QED BY <2>1, <2>2, <2>3, HoldingsAre
<1>8. SpacesApart
  <2>1. ASSUME NEW h \in Holdings
        PROVE  h[4] \notin free
    <3>1. h[4] = BootTable
      BY <1>7
    <3> QED BY <3>1, <1>1, FramesAssumption DEF MemoryType
  <2> QED BY <1>7, <2>1 DEF SpacesApart
<1>9. DeviceInv
  <2>1. ASSUME NEW h \in Holdings
        PROVE  h[4] \in Tables
    <3>1. h[4] = BootTable
      BY <1>7
    <3> QED BY <3>1 DEF Tables
  <2> QED BY <1>2, <2>1 DEF DeviceInv
<1> QED BY <1>1, <1>3, <1>4, <1>6, <1>8, <1>9 DEF LoaderInv

-----------------------------------------------------------------------------
(* Mapping a page *)

\* map_to adds at most a table and a page to what is held, and changes one slot.
LEMMA MapTo ==
    ASSUME MemoryType, SpacesApart, NEW sp, sp = Spaces, Spaces' = sp,
           \A s \in sp : s \in Frames,
           NEW space, NEW page \in Nat, Accounted(sp, space, SlotOf(page)),
           NEW entry \in PTE, NEW avail, avail \subseteq free,
           NeedsTable(space, page) => avail # {},
           map_to(space, page, entry, avail)
    PROVE  /\ MemoryType' /\ free' \subseteq avail
           /\ \A s \in Frames \cup {KERNEL}, k \in Slots :
                s # space \/ k # SlotOf(page) => pml4'[s][k] = pml4[s][k]
           /\ \E t : \A h \in Holdings' :
                \/ h \in Holdings
                \/ h = <<space, "page", page, entry.frame>>
                \/ h = <<space, "table", SlotOf(page), t>> /\ t \in avail /\ t \notin free'
<1>1. PICK slot : slot = SlotOf(page)
  OBVIOUS
<1>2. PICK index : index = IndexOf(page)
  OBVIOUS
<1>3. /\ slot \in Slots /\ index \in 0 .. (Entries - 1)
      /\ space \in Frames \cup {KERNEL} /\ Accounted(sp, space, slot)
  BY <1>1, <1>2, PageIs, SlotsAre DEF Accounted
<1>4. PICK u : u = pml4[space][slot]
  OBVIOUS
<1>5. /\ pml4 \in [Frames \cup {KERNEL} -> [Slots -> Tables \cup {None}]]
      /\ table \in [Tables -> [0 .. (Entries - 1) -> PTE]]
  BY DEF MemoryType
<1>6. u \in Tables \cup {None}
  BY <1>3, <1>4, <1>5
<1>7. NeedsTable(space, page) <=> u = None
  BY <1>1, <1>4 DEF NeedsTable
<1>8. \A h : h \in Holdings <=> h \in HoldingsOf(pml4, table, sp)
  BY HoldingsNow
<1>9. \A h : h \in Holdings' <=> h \in HoldingsOf(pml4', table', sp)
  BY DEF Holdings, HoldingsOf, Under, UnderOf, is_mapped, translate, EntryOf
<1>10. \A s, k : Accounted(sp, s, k) => s \in Frames \cup {KERNEL} /\ k \in Slots
  BY SlotsAre DEF Accounted
\* The tables of the other slots stay as they are.
<1>11. \A s, k : /\ Accounted(sp, s, k) /\ pml4[s][k] # None =>
                      <<s, "table", k, pml4[s][k]>> \in Holdings
  BY <1>8, HoldingsAre
<1>12. CASE u = None
  <2>1. PICK t : t = Min(avail)
    OBVIOUS
  <2>2. t \in avail /\ t \in Frames
    <3>1. avail \subseteq Nat /\ avail # {}
      BY <1>7, <1>12, FramesAssumption DEF MemoryType
    <3> QED BY <2>1, <3>1, MinIsIn DEF MemoryType
  <2>3. PICK fresh : fresh = [Empty EXCEPT ![index] = entry]
    OBVIOUS
  <2>4. /\ free' = avail \ {t}
        /\ pml4' = [pml4 EXCEPT ![space][slot] = t]
        /\ table' = [table EXCEPT ![t] = fresh]
    BY <1>1, <1>2, <1>7, <1>12, <2>1, <2>3 DEF map_to
  <2>5. /\ fresh \in [0 .. (Entries - 1) -> PTE] /\ fresh[index] = entry
        /\ \A i \in 0 .. (Entries - 1) : i # index => fresh[i] = None
    BY <1>3, <2>3 DEF Empty, PTE
  <2>6. /\ pml4' \in [Frames \cup {KERNEL} -> [Slots -> Tables \cup {None}]]
        /\ pml4'[space][slot] = t
        /\ \A s \in Frames \cup {KERNEL}, k \in Slots :
             s # space \/ k # slot => pml4'[s][k] = pml4[s][k]
    BY <1>3, <1>5, <2>2, <2>4 DEF Tables
  <2>7. /\ table' \in [Tables -> [0 .. (Entries - 1) -> PTE]] /\ table'[t] = fresh
        /\ \A v \in Tables : v # t => table'[v] = table[v]
    BY <1>5, <2>2, <2>4, <2>5 DEF Tables
  <2>8. MemoryType' /\ free' \subseteq avail
    BY <2>4, <2>6, <2>7 DEF MemoryType
  <2>9. ASSUME NEW h \in Holdings'
        PROVE  \/ h \in Holdings
               \/ h = <<space, "page", page, entry.frame>>
               \/ h = <<space, "table", slot, t>>
    <3>1. CASE \E s, k : /\ Accounted(sp, s, k) /\ pml4'[s][k] # None
                         /\ h = <<s, "table", k, pml4'[s][k]>>
      <4>1. PICK s, k : /\ Accounted(sp, s, k) /\ pml4'[s][k] # None
                        /\ h = <<s, "table", k, pml4'[s][k]>>
        BY <3>1
      <4>2. CASE s = space /\ k = slot
        BY <4>1, <4>2, <2>6
      <4>3. CASE s # space \/ k # slot
        <5>1. pml4'[s][k] = pml4[s][k]
          BY <4>1, <4>3, <1>10, <2>6
        <5> QED BY <4>1, <5>1, <1>11
      <4> QED BY <4>2, <4>3
    <3>2. CASE \E s, p : /\ p \in 0 .. (2 * Half * Entries - 1)
                         /\ Accounted(sp, s, SlotOf(p)) /\ EntryOf(pml4', table', s, p) # None
                         /\ h = <<s, "page", p, EntryOf(pml4', table', s, p).frame>>
      <4>1. PICK s, p : /\ p \in 0 .. (2 * Half * Entries - 1)
                        /\ Accounted(sp, s, SlotOf(p)) /\ EntryOf(pml4', table', s, p) # None
                        /\ h = <<s, "page", p, EntryOf(pml4', table', s, p).frame>>
        BY <3>2
      <4>2. p \in Nat /\ IndexOf(p) \in 0 .. (Entries - 1)
        BY <4>1, PageIs
      <4>3. s \in Frames \cup {KERNEL} /\ SlotOf(p) \in Slots
        BY <4>1, <1>10
      <4>4. CASE s = space /\ SlotOf(p) = slot
        <5>1. EntryOf(pml4', table', s, p) = fresh[IndexOf(p)]
          BY <4>1, <4>4, <2>6, <2>7 DEF EntryOf
        <5>2. IndexOf(p) = index
          BY <4>1, <4>2, <5>1, <2>5
        <5>3. p = page
          BY <4>2, <4>4, <5>2, <1>1, <1>2, SamePage
        <5> QED BY <4>1, <4>4, <5>1, <5>2, <5>3, <2>5
      <4>5. CASE s # space \/ SlotOf(p) # slot
        <5>1. PICK v : v = pml4[s][SlotOf(p)]
          OBVIOUS
        <5>2. pml4'[s][SlotOf(p)] = v
          BY <4>3, <4>5, <5>1, <2>6
        <5>3. v # None /\ v \in Tables
          BY <4>1, <4>3, <5>1, <5>2, <1>5 DEF EntryOf
        <5>4. v # t
          <6>1. <<s, "table", SlotOf(p), v>> \in Holdings
            BY <4>1, <5>1, <5>3, <1>11
          <6>2. v \notin free
            BY <6>1 DEF SpacesApart
          <6> QED BY <6>2, <2>2
        <5>5. EntryOf(pml4', table', s, p) = EntryOf(pml4, table, s, p)
          BY <5>1, <5>2, <5>3, <5>4, <2>7 DEF EntryOf
        <5> QED BY <4>1, <5>5, <1>8, HoldingsAre
      <4> QED BY <4>4, <4>5
    <3>3. CASE \E s \in sp : h = <<s, "pml4", 0, s>>
      BY <3>3, <1>8, HoldingsAre
    <3> QED BY <3>1, <3>2, <3>3, <1>9, HoldingsAre
  <2> QED BY <1>1, <2>2, <2>4, <2>6, <2>8, <2>9
<1>13. CASE u # None
  <2>1. PICK fresh : fresh = [table[u] EXCEPT ![index] = entry]
    OBVIOUS
  <2>2. u \in Tables
    BY <1>6, <1>13
  <2>3. /\ free' = avail /\ pml4' = pml4 /\ table' = [table EXCEPT ![u] = fresh]
    <3>1. table' = [table EXCEPT ![u][index] = entry]
      BY <1>1, <1>2, <1>4, <1>7, <1>13 DEF map_to
    <3> QED BY <1>1, <1>2, <1>7, <1>13, <2>1, <3>1 DEF map_to
  <2>4. /\ fresh \in [0 .. (Entries - 1) -> PTE] /\ fresh[index] = entry
        /\ \A i \in 0 .. (Entries - 1) : i # index => fresh[i] = table[u][i]
    BY <1>3, <1>5, <2>1, <2>2
  <2>5. /\ table' \in [Tables -> [0 .. (Entries - 1) -> PTE]] /\ table'[u] = fresh
        /\ \A v \in Tables : v # u => table'[v] = table[v]
    BY <1>5, <2>2, <2>3, <2>4
  <2>6. MemoryType' /\ free' \subseteq avail
    BY <2>3, <2>5 DEF MemoryType
  <2>7. ASSUME NEW h \in Holdings'
        PROVE  h \in Holdings \/ h = <<space, "page", page, entry.frame>>
    <3>1. CASE \E s, k : /\ Accounted(sp, s, k) /\ pml4'[s][k] # None
                         /\ h = <<s, "table", k, pml4'[s][k]>>
      BY <3>1, <2>3, <1>11
    <3>2. CASE \E s, p : /\ p \in 0 .. (2 * Half * Entries - 1)
                         /\ Accounted(sp, s, SlotOf(p)) /\ EntryOf(pml4', table', s, p) # None
                         /\ h = <<s, "page", p, EntryOf(pml4', table', s, p).frame>>
      <4>1. PICK s, p : /\ p \in 0 .. (2 * Half * Entries - 1)
                        /\ Accounted(sp, s, SlotOf(p)) /\ EntryOf(pml4', table', s, p) # None
                        /\ h = <<s, "page", p, EntryOf(pml4', table', s, p).frame>>
        BY <3>2
      <4>2. p \in Nat /\ IndexOf(p) \in 0 .. (Entries - 1)
        BY <4>1, PageIs
      <4>3. s \in Frames \cup {KERNEL} /\ SlotOf(p) \in Slots
        BY <4>1, <1>10
      <4>4. PICK v : v = pml4[s][SlotOf(p)]
        OBVIOUS
      <4>5. v # None /\ v \in Tables
        BY <4>1, <4>3, <4>4, <1>5, <2>3 DEF EntryOf
      <4>6. CASE s = space /\ p = page
        <5>1. EntryOf(pml4', table', s, p) = entry
          BY <4>4, <4>5, <4>6, <1>1, <1>2, <1>4, <2>3, <2>4, <2>5 DEF EntryOf
        <5> QED BY <4>1, <4>6, <5>1
      <4>7. CASE s # space \/ p # page
        <5>1. EntryOf(pml4', table', s, p) = EntryOf(pml4, table, s, p)
          <6>1. EntryOf(pml4', table', s, p) = table'[v][IndexOf(p)]
                /\ EntryOf(pml4, table, s, p) = table[v][IndexOf(p)]
            BY <4>4, <4>5, <2>3 DEF EntryOf
          <6>2. CASE v # u
            BY <4>5, <6>1, <6>2, <2>5
          <6>3. CASE v = u
            <7>1. /\ <<s, "table", SlotOf(p), v>> \in Holdings
                  /\ <<space, "table", slot, u>> \in Holdings
              BY <4>1, <4>4, <4>5, <1>3, <1>4, <1>11, <1>13
            <7>2. s = space /\ SlotOf(p) = slot
              <8>1. <<s, "table", SlotOf(p), v>> = <<space, "table", slot, u>>
                BY <6>3, <7>1 DEF SpacesApart
              <8> QED BY <8>1
            <7>3. IndexOf(p) # index
              BY <4>2, <4>7, <7>2, <1>1, <1>2, SamePage
            <7> QED BY <4>2, <6>1, <6>3, <7>3, <2>4, <2>5
          <6> QED BY <6>2, <6>3
        <5> QED BY <4>1, <5>1, <1>8, HoldingsAre
      <4> QED BY <4>6, <4>7
    <3>3. CASE \E s \in sp : h = <<s, "pml4", 0, s>>
      BY <3>3, <1>8, HoldingsAre
    <3> QED BY <3>1, <3>2, <3>3, <1>9, HoldingsAre
  <2> QED BY <2>3, <2>6, <2>7
<1> QED BY <1>12, <1>13

\* What is held stays apart when nothing but free frames, each in one place, is added.
LEMMA MapKeepsApart ==
    ASSUME MemoryType, SpacesApart, NEW sp, sp = Spaces, Spaces' = sp,
           \A s \in sp : s \in Frames,
           NEW space, NEW page \in Nat, Accounted(sp, space, SlotOf(page)),
           NEW entry \in PTE, NEW avail, avail \subseteq free,
           NeedsTable(space, page) => avail # {},
           map_to(space, page, entry, avail),
           entry.frame \notin avail, \A h \in Holdings : h[4] # entry.frame
    PROVE  /\ MemoryType' /\ SpacesApart'
           /\ \A s \in Frames \cup {KERNEL}, k \in Slots :
                s # space \/ k # SlotOf(page) => pml4'[s][k] = pml4[s][k]
           /\ \A h \in Holdings' : h \in Holdings \/ h[4] \in Frames \/ h[4] = entry.frame
<1>1. PICK slot : slot = SlotOf(page)
  OBVIOUS
<1>2. /\ MemoryType' /\ free' \subseteq avail
      /\ \A s \in Frames \cup {KERNEL}, k \in Slots :
           s # space \/ k # SlotOf(page) => pml4'[s][k] = pml4[s][k]
      /\ \E t : \A h \in Holdings' :
           \/ h \in Holdings
           \/ h = <<space, "page", page, entry.frame>>
           \/ h = <<space, "table", SlotOf(page), t>> /\ t \in avail /\ t \notin free'
  BY MapTo
<1>3. PICK t : \A h \in Holdings' :
                 \/ h \in Holdings
                 \/ h = <<space, "page", page, entry.frame>>
                 \/ h = <<space, "table", slot, t>> /\ t \in avail /\ t \notin free'
  BY <1>1, <1>2
<1>4. PICK f : f = entry.frame
  OBVIOUS
<1>5. \A h \in Holdings : h[4] \notin free /\ h[4] # f
  BY <1>4 DEF SpacesApart
<1>6. ASSUME NEW h \in Holdings'
      PROVE  /\ h[4] \notin free'
             /\ h[4] \in Frames \/ h[4] = f \/ h \in Holdings
  <2>1. CASE h \in Holdings
    BY <2>1, <1>2, <1>5
  <2>2. CASE h = <<space, "page", page, f>>
    BY <2>2, <1>2, <1>4
  <2>3. CASE h = <<space, "table", slot, t>> /\ t \in avail /\ t \notin free'
    BY <2>3 DEF MemoryType
  <2> QED BY <2>1, <2>2, <2>3, <1>3, <1>4
<1>7. ASSUME NEW g \in Holdings', NEW h \in Holdings', g[4] = h[4]
      PROVE  g = h
  <2>1. CASE g \in Holdings /\ h \in Holdings
    BY <2>1, <1>7 DEF SpacesApart
  <2>2. ASSUME NEW x \in Holdings
        PROVE  x[4] # f /\ (t \in avail => x[4] # t)
    BY <1>5
  <2>3. CASE g = <<space, "page", page, f>>
    BY <2>2, <2>3, <1>3, <1>4, <1>7
  <2>4. CASE g = <<space, "table", slot, t>> /\ t \in avail
    BY <2>2, <2>4, <1>3, <1>4, <1>7
  <2>5. CASE h = <<space, "page", page, f>>
    BY <2>2, <2>5, <1>3, <1>4, <1>7
  <2>6. CASE h = <<space, "table", slot, t>> /\ t \in avail
    BY <2>2, <2>6, <1>3, <1>4, <1>7
  <2> QED BY <2>1, <2>3, <2>4, <2>5, <2>6, <1>3, <1>4
<1>8. SpacesApart'
  BY <1>6, <1>7 DEF SpacesApart
<1> QED BY <1>2, <1>4, <1>6, <1>8

LEMMA SpacesAreFrames ==
    ASSUME JobType
    PROVE  \A s \in Spaces : s \in Frames
BY DEF JobType, Spaces

\* map_page_alloc takes the lowest free frame for the page.
LEMMA MapPageAlloc ==
    ASSUME LoaderInv, Spaces' = Spaces,
           NEW space, NEW page \in Nat, Accounted(Spaces, space, SlotOf(page)),
           NEW nx \in BOOLEAN, map_page_alloc(space, page, nx)
    PROVE  /\ MemoryType' /\ SpacesApart'
           /\ \A s \in Frames \cup {KERNEL}, k \in Slots :
                s # space \/ k # SlotOf(page) => pml4'[s][k] = pml4[s][k]
           /\ \A h \in Holdings' : h \in Holdings \/ h[4] \in Frames
<1>1. MemoryType /\ SpacesApart /\ JobType
  BY DEF LoaderInv
<1>2. PICK sp : sp = Spaces
  OBVIOUS
<1>3. \A s \in sp : s \in Frames
  BY <1>1, <1>2, SpacesAreFrames
<1>4. PICK f : f = Min(free)
  OBVIOUS
<1>5. f \in free /\ f \in Frames
  <2>1. free \subseteq Nat /\ free # {}
    BY <1>1, FramesAssumption DEF MemoryType, map_page_alloc, CanMapAlloc
  <2> QED BY <2>1, <1>1, <1>4, MinIsIn DEF MemoryType
<1>6. PICK avail : avail = free \ {f}
  OBVIOUS
<1>7. PICK entry : entry = [frame |-> f, nx |-> nx]
  OBVIOUS
<1>8. entry \in PTE /\ entry.frame = f
  BY <1>5, <1>7 DEF PTE
<1>9. avail \subseteq free /\ entry.frame \notin avail /\ \A h \in Holdings : h[4] # entry.frame
  BY <1>1, <1>5, <1>6, <1>8 DEF SpacesApart
<1>10. /\ NeedsTable(space, page) => avail # {}
       /\ map_to(space, page, entry, avail)
  BY <1>4, <1>6, <1>7 DEF map_page_alloc, CanMapAlloc, Rest
<1>11. Accounted(sp, space, SlotOf(page)) /\ Spaces' = sp
  BY <1>2
<1>12. /\ MemoryType' /\ SpacesApart'
       /\ \A s \in Frames \cup {KERNEL}, k \in Slots :
            s # space \/ k # SlotOf(page) => pml4'[s][k] = pml4[s][k]
       /\ \A h \in Holdings' : h \in Holdings \/ h[4] \in Frames \/ h[4] = entry.frame
  BY <1>1, <1>2, <1>3, <1>8, <1>9, <1>10, <1>11, MapKeepsApart
<1> QED BY <1>5, <1>8, <1>12

\* A step that maps nothing and adds no space.
LEMMA NothingMapped ==
    ASSUME LoaderInv, UNCHANGED <<pml4, table>>, free' \subseteq free, Spaces' \subseteq Spaces
    PROVE  MemoryType' /\ SpacesApart' /\ KernelShared' /\ Holdings' \subseteq Holdings
<1>1. MemoryType'
  BY DEF LoaderInv, MemoryType
<1>2. KernelShared'
  BY DEF LoaderInv, KernelShared
<1>3. Holdings' \subseteq Holdings
  <2>1. PICK sp : sp = Spaces
    OBVIOUS
  <2>2. PICK sq : sq = Spaces'
    OBVIOUS
  <2>3. Holdings = HoldingsOf(pml4, table, sp)
    BY <2>1, HoldingsNow
  <2>4. Holdings' = HoldingsOf(pml4, table, sq)
    BY <2>2 DEF Holdings, HoldingsOf, Under, UnderOf, is_mapped, translate, EntryOf
  <2>5. \A s, k : Accounted(sq, s, k) => Accounted(sp, s, k)
    BY <2>1, <2>2 DEF Accounted
  <2>6. ASSUME NEW h, h \in HoldingsOf(pml4, table, sq)
        PROVE  h \in HoldingsOf(pml4, table, sp)
    <3>1. sq \subseteq sp
      BY <2>1, <2>2
    <3>2. \/ \E s, k : /\ Accounted(sq, s, k) /\ pml4[s][k] # None
                       /\ h = <<s, "table", k, pml4[s][k]>>
          \/ \E s, p : /\ p \in 0 .. (2 * Half * Entries - 1)
                       /\ Accounted(sq, s, SlotOf(p)) /\ EntryOf(pml4, table, s, p) # None
                       /\ h = <<s, "page", p, EntryOf(pml4, table, s, p).frame>>
          \/ \E s \in sq : h = <<s, "pml4", 0, s>>
      BY <2>6, HoldingsAre
    <3>3. \/ \E s, k : /\ Accounted(sp, s, k) /\ pml4[s][k] # None
                       /\ h = <<s, "table", k, pml4[s][k]>>
          \/ \E s, p : /\ p \in 0 .. (2 * Half * Entries - 1)
                       /\ Accounted(sp, s, SlotOf(p)) /\ EntryOf(pml4, table, s, p) # None
                       /\ h = <<s, "page", p, EntryOf(pml4, table, s, p).frame>>
          \/ \E s \in sp : h = <<s, "pml4", 0, s>>
      BY ONLY <2>5, <3>1, <3>2
    <3> QED BY <3>3, HoldingsAre
  <2> QED BY <2>3, <2>4, <2>6
<1>4. SpacesApart'
  BY <1>3 DEF LoaderInv, SpacesApart
<1> QED BY <1>1, <1>2, <1>3, <1>4

-----------------------------------------------------------------------------
(* Boot *)

\* While nothing but the kernel is mapped there is no other space.
LEMMA NoSpaces ==
    ASSUME LoaderInv, stage \in {"heap", "apic"}
    PROVE  Spaces = {} /\ loaded = {} /\ job.space = None /\ job.pos \in Nat \ {0}
BY DEF LoaderInv, StageInv, Spaces

\* The job when only its position changes.
LEMMA PosSet ==
    ASSUME JobType, NEW pos, job' = [job EXCEPT !.pos = pos], UNCHANGED loaded
    PROVE  /\ job' = [image |-> job.image, space |-> job.space, seg |-> job.seg, pos |-> pos]
           /\ JobType' /\ Spaces' = Spaces /\ job'.space = job.space /\ job'.pos = pos
<1>1. PICK im, sp, sg, ps : job = [image |-> im, space |-> sp, seg |-> sg, pos |-> ps]
  BY DEF JobType
<1>2. job' = [image |-> im, space |-> sp, seg |-> sg, pos |-> pos]
  BY <1>1
<1>3. job.image = im /\ job.space = sp /\ job.seg = sg
  BY <1>1
<1>4. JobType'
  BY <1>2, <1>3 DEF JobType
<1>5. job'.space = job.space /\ job'.pos = pos
  BY <1>2, <1>3
<1>6. Spaces' = Spaces
  BY <1>5 DEF Spaces
<1> QED BY <1>2, <1>3, <1>4, <1>5, <1>6

LEMMA Halts ==
    ASSUME LoaderInv, Panic, UNCHANGED <<pml4, table>>, free' \subseteq free
    PROVE  LoaderInv'
<1>1. Spaces' = Spaces /\ JobType'
  BY DEF Panic, Spaces, LoaderInv, JobType
<1>2. MemoryType' /\ SpacesApart' /\ KernelShared'
  BY <1>1, NothingMapped
<1>3. StageInv' /\ DeviceInv'
  BY DEF Panic, StageInv, DeviceInv, Building
<1> QED BY <1>1, <1>2, <1>3 DEF LoaderInv

\* A frame that map_page_alloc has taken and lost is not free any more.
LEMMA AllocFails ==
    ASSUME NEW space, NEW page, map_page_alloc_fails(space, page)
    PROVE  UNCHANGED <<pml4, table>> /\ free' \subseteq free
BY DEF map_page_alloc_fails, Rest

LEMMA HeapInit ==
    ASSUME LoaderInv, heap_init
    PROVE  LoaderInv'
<1>1. stage = "heap" /\ job.pos <= Len(HeapPages)
  BY DEF heap_init
<1>2. Spaces = {} /\ loaded = {} /\ job.space = None /\ job.pos \in Nat \ {0} /\ JobType
  BY <1>1, NoSpaces DEF LoaderInv
<1>3. PICK page \in Nat : page = HeapPages[job.pos] /\ SlotOf(page) \in KernelSlots
  BY <1>1, <1>2, LayoutAssumption
<1>4. CASE map_page_alloc_fails(KERNEL, page) /\ Panic
  BY <1>4, AllocFails, Halts
<1>5. CASE /\ map_page_alloc(KERNEL, page, TRUE)
           /\ job' = [job EXCEPT !.pos = @ + 1] /\ UNCHANGED <<stage, loaded, failed>>
  <2>1. PICK pos : pos = job.pos + 1
    OBVIOUS
  <2>2. job' = [job EXCEPT !.pos = pos]
    BY <1>5, <2>1
  <2>3. pos \in Nat \ {0}
    BY <1>2, <2>1
  <2>4. JobType' /\ Spaces' = Spaces /\ job'.space = None /\ job'.pos = pos
    BY <1>2, <1>5, <2>2, PosSet
  <2>5. Accounted(Spaces, KERNEL, SlotOf(page))
    BY <1>3 DEF Accounted
  <2>6. /\ MemoryType' /\ SpacesApart'
        /\ \A h \in Holdings' : h \in Holdings \/ h[4] \in Frames
    BY <1>5, <2>4, <2>5, MapPageAlloc
  <2>7. KernelShared'
    BY <1>2, <2>4 DEF KernelShared
  <2>8. StageInv'
    BY <1>1, <1>2, <1>5, <2>3, <2>4 DEF StageInv, Building
  <2>9. DeviceInv'
    BY <1>1, <1>5, <2>6 DEF LoaderInv, DeviceInv, Tables
  <2> QED BY <2>4, <2>6, <2>7, <2>8, <2>9 DEF LoaderInv
<1> QED BY <1>3, <1>4, <1>5 DEF heap_init

LEMMA HeapReady ==
    ASSUME LoaderInv, heap_ready
    PROVE  LoaderInv'
<1>1. /\ stage = "heap" /\ stage' = "apic" /\ job' = [job EXCEPT !.pos = 1]
      /\ UNCHANGED <<free, pml4, table, loaded>>
  BY DEF heap_ready, memory
<1>2. loaded = {} /\ job.space = None /\ JobType
  BY <1>1, NoSpaces DEF LoaderInv
<1>3. JobType' /\ Spaces' = Spaces /\ job'.space = job.space /\ job'.pos = 1
  BY <1>1, <1>2, PosSet
<1>4. MemoryType' /\ SpacesApart' /\ KernelShared' /\ Holdings' \subseteq Holdings
  BY <1>1, <1>3, NothingMapped
<1>5. StageInv'
  BY <1>1, <1>2, <1>3 DEF StageInv, Building
<1>6. DeviceInv'
  BY <1>1, <1>4 DEF LoaderInv, DeviceInv
<1> QED BY <1>3, <1>4, <1>5, <1>6 DEF LoaderInv

LEMMA ApicInit ==
    ASSUME LoaderInv, apic_init
    PROVE  LoaderInv'
<1>1. stage = "apic" /\ job.pos <= Len(Devices)
  BY DEF apic_init
<1>2. /\ Spaces = {} /\ loaded = {} /\ job.space = None /\ job.pos \in Nat \ {0}
      /\ JobType /\ MemoryType /\ SpacesApart
  BY <1>1, NoSpaces DEF LoaderInv
<1>3. PICK n : n = job.pos
  OBVIOUS
<1>4. n \in 1 .. Len(Devices) /\ Len(Devices) \in Nat
  BY <1>1, <1>2, <1>3, DevicesAssumption
<1>5. PICK page \in Nat : page = Devices[n][1] /\ SlotOf(page) \in KernelSlots
  <2>1. Devices[n] \in Nat \X Nat
    BY <1>4, DevicesAssumption
  <2>2. Devices[n][1] \in Nat
    BY <2>1
  <2>3. SlotOf(Devices[n][1]) \in KernelSlots
    BY <1>4, LayoutAssumption
  <2> QED BY <2>2, <2>3
<1>6. PICK f : f = Devices[n][2]
  OBVIOUS
<1>7. PICK entry : entry = [frame |-> f, nx |-> FALSE]
  OBVIOUS
<1>8. CASE Panic /\ UNCHANGED memory
  BY <1>8, Halts DEF memory
<1>9. CASE /\ NeedsTable(KERNEL, page) => free # {}
           /\ map_to(KERNEL, page, entry, free)
           /\ job' = [job EXCEPT !.pos = @ + 1]
           /\ UNCHANGED <<bytes, stage, loaded, failed>>
  <2>1. PICK pos : pos = n + 1
    OBVIOUS
  <2>2. job' = [job EXCEPT !.pos = pos]
    BY <1>3, <1>9, <2>1
  <2>3. pos \in Nat \ {0} /\ pos - 1 = n
    BY <1>4, <2>1
  <2>4. JobType' /\ Spaces' = Spaces /\ job'.space = None /\ job'.pos = pos
    BY <1>2, <1>9, <2>2, PosSet
  <2>5. entry \in PTE /\ entry.frame = f /\ f \notin Frames /\ f \notin Tables
    BY <1>4, <1>6, <1>7, DevicesAssumption DEF PTE, Tables
  <2>6. f \notin free
    BY <1>2, <2>5 DEF MemoryType
  <2>7. ASSUME NEW h \in Holdings
        PROVE  h[4] # f /\ h[4] \in Tables \cup {Devices[i][2] : i \in 1 .. (n - 1)}
    <3>1. h[4] \in Tables \cup {Devices[i][2] : i \in 1 .. (n - 1)}
      BY <1>1, <1>3 DEF LoaderInv, DeviceInv
    <3>2. ASSUME NEW i \in 1 .. (n - 1)
          PROVE  Devices[i][2] # f
      <4>1. i \in 1 .. Len(Devices) /\ i # n
        BY <1>4
      <4> QED BY <4>1, <1>4, <1>6, DevicesAssumption
    <3> QED BY <3>1, <3>2, <2>5
  <2>8. PICK sp : sp = Spaces
    OBVIOUS
  <2>9. Spaces' = sp /\ \A s \in sp : s \in Frames
    BY <1>2, <2>4, <2>8
  <2>10. Accounted(sp, KERNEL, SlotOf(page))
    BY <1>5 DEF Accounted
  <2>11. PICK avail : avail = free
    OBVIOUS
  <2>12. /\ avail \subseteq free /\ (NeedsTable(KERNEL, page) => avail # {})
         /\ map_to(KERNEL, page, entry, avail) /\ entry.frame \notin avail
         /\ \A h \in Holdings : h[4] # entry.frame
    BY <1>9, <2>5, <2>6, <2>7, <2>11
  <2>13. /\ MemoryType' /\ SpacesApart'
         /\ \A h \in Holdings' : h \in Holdings \/ h[4] \in Frames \/ h[4] = entry.frame
    <3>1. MemoryType /\ SpacesApart /\ entry \in PTE
      BY <1>2, <2>5
    <3> QED BY ONLY <3>1, <2>8, <2>9, <2>10, <2>12, MapKeepsApart, Zenon
  <2>14. KernelShared'
    BY <1>2, <2>4 DEF KernelShared
  <2>15. StageInv'
    BY <1>1, <1>2, <1>9, <2>3, <2>4 DEF StageInv, Building
  <2>16. DeviceInv'
    <3>1. ASSUME NEW h \in Holdings'
          PROVE  h[4] \in Tables \cup {Devices[i][2] : i \in 1 .. n}
      <4>1. h \in Holdings \/ h[4] \in Frames \/ h[4] = f
        BY <2>5, <2>13
      <4>2. n \in 1 .. n /\ \A i \in 1 .. (n - 1) : i \in 1 .. n
        BY <1>4
      <4> QED BY <4>1, <4>2, <2>7, <1>6 DEF Tables
    <3>2. stage' = "apic" /\ job'.pos - 1 = n
      BY <1>1, <1>9, <2>3, <2>4
    <3> QED BY <3>1, <3>2 DEF DeviceInv
  <2> QED BY <2>4, <2>13, <2>14, <2>15, <2>16 DEF LoaderInv
<1>10. IF is_mapped(KERNEL, page) \/ (NeedsTable(KERNEL, page) /\ free = {})
      THEN Panic /\ UNCHANGED memory
      ELSE /\ map_to(KERNEL, page, entry, free)
           /\ job' = [job EXCEPT !.pos = @ + 1]
           /\ UNCHANGED <<bytes, stage, loaded, failed>>
  BY <1>3, <1>5, <1>6, <1>7 DEF apic_init
<1>11. CASE is_mapped(KERNEL, page) \/ (NeedsTable(KERNEL, page) /\ free = {})
  BY <1>8, <1>10, <1>11
<1>12. CASE ~(is_mapped(KERNEL, page) \/ (NeedsTable(KERNEL, page) /\ free = {}))
  BY <1>9, <1>10, <1>12
<1> QED BY <1>11, <1>12

LEMMA ApicReady ==
    ASSUME LoaderInv, apic_ready
    PROVE  LoaderInv'
<1>1. /\ stage = "apic" /\ stage' = "idle" /\ job' = Idle
      /\ UNCHANGED <<free, pml4, table, loaded>>
  BY DEF apic_ready, memory
<1>2. loaded = {} /\ Spaces = {}
  BY <1>1, NoSpaces
<1>3. JobType' /\ Spaces' = {}
  BY <1>1, <1>2 DEF Idle, JobType, Spaces
<1>4. MemoryType' /\ SpacesApart' /\ KernelShared'
  BY <1>1, <1>3, NothingMapped
<1>5. StageInv' /\ DeviceInv'
  BY <1>1 DEF StageInv, DeviceInv, Building
<1> QED BY <1>3, <1>4, <1>5 DEF LoaderInv

-----------------------------------------------------------------------------
(* spawn_elf *)

\* The new space holds its PML4, and the kernel's half as the kernel has it.
LEMMA New ==
    ASSUME LoaderInv, NEW image \in Images, new(image), free # {}
    PROVE  LoaderInv'
<1>1. MemoryType /\ SpacesApart /\ JobType /\ KernelShared
  BY DEF LoaderInv
<1>2. PICK f : f = Min(free)
  OBVIOUS
<1>3. f \in free /\ f \in Frames /\ f # KERNEL /\ f # None
  <2>1. free \subseteq Nat
    BY <1>1, FramesAssumption DEF MemoryType
  <2> QED BY <2>1, <1>1, <1>2, FramesAssumption, MinIsIn DEF MemoryType
<1>4. PICK map : map = [s \in Slots |-> IF s \in KernelSlots THEN pml4[KERNEL][s] ELSE None]
  OBVIOUS
<1>5. /\ free' = free \ {f} /\ pml4' = [pml4 EXCEPT ![f] = map] /\ stage' = "header"
      /\ job' = [image |-> image, space |-> f, seg |-> 0, pos |-> 0]
      /\ UNCHANGED <<table, loaded>>
  BY <1>2, <1>4 DEF new, CopiedSlots
<1>6. map \in [Slots -> Tables \cup {None}]
  BY <1>1, <1>4 DEF MemoryType
<1>7. /\ pml4' \in [Frames \cup {KERNEL} -> [Slots -> Tables \cup {None}]] /\ pml4'[f] = map
      /\ \A s \in Frames \cup {KERNEL} : s # f => pml4'[s] = pml4[s]
  BY <1>1, <1>3, <1>5, <1>6 DEF MemoryType
<1>8. MemoryType'
  BY <1>1, <1>5, <1>7 DEF MemoryType
<1>9. JobType' /\ job'.space = f /\ job'.image = image
  BY <1>1, <1>3, <1>5 DEF JobType
<1>10. PICK sp : sp = Spaces
  OBVIOUS
<1>11. PICK sq : sq = Spaces'
  OBVIOUS
<1>12. \A s \in sp : s \in Frames
  BY <1>1, <1>10, SpacesAreFrames
<1>13. sq \subseteq sp \cup {f}
  BY <1>5, <1>9, <1>10, <1>11 DEF Spaces
<1>14. KernelShared'
  <2> SUFFICES ASSUME NEW s \in sq, NEW k \in KernelSlots
               PROVE  pml4'[s][k] = pml4'[KERNEL][k]
    BY <1>11 DEF KernelShared
  <2>1. pml4'[KERNEL][k] = pml4[KERNEL][k]
    BY <1>3, <1>7
  <2>2. CASE s = f
    BY <2>1, <2>2, <1>4, <1>7, SlotsAre
  <2>3. CASE s # f
    BY <2>1, <2>3, <1>1, <1>7, <1>10, <1>12, <1>13 DEF KernelShared
  <2> QED BY <2>2, <2>3
\* A slot that is accounted and not empty was so before.
<1>15. ASSUME NEW s, NEW k, Accounted(sq, s, k), pml4'[s][k] # None
       PROVE  Accounted(sp, s, k) /\ pml4'[s] = pml4[s]
  <2>1. CASE s = KERNEL /\ k \in KernelSlots
    BY <2>1, <1>3, <1>7 DEF Accounted
  <2>2. CASE s \in sq /\ k \in Slots \ KernelSlots
    <3>1. s # f
      BY <2>2, <1>4, <1>7, <1>15
    <3> QED BY <2>2, <3>1, <1>7, <1>12, <1>13 DEF Accounted
  <2> QED BY <2>1, <2>2, <1>15 DEF Accounted
<1>16. Holdings = HoldingsOf(pml4, table, sp)
  BY <1>10, HoldingsNow
<1>17. Holdings' = HoldingsOf(pml4', table', sq)
  BY <1>11 DEF Holdings, HoldingsOf, Under, UnderOf, is_mapped, translate, EntryOf
<1>18. ASSUME NEW h \in Holdings'
       PROVE  h \in Holdings \/ h = <<f, "pml4", 0, f>>
  <2>1. CASE \E s, k : /\ Accounted(sq, s, k) /\ pml4'[s][k] # None
                       /\ h = <<s, "table", k, pml4'[s][k]>>
    <3>1. \E s, k : /\ Accounted(sp, s, k) /\ pml4[s][k] # None
                    /\ h = <<s, "table", k, pml4[s][k]>>
      BY <2>1, <1>15
    <3> QED BY <3>1, <1>16, HoldingsAre
  <2>2. CASE \E s, p : /\ p \in 0 .. (2 * Half * Entries - 1)
                       /\ Accounted(sq, s, SlotOf(p)) /\ EntryOf(pml4', table', s, p) # None
                       /\ h = <<s, "page", p, EntryOf(pml4', table', s, p).frame>>
    <3>1. PICK s, p : /\ p \in 0 .. (2 * Half * Entries - 1)
                      /\ Accounted(sq, s, SlotOf(p)) /\ EntryOf(pml4', table', s, p) # None
                      /\ h = <<s, "page", p, EntryOf(pml4', table', s, p).frame>>
      BY <2>2
    <3>2. pml4'[s][SlotOf(p)] # None
      BY <3>1 DEF EntryOf
    <3>3. Accounted(sp, s, SlotOf(p)) /\ pml4'[s] = pml4[s]
      BY <3>1, <3>2, <1>15
    <3>4. EntryOf(pml4', table', s, p) = EntryOf(pml4, table, s, p)
      BY <3>3, <1>5 DEF EntryOf
    <3> QED BY <3>1, <3>3, <3>4, <1>16, HoldingsAre
  <2>3. CASE \E s \in sq : h = <<s, "pml4", 0, s>>
    BY <2>3, <1>13, <1>16, HoldingsAre
  <2> QED BY <2>1, <2>2, <2>3, <1>17, HoldingsAre
<1>19. SpacesApart'
  <2>1. \A h \in Holdings : h[4] \notin free /\ h[4] # f
    BY <1>1, <1>3 DEF SpacesApart
  <2>2. \A h \in Holdings' : h[4] \notin free'
    BY <2>1, <1>5, <1>18
  <2>3. \A g, h \in Holdings' : g[4] = h[4] => g = h
    BY <2>1, <1>1, <1>18 DEF SpacesApart
  <2> QED BY <2>2, <2>3 DEF SpacesApart
<1>20. StageInv' /\ DeviceInv'
  BY <1>3, <1>5, <1>9 DEF StageInv, DeviceInv, Building
<1> QED BY <1>8, <1>9, <1>14, <1>19, <1>20 DEF LoaderInv

\* An error of spawn_elf leaks what the space has, and disturbs nobody.
LEMMA Fails ==
    ASSUME LoaderInv, Fail, UNCHANGED <<pml4, table>>, free' \subseteq free
    PROVE  LoaderInv'
<1>1. JobType' /\ Spaces' \subseteq Spaces
  BY DEF Fail, Idle, LoaderInv, JobType, Spaces
<1>2. MemoryType' /\ SpacesApart' /\ KernelShared'
  BY <1>1, NothingMapped
<1>3. StageInv' /\ DeviceInv'
  BY DEF Fail, StageInv, DeviceInv, Building
<1> QED BY <1>1, <1>2, <1>3 DEF LoaderInv

LEMMA ContinueIs ==
    ASSUME JobType, NEW next, NEW seg, NEW pos, Continue(next, seg, pos)
    PROVE  /\ JobType' /\ Spaces' = Spaces /\ stage' = next /\ job'.space = job.space
           /\ job'.image = job.image /\ job'.seg = seg /\ job'.pos = pos /\ UNCHANGED loaded
<1>1. PICK im, sp, sg, ps : job = [image |-> im, space |-> sp, seg |-> sg, pos |-> ps]
  BY DEF JobType
<1>2. job' = [image |-> im, space |-> sp, seg |-> seg, pos |-> pos] /\ UNCHANGED loaded
  BY <1>1 DEF Continue
<1>3. job.image = im /\ job.space = sp
  BY <1>1
<1>4. JobType'
  BY <1>2, <1>3 DEF JobType
<1>5. job'.space = job.space /\ job'.pos = pos /\ job'.seg = seg /\ job'.image = job.image
  BY <1>2, <1>3
<1>6. Spaces' = Spaces
  BY <1>2, <1>5 DEF Spaces
<1> QED BY <1>2, <1>4, <1>5, <1>6 DEF Continue

\* What a step of spawn_elf needs to keep the stage's part of the invariant.
Ready(next, seg, pos) ==
  /\ next \in Building
  /\ next \in {"segment", "map", "copy", "zero"} => seg \in Nat \ {0}
  /\ next \in {"map", "copy", "zero"} =>
       seg \in 1 .. Len(job.image.headers) /\ job.image.headers[seg].load
  /\ next \in {"map", "stack"} => pos \in Nat

LEMMA Continues ==
    ASSUME LoaderInv, stage \in Building, NEW next, NEW seg, NEW pos,
           Continue(next, seg, pos), Ready(next, seg, pos),
           MemoryType', SpacesApart', KernelShared'
    PROVE  LoaderInv'
<1>1. JobType
  BY DEF LoaderInv
<1>2. /\ JobType' /\ Spaces' = Spaces /\ stage' = next /\ job'.space = job.space
      /\ job'.image = job.image /\ job'.seg = seg /\ job'.pos = pos /\ UNCHANGED loaded
  BY <1>1, ContinueIs
<1>3. job.space \in Frames /\ job.image \in Images
  BY DEF LoaderInv, StageInv
<1>4. next # "heap" /\ next # "apic"
  BY DEF Ready, Building
<1>5. StageInv'
  BY <1>2, <1>3, <1>4 DEF StageInv, Ready, Segment
<1>6. DeviceInv'
  BY <1>2, <1>4 DEF DeviceInv
<1> QED BY <1>2, <1>5, <1>6 DEF LoaderInv

\* A step of spawn_elf that maps nothing.
LEMMA ContinuesUnmapped ==
    ASSUME LoaderInv, stage \in Building, NEW next, NEW seg, NEW pos,
           Continue(next, seg, pos), Ready(next, seg, pos), UNCHANGED <<free, pml4, table>>
    PROVE  LoaderInv'
<1>1. Spaces' = Spaces
  BY ContinueIs DEF LoaderInv
<1>2. MemoryType' /\ SpacesApart' /\ KernelShared'
  BY <1>1, NothingMapped
<1> QED BY <1>2, Continues

\* A step of spawn_elf that maps a page of the lower half.
LEMMA ContinuesMapped ==
    ASSUME LoaderInv, stage \in Building, NEW next, NEW seg, NEW pos,
           Continue(next, seg, pos), Ready(next, seg, pos),
           NEW page \in Nat, page < Half * Entries,
           NEW nx \in BOOLEAN, map_page_alloc(job.space, page, nx)
    PROVE  LoaderInv'
<1>1. Spaces' = Spaces /\ JobType
  BY ContinueIs DEF LoaderInv
<1>2. PICK space : space = job.space
  OBVIOUS
<1>3. space \in Frames /\ space \in Spaces /\ space # KERNEL
  BY <1>2, FramesAssumption DEF LoaderInv, StageInv, Spaces
<1>4. SlotOf(page) \in Slots \ KernelSlots
  BY UserSlot
<1>5. Accounted(Spaces, space, SlotOf(page))
  BY <1>3, <1>4 DEF Accounted
<1>6. /\ MemoryType' /\ SpacesApart'
      /\ \A s \in Frames \cup {KERNEL}, k \in Slots :
           s # space \/ k # SlotOf(page) => pml4'[s][k] = pml4[s][k]
  BY <1>1, <1>2, <1>5, MapPageAlloc
<1>7. KernelShared'
  <2> SUFFICES ASSUME NEW s \in Spaces, NEW k \in KernelSlots
               PROVE  pml4'[s][k] = pml4'[KERNEL][k]
    BY <1>1 DEF KernelShared
  <2>1. k \in Slots /\ k # SlotOf(page) /\ s \in Frames
    BY <1>1, <1>4, SlotsAre, SpacesAreFrames
  <2>2. pml4'[s][k] = pml4[s][k] /\ pml4'[KERNEL][k] = pml4[KERNEL][k]
    BY <1>6, <2>1
  <2> QED BY <2>2 DEF LoaderInv, KernelShared
<1> QED BY <1>6, <1>7, Continues

\* A loadable segment of an image lies in the lower half.
LEMMA SegmentInLowerHalf ==
    ASSUME LoaderInv, stage \in {"map", "copy", "zero"}
    PROVE  /\ Segment \in Header /\ PageOf(Segment.vaddr) \in Nat
           /\ EndPage(Segment) \in Nat /\ EndPage(Segment) <= Half * Entries
<1>1. job.image \in Images /\ job.seg \in 1 .. Len(job.image.headers) /\ Segment.load
  BY DEF LoaderInv, StageInv, Building
<1>2. Segment \in Header
  BY <1>1, ImagesAssumption DEF Segment
<1>3. Segment.vaddr \in Nat /\ Segment.memsz \in Nat
  BY <1>2 DEF Header
<1>4. PAGE_SIZE \in Nat /\ PAGE_SIZE > 0
  BY SizesAssumption
<1>5. PageOf(Segment.vaddr) \in Nat /\ EndPage(Segment) \in Nat
  BY <1>3, <1>4 DEF PageOf, EndPage
<1>6. EndPage(Segment) <= Half * Entries
  BY <1>1, ImagesAssumption DEF Segment, EndPage
<1> QED BY <1>2, <1>5, <1>6

LEMMA SpawnStep ==
    ASSUME LoaderInv,
           \/ \E image \in Images : new(image)
           \/ check_header \/ next_segment \/ map_segment \/ check_bounds
           \/ write \/ write_fails \/ written \/ zero \/ zeroed
           \/ check_entry \/ map_stack \/ add_task
    PROVE  LoaderInv'
<1>0. ASSUME Fail, UNCHANGED memory
      PROVE  LoaderInv'
  BY <1>0, Fails DEF memory
<1>1. CASE \E image \in Images : new(image)
  <2>1. PICK image \in Images : new(image)
    BY <1>1
  <2>2. CASE free = {}
    BY <2>1, <2>2, <1>0 DEF new
  <2>3. CASE free # {}
    BY <2>1, <2>3, New
  <2> QED BY <2>2, <2>3
<1>2. CASE check_header
  <2>1. stage \in Building /\ UNCHANGED <<free, pml4, table>> /\ UNCHANGED memory
    BY <1>2 DEF check_header, Building, memory
  <2>2. Ready("segment", 1, 0)
    BY DEF Ready, Building
  <2> QED BY <1>0, <1>2, <2>1, <2>2, ContinuesUnmapped DEF check_header
<1>3. CASE next_segment
  <2>1. stage \in Building /\ UNCHANGED <<free, pml4, table>> /\ UNCHANGED memory
    BY <1>3 DEF next_segment, Building, memory
  <2>2. job.seg \in Nat \ {0} /\ job.image \in Images
    BY <1>3 DEF next_segment, LoaderInv, StageInv, Building
  <2>3. CASE Continue("entry", job.seg, 0)
    <3>1. Ready("entry", job.seg, 0)
      BY DEF Ready, Building
    <3> QED BY <2>1, <2>3, <3>1, ContinuesUnmapped
  <2>4. CASE Fail
    BY <1>0, <2>1, <2>4
  <2>5. CASE /\ job.seg <= Len(job.image.headers) /\ Segment.load
             /\ Continue("map", job.seg, PageOf(Segment.vaddr))
    <3>1. job.image.headers \in Seq(Header) /\ job.seg \in 1 .. Len(job.image.headers)
      BY <2>2, <2>5, ImagesAssumption
    <3>2. Segment.vaddr \in Nat
      <4>1. Segment \in Header
        BY <3>1 DEF Segment
      <4> QED BY <4>1 DEF Header
    <3>3. PageOf(Segment.vaddr) \in Nat
      BY <3>2, SizesAssumption DEF PageOf
    <3>4. Ready("map", job.seg, PageOf(Segment.vaddr))
      BY <2>2, <2>5, <3>1, <3>3 DEF Ready, Building, Segment
    <3> QED BY <2>1, <2>5, <3>4, ContinuesUnmapped
  <2>6. CASE Continue("segment", job.seg + 1, 0)
    <3>1. Ready("segment", job.seg + 1, 0)
      BY <2>2 DEF Ready, Building
    <3> QED BY <2>1, <2>6, <3>1, ContinuesUnmapped
  <2> QED BY <1>3, <2>3, <2>4, <2>5, <2>6 DEF next_segment
<1>4. CASE map_segment
  <2>1. stage \in Building /\ stage = "map"
    BY <1>4 DEF map_segment, Building
  <2>2. /\ job.pos \in Nat /\ job.seg \in Nat \ {0}
        /\ job.seg \in 1 .. Len(job.image.headers) /\ Segment.load
    BY <2>1 DEF LoaderInv, StageInv
  <2>3. Ready("map", job.seg, job.pos + 1)
    BY <2>2 DEF Ready, Building, Segment
  <2>4. job.pos < Half * Entries
    <3>1. EndPage(Segment) \in Nat /\ EndPage(Segment) <= Half * Entries
      BY <2>1, SegmentInLowerHalf
    <3>2. job.pos < EndPage(Segment) /\ Half * Entries \in Nat
      BY <1>4, SizesAssumption DEF map_segment
    <3> QED BY <2>2, <3>1, <3>2
  <2>5. CASE Continue("map", job.seg, job.pos + 1) /\ UNCHANGED memory
    BY <2>1, <2>3, <2>5, ContinuesUnmapped DEF memory
  <2>6. CASE map_page_alloc(job.space, job.pos, ~Segment.x) /\ Continue("map", job.seg, job.pos + 1)
    <3>1. PICK nx \in BOOLEAN : nx = ~Segment.x
      OBVIOUS
    <3>2. PICK page \in Nat : page = job.pos
      BY <2>2
    <3>3. map_page_alloc(job.space, page, nx) /\ page < Half * Entries
      BY <2>4, <2>6, <3>1, <3>2
    <3> QED BY <2>1, <2>3, <2>6, <3>3, ContinuesMapped
  <2>7. CASE map_page_alloc_fails(job.space, job.pos) /\ Fail
    BY <2>7, AllocFails, Fails
  <2> QED BY <1>4, <2>5, <2>6, <2>7 DEF map_segment
<1>5. CASE check_bounds
  <2>1. stage \in Building /\ stage = "map" /\ UNCHANGED <<free, pml4, table>> /\ UNCHANGED memory
    BY <1>5 DEF check_bounds, Building, memory
  <2>2. Ready("copy", job.seg, 0)
    BY <2>1 DEF Ready, Building, LoaderInv, StageInv, Segment
  <2> QED BY <1>0, <1>5, <2>1, <2>2, ContinuesUnmapped DEF check_bounds
<1>6. CASE write
  <2>1. PICK pos : Continue("copy", job.seg, pos)
    BY <1>6 DEF write
  <2>2. stage \in Building /\ stage = "copy" /\ UNCHANGED <<free, pml4, table>>
    BY <1>6 DEF write, Store, Building
  <2>3. Ready("copy", job.seg, pos)
    BY <2>2 DEF Ready, Building, LoaderInv, StageInv, Segment
  <2> QED BY <2>1, <2>2, <2>3, ContinuesUnmapped
<1>7. CASE write_fails
  BY <1>0, <1>7 DEF write_fails
<1>8. CASE written
  <2>1. stage \in Building /\ stage = "copy" /\ UNCHANGED <<free, pml4, table>>
        /\ Continue("zero", job.seg, 0)
    BY <1>8 DEF written, Building, memory
  <2>2. Ready("zero", job.seg, 0)
    BY <2>1 DEF Ready, Building, LoaderInv, StageInv, Segment
  <2> QED BY <2>1, <2>2, ContinuesUnmapped
<1>9. CASE zero
  <2>1. PICK pos : Continue("zero", job.seg, pos)
    BY <1>9 DEF zero
  <2>2. stage \in Building /\ stage = "zero" /\ UNCHANGED <<free, pml4, table>>
    BY <1>9 DEF zero, Store, Building
  <2>3. Ready("zero", job.seg, pos)
    BY <2>2 DEF Ready, Building, LoaderInv, StageInv, Segment
  <2> QED BY <2>1, <2>2, <2>3, ContinuesUnmapped
<1>10. CASE zeroed
  <2>1. stage \in Building /\ stage = "zero" /\ UNCHANGED <<free, pml4, table>>
        /\ Continue("segment", job.seg + 1, 0)
    BY <1>10 DEF zeroed, Building, memory
  <2>2. Ready("segment", job.seg + 1, 0)
    BY <2>1 DEF Ready, Building, LoaderInv, StageInv
  <2> QED BY <2>1, <2>2, ContinuesUnmapped
<1>11. CASE check_entry
  <2>1. stage \in Building /\ UNCHANGED <<free, pml4, table>> /\ UNCHANGED memory
    BY <1>11 DEF check_entry, Building, memory
  <2>2. Ready("stack", 0, 0)
    BY DEF Ready, Building
  <2> QED BY <1>0, <1>11, <2>1, <2>2, ContinuesUnmapped DEF check_entry
<1>12. CASE map_stack
  <2>1. stage \in Building /\ stage = "stack"
    BY <1>12 DEF map_stack, Building
  <2>2. job.pos \in Nat
    BY <2>1 DEF LoaderInv, StageInv
  <2>3. Ready("stack", 0, job.pos + 1)
    BY <2>2 DEF Ready, Building
  <2>4. PICK page \in Nat : page = StackTop - job.pos /\ page < Half * Entries
    <3>1. job.pos < user_stack_pages
      BY <1>12 DEF map_stack
    <3>2. /\ StackTop \in Nat /\ StackTop < Half * Entries /\ Half * Entries \in Nat
          /\ user_stack_pages \in Nat /\ StackTop - user_stack_pages >= 0
      BY LayoutAssumption, SizesAssumption DEF UserPages
    <3>3. StackTop - job.pos \in Nat /\ StackTop - job.pos < Half * Entries
      BY <2>2, <3>1, <3>2
    <3> QED BY <3>3
  <2>5. CASE map_page_alloc(job.space, page, TRUE) /\ Continue("stack", 0, job.pos + 1)
    BY <2>1, <2>3, <2>4, <2>5, ContinuesMapped
  <2>6. CASE map_page_alloc_fails(job.space, page) /\ Fail
    BY <2>6, AllocFails, Fails
  <2> QED BY <1>12, <2>4, <2>5, <2>6 DEF map_stack
<1>13. CASE add_task
  <2>1. /\ stage = "stack" /\ stage' = "idle" /\ job' = Idle
        /\ loaded' = loaded \cup {[image |-> job.image, space |-> job.space]}
        /\ UNCHANGED <<free, pml4, table>>
    BY <1>13 DEF add_task, memory
  <2>2. job.space \in Frames
    BY <2>1 DEF LoaderInv, StageInv, Building
  <2>3. JobType'
    BY <2>1, <2>2 DEF Idle, JobType, LoaderInv
  <2>4. Spaces' \subseteq Spaces
    BY <2>1, <2>2, FramesAssumption DEF Spaces, Idle
  <2>5. MemoryType' /\ SpacesApart' /\ KernelShared'
    BY <2>1, <2>4, NothingMapped
  <2>6. StageInv' /\ DeviceInv'
    BY <2>1 DEF StageInv, DeviceInv, Building
  <2> QED BY <2>3, <2>5, <2>6 DEF LoaderInv
<1> QED BY <1>1, <1>2, <1>3, <1>4, <1>5, <1>6, <1>7, <1>8, <1>9, <1>10, <1>11, <1>12, <1>13

LEMMA LoaderUnchanged ==
    ASSUME LoaderInv, UNCHANGED vars
    PROVE  LoaderInv'
<1>1. UNCHANGED <<free, pml4, table, stage, job, loaded>>
  BY DEF vars
<1>2. Spaces' = Spaces
  BY <1>1 DEF Spaces
<1>3. MemoryType' /\ SpacesApart' /\ KernelShared' /\ Holdings' \subseteq Holdings
  BY <1>1, <1>2, NothingMapped
<1>4. JobType' /\ StageInv'
  BY <1>1 DEF LoaderInv, JobType, StageInv, Segment
<1>5. DeviceInv'
  BY <1>1, <1>3 DEF LoaderInv, DeviceInv
<1> QED BY <1>3, <1>4, <1>5 DEF LoaderInv

LEMMA LoaderInvariant == Spec => []LoaderInv
<1>1. LoaderInv /\ [Next]_vars => LoaderInv'
  <2>1. ASSUME LoaderInv, Next
        PROVE  LoaderInv'
    <3>1. CASE heap_init \/ heap_ready \/ apic_init \/ apic_ready
      BY <2>1, <3>1, HeapInit, HeapReady, ApicInit, ApicReady
    <3>2. CASE halted
      BY <2>1, <3>2, LoaderUnchanged DEF halted
    <3> QED BY <2>1, <3>1, <3>2, SpawnStep DEF Next
  <2> QED BY <2>1, LoaderUnchanged
<1> QED BY <1>1, LoaderInit, PTL DEF Spec

-----------------------------------------------------------------------------
(* The theorems *)

(***************************************************************************)
(* However often spawn_elf succeeds or fails, and wherever memory runs     *)
(* out: no frame serves as the PML4, a table or a page of two spaces, or   *)
(* of two places of one, and none of them is still free.                   *)
(***************************************************************************)
THEOREM FramesApart == Spec => []SpacesApart
<1>1. LoaderInv => SpacesApart
  BY DEF LoaderInv
<1> QED BY <1>1, LoaderInvariant, PTL

(***************************************************************************)
(* Every space translates every page of the upper half as the kernel does, *)
(* the one that is being built included.                                   *)
(***************************************************************************)
THEOREM KernelIsShared == Spec => []KernelHalfShared
<1>1. LoaderInv => KernelHalfShared
  <2> SUFFICES ASSUME LoaderInv, NEW s \in Spaces,
                      NEW p \in Half * Entries .. 2 * Half * Entries - 1
               PROVE  translate(s, p) = translate(KERNEL, p)
    BY DEF KernelHalfShared
  <2>1. SlotOf(p) \in KernelSlots
    BY KernelSlot
  <2>2. pml4[s][SlotOf(p)] = pml4[KERNEL][SlotOf(p)]
    BY <2>1 DEF LoaderInv, KernelShared
  <2> QED BY <2>2 DEF translate
<1> QED BY <1>1, LoaderInvariant, PTL

-----------------------------------------------------------------------------
(* What a space shows of its image *)

LoadsUpTo(image, n) == {i \in 1 .. n : image.headers[i].load}

PagesUpTo(image, n) == UNION {SegmentPages(image.headers[i]) : i \in LoadsUpTo(image, n)}

\* The first m bytes of a segment, each as <<address, byte>>.
Cells(image, i, m) ==
  {<<image.headers[i].vaddr + k, image.file[image.headers[i].offset + k + 1]>> : k \in 0 .. (m - 1)}

CellsUpTo(image, n) ==
  UNION {Cells(image, i, image.headers[i].filesz) : i \in LoadsUpTo(image, n)}

Addr(page, offset) == page * PAGE_SIZE + offset

\* Memory with the cells W, and zeros elsewhere, holds b at an address.
Shows(W, addr, b) == IF \E c \in W : c[1] = addr THEN <<addr, b>> \in W ELSE b = 0

\* The lower half of a space is the pages X, which hold the cells W and zeros;
\* the page of the entry point, once it is there, may be executed.
View(pm, tb, by, space, entry, X, W) ==
  /\ X \subseteq UserPages
  /\ \A p \in UserPages : EntryOf(pm, tb, space, p) # None <=> p \in X
  /\ \A p \in X : EntryOf(pm, tb, space, p).frame \in Frames
  /\ \A c \in W : PageOf(c[1]) \in X
  /\ \A p \in X, o \in 0 .. (PAGE_SIZE - 1) :
       Shows(W, Addr(p, o), by[EntryOf(pm, tb, space, p).frame][o])
  /\ entry \in X => ~EntryOf(pm, tb, space, entry).nx

StackDownTo(pos) == (StackTop - pos + 1) .. StackTop

\* How far load_into has come with its n-th header, at each stage.
Progress(st, image, n, pos) ==
  LET s == image.headers[n]
  IN  /\ st \in {"segment", "map", "copy", "zero"} =>
           n - 1 <= image.phnum /\ n - 1 <= Len(image.headers)
      /\ st \in {"map", "copy", "zero"} => n <= image.phnum
      /\ st = "map" => pos \in PageOf(s.vaddr) .. EndPage(s)
      /\ st = "copy" => pos \in 0 .. s.filesz
      /\ st = "zero" => pos \in Nat
      /\ st \in {"entry", "stack"} => image.phnum <= Len(image.headers)
      /\ st = "stack" =>
           pos \in 0 .. user_stack_pages /\ PageOf(image.entry) \in PagesUpTo(image, image.phnum)

PagesAt(st, image, n, pos) ==
  CASE st = "header" -> {}
    [] st = "segment" -> PagesUpTo(image, n - 1)
    [] st = "map" -> PagesUpTo(image, n - 1) \cup (PageOf(image.headers[n].vaddr) .. (pos - 1))
    [] st \in {"copy", "zero"} -> PagesUpTo(image, n)
    [] st = "entry" -> PagesUpTo(image, image.phnum)
    [] st = "stack" -> PagesUpTo(image, image.phnum) \cup StackDownTo(pos)

CellsAt(st, image, n, pos) ==
  CASE st = "header" -> {}
    [] st \in {"segment", "map"} -> CellsUpTo(image, n - 1)
    [] st = "copy" -> CellsUpTo(image, n - 1) \cup Cells(image, n, pos)
    [] st = "zero" -> CellsUpTo(image, n)
    [] st \in {"entry", "stack"} -> CellsUpTo(image, image.phnum)

\* A space whose task was added.
Done(pm, tb, by, l) ==
  /\ l.image \in Images /\ l.image.phnum <= Len(l.image.headers)
  /\ PageOf(l.image.entry) \in PagesUpTo(l.image, l.image.phnum)
  /\ View(pm, tb, by, l.space, PageOf(l.image.entry),
          PagesUpTo(l.image, l.image.phnum) \cup StackDownTo(user_stack_pages),
          CellsUpTo(l.image, l.image.phnum))

BytesType == bytes = [f \in Frames |-> bytes[f]]

ImageInv ==
  /\ BytesType
  /\ stage \in Building =>
       /\ \A l \in loaded : l.space # job.space
       /\ Progress(stage, job.image, job.seg, job.pos)
       /\ View(pml4, table, bytes, job.space, PageOf(job.image.entry),
               PagesAt(stage, job.image, job.seg, job.pos),
               CellsAt(stage, job.image, job.seg, job.pos))
  /\ \A l \in loaded : Done(pml4, table, bytes, l)

-----------------------------------------------------------------------------
(* Pages and addresses *)

LEMMA AddressIs ==
    ASSUME NEW a \in Nat
    PROVE  /\ PageOf(a) \in Nat /\ a % PAGE_SIZE \in 0 .. (PAGE_SIZE - 1)
           /\ a = PageOf(a) * PAGE_SIZE + (a % PAGE_SIZE)
<1>1. PAGE_SIZE \in Nat /\ PAGE_SIZE > 0
  BY SizesAssumption
<1> QED BY <1>1 DEF PageOf

LEMMA PageOrder ==
    ASSUME NEW p \in Nat, NEW q \in Nat, NEW o \in 0 .. (PAGE_SIZE - 1),
           NEW r \in 0 .. (PAGE_SIZE - 1), p < q
    PROVE  p * PAGE_SIZE + o < q * PAGE_SIZE + r
<1>1. PAGE_SIZE \in Nat /\ PAGE_SIZE > 0
  BY SizesAssumption
<1>2. PICK d \in Nat : q = (p + 1) + d
  <2>1. q - (p + 1) \in Nat /\ q = (p + 1) + (q - (p + 1))
    OBVIOUS
  <2> QED BY <2>1
<1>3. q * PAGE_SIZE = p * PAGE_SIZE + PAGE_SIZE + d * PAGE_SIZE
  BY <1>1, <1>2
<1>4. d * PAGE_SIZE \in Nat /\ p * PAGE_SIZE \in Nat
  BY <1>1
<1> QED BY <1>1, <1>3, <1>4

\* An address is one offset in one page.
LEMMA AddressOf ==
    ASSUME NEW p \in Nat, NEW o \in 0 .. (PAGE_SIZE - 1)
    PROVE  /\ p * PAGE_SIZE + o \in Nat
           /\ PageOf(p * PAGE_SIZE + o) = p /\ (p * PAGE_SIZE + o) % PAGE_SIZE = o
<1>1. PAGE_SIZE \in Nat /\ PAGE_SIZE > 0 /\ p * PAGE_SIZE \in Nat
  BY SizesAssumption
<1>2. PICK a \in Nat : a = p * PAGE_SIZE + o
  <2>1. p * PAGE_SIZE + o \in Nat
    BY <1>1
  <2> QED BY <2>1
<1>3. PICK q \in Nat : q = PageOf(a)
  BY AddressIs
<1>4. PICK r \in 0 .. (PAGE_SIZE - 1) : r = a % PAGE_SIZE
  BY AddressIs
<1>5. a = q * PAGE_SIZE + r
  BY <1>3, <1>4, AddressIs
<1>6. a = p * PAGE_SIZE + o /\ a \in Nat
  BY <1>2
<1>7. ~ (p < q) /\ ~ (q < p)
  <2>1. ASSUME p < q PROVE FALSE
    <3>1. p * PAGE_SIZE + o < q * PAGE_SIZE + r
      BY <2>1, PageOrder
    <3> QED BY <1>5, <1>6, <3>1
  <2>2. ASSUME q < p PROVE FALSE
    <3>1. q * PAGE_SIZE + r < p * PAGE_SIZE + o
      BY <2>2, PageOrder
    <3> QED BY <1>5, <1>6, <3>1
  <2> QED BY <2>1, <2>2
<1>8. p = q
  BY <1>7
<1>9. o = r
  BY <1>1, <1>5, <1>6, <1>8
<1> QED BY <1>2, <1>3, <1>4, <1>8, <1>9

LEMMA AddrIs ==
    ASSUME NEW p \in Nat, NEW o \in 0 .. (PAGE_SIZE - 1)
    PROVE  Addr(p, o) \in Nat /\ PageOf(Addr(p, o)) = p /\ Addr(p, o) % PAGE_SIZE = o
BY AddressOf DEF Addr

LEMMA PageMonotone ==
    ASSUME NEW a \in Nat, NEW b \in Nat, a <= b
    PROVE  PageOf(a) <= PageOf(b)
<1>1. PICK p \in Nat, o \in 0 .. (PAGE_SIZE - 1) :
        p = PageOf(a) /\ o = a % PAGE_SIZE /\ a = p * PAGE_SIZE + o
  BY AddressIs
<1>2. PICK q \in Nat, r \in 0 .. (PAGE_SIZE - 1) :
        q = PageOf(b) /\ r = b % PAGE_SIZE /\ b = q * PAGE_SIZE + r
  BY AddressIs
<1>3. ~ (q < p)
  <2> SUFFICES ASSUME q < p PROVE FALSE
    OBVIOUS
  <2>1. q * PAGE_SIZE + r < p * PAGE_SIZE + o
    BY PageOrder
  <2> QED BY <1>1, <1>2, <2>1
<1> QED BY <1>1, <1>2, <1>3

LEMMA NextPage ==
    ASSUME NEW a \in Nat
    PROVE  PageOf(a + PAGE_SIZE) = PageOf(a) + 1
<1>1. PICK p \in Nat, o \in 0 .. (PAGE_SIZE - 1) :
        p = PageOf(a) /\ a = p * PAGE_SIZE + o
  BY AddressIs
<1>2. a + PAGE_SIZE = (p + 1) * PAGE_SIZE + o
  BY <1>1, SizesAssumption
<1>3. PageOf((p + 1) * PAGE_SIZE + o) = p + 1
  BY AddressOf
<1> QED BY <1>1, <1>2, <1>3

\* Bytes of one page, counted from one of them.
LEMMA WithinPage ==
    ASSUME NEW a \in Nat, NEW k \in Nat, (a % PAGE_SIZE) + k < PAGE_SIZE
    PROVE  PageOf(a + k) = PageOf(a) /\ (a + k) % PAGE_SIZE = (a % PAGE_SIZE) + k
<1>1. PICK p \in Nat, o \in 0 .. (PAGE_SIZE - 1) :
        p = PageOf(a) /\ o = a % PAGE_SIZE /\ a = p * PAGE_SIZE + o
  BY AddressIs
<1>2. PICK r \in 0 .. (PAGE_SIZE - 1) : r = o + k
  BY <1>1, SizesAssumption
<1>3. a + k = p * PAGE_SIZE + r
  <2>1. PICK b \in Nat : b = p * PAGE_SIZE
    BY SizesAssumption
  <2>2. a = b + o
    BY <1>1, <2>1
  <2>3. o \in Nat /\ r = o + k
    BY <1>2, SizesAssumption
  <2> QED BY <2>1, <2>2, <2>3
<1>4. PageOf(p * PAGE_SIZE + r) = p /\ (p * PAGE_SIZE + r) % PAGE_SIZE = r
  BY AddressOf
<1> QED BY <1>1, <1>2, <1>3, <1>4

\* The pages load_into maps for a segment are those its addresses lie in.
LEMMA PagesOfSegment ==
    ASSUME NEW s \in Header, s.memsz = 0 => s.vaddr % PAGE_SIZE = 0
    PROVE  SegmentPages(s) =
             IF s.memsz > 0 THEN PageOf(s.vaddr) .. PageOf(s.vaddr + s.memsz - 1) ELSE {}
<1>1. s.vaddr \in Nat /\ s.memsz \in Nat /\ PAGE_SIZE \in Nat /\ PAGE_SIZE > 0
  BY SizesAssumption DEF Header
<1>2. CASE s.memsz > 0
  <2>1. PICK a \in Nat : a = s.vaddr + s.memsz - 1
    <3>1. s.vaddr + s.memsz - 1 \in Nat
      BY <1>1, <1>2
    <3> QED BY <3>1
  <2>2. EndPage(s) = PageOf(a + PAGE_SIZE)
    <3>1. s.vaddr + s.memsz + PAGE_SIZE - 1 = a + PAGE_SIZE
      BY <1>1, <2>1
    <3> QED BY <3>1 DEF EndPage
  <2>3. EndPage(s) = PageOf(a) + 1 /\ PageOf(a) \in Nat
    BY <2>2, NextPage, AddressIs
  <2>4. EndPage(s) - 1 = PageOf(a)
    BY <2>3
  <2> QED BY <1>2, <2>1, <2>4 DEF SegmentPages
<1>3. CASE s.memsz = 0
  <2>1. PICK v \in Nat, p \in Nat : v = s.vaddr /\ p = PageOf(v) /\ v = p * PAGE_SIZE + 0
    BY <1>1, <1>3, AddressIs
  <2>2. EndPage(s) = PageOf(p * PAGE_SIZE + (PAGE_SIZE - 1))
    <3>1. s.vaddr + s.memsz + PAGE_SIZE - 1 = p * PAGE_SIZE + (PAGE_SIZE - 1)
      BY <1>1, <1>3, <2>1
    <3> QED BY <3>1 DEF EndPage
  <2>3. PAGE_SIZE - 1 \in 0 .. (PAGE_SIZE - 1)
    BY <1>1
  <2>4. EndPage(s) = p
    BY <2>2, <2>3, AddressOf
  <2>5. SegmentPages(s) = p .. (p - 1)
    BY <2>1, <2>4 DEF SegmentPages
  <2>6. SegmentPages(s) = {}
    BY <2>5
  <2> QED BY <1>3, <2>6
<1> QED BY <1>1, <1>2, <1>3

-----------------------------------------------------------------------------
(* The pages and bytes of an image *)

LEMMA PagesIn ==
    ASSUME NEW image, NEW n, NEW p
    PROVE  p \in PagesUpTo(image, n) <=>
             \E i \in 1 .. n : image.headers[i].load /\ p \in SegmentPages(image.headers[i])
BY DEF PagesUpTo, LoadsUpTo

LEMMA CellsIn ==
    ASSUME NEW image, NEW n, NEW c
    PROVE  c \in CellsUpTo(image, n) <=>
             \E i \in 1 .. n : /\ image.headers[i].load
                               /\ c \in Cells(image, i, image.headers[i].filesz)
BY DEF CellsUpTo, LoadsUpTo

LEMMA NoneYet ==
    ASSUME NEW image
    PROVE  PagesUpTo(image, 0) = {} /\ CellsUpTo(image, 0) = {}
BY PagesIn, CellsIn

\* One more program header.
LEMMA OneMore ==
    ASSUME NEW image, NEW n \in Nat \ {0}
    PROVE  /\ PagesUpTo(image, n) =
                IF image.headers[n].load
                THEN PagesUpTo(image, n - 1) \cup SegmentPages(image.headers[n])
                ELSE PagesUpTo(image, n - 1)
           /\ CellsUpTo(image, n) =
                IF image.headers[n].load
                THEN CellsUpTo(image, n - 1) \cup Cells(image, n, image.headers[n].filesz)
                ELSE CellsUpTo(image, n - 1)
<1>1. \A i : i \in 1 .. n <=> i \in 1 .. (n - 1) \/ i = n
  OBVIOUS
<1>2. ASSUME NEW p
      PROVE  p \in PagesUpTo(image, n) <=>
               \/ p \in PagesUpTo(image, n - 1)
               \/ image.headers[n].load /\ p \in SegmentPages(image.headers[n])
  BY <1>1, PagesIn
<1>3. ASSUME NEW c
      PROVE  c \in CellsUpTo(image, n) <=>
               \/ c \in CellsUpTo(image, n - 1)
               \/ /\ image.headers[n].load
                  /\ c \in Cells(image, n, image.headers[n].filesz)
  BY <1>1, CellsIn
<1>4. PagesUpTo(image, n) =
        IF image.headers[n].load
        THEN PagesUpTo(image, n - 1) \cup SegmentPages(image.headers[n])
        ELSE PagesUpTo(image, n - 1)
  BY <1>2
<1>5. CellsUpTo(image, n) =
        IF image.headers[n].load
        THEN CellsUpTo(image, n - 1) \cup Cells(image, n, image.headers[n].filesz)
        ELSE CellsUpTo(image, n - 1)
  BY <1>3
<1> QED BY <1>4, <1>5

LEMMA HeaderIs ==
    ASSUME NEW image \in Images, NEW i \in 1 .. Len(image.headers)
    PROVE  /\ image.headers[i] \in Header
           /\ image.headers[i].vaddr \in Nat /\ image.headers[i].offset \in Nat
           /\ image.headers[i].filesz \in Nat /\ image.headers[i].memsz \in Nat
           /\ image.headers[i].load \in BOOLEAN /\ image.headers[i].x \in BOOLEAN
<1>1. image.headers[i] \in Header
  BY ImagesAssumption
<1> QED BY <1>1 DEF Header

CellAt(image, i, m, c) ==
  \E a \in image.headers[i].vaddr .. (image.headers[i].vaddr + m - 1) :
    c = <<a, image.file[image.headers[i].offset + a - image.headers[i].vaddr + 1]>>

\* A cell is one byte of the file, at an address of its segment.
LEMMA CellIs ==
    ASSUME NEW image \in Images, NEW i \in LoadHeaders(image), NEW m \in Nat,
           m <= image.headers[i].filesz, NEW c
    PROVE  c \in Cells(image, i, m) <=> CellAt(image, i, m, c)
<1>1. PICK v \in Nat, f \in Nat : v = image.headers[i].vaddr /\ f = image.headers[i].offset
  BY HeaderIs DEF LoadHeaders
<1>2. ASSUME NEW k \in 0 .. (m - 1)
      PROVE  v + k \in v .. (v + m - 1) /\ f + k + 1 = f + (v + k) - v + 1
  OBVIOUS
<1>3. ASSUME NEW a \in v .. (v + m - 1)
      PROVE  a - v \in 0 .. (m - 1) /\ f + (a - v) + 1 = f + a - v + 1 /\ v + (a - v) = a
  OBVIOUS
<1>4. c \in Cells(image, i, m) <=>
        \E k \in 0 .. (m - 1) : c = <<v + k, image.file[f + k + 1]>>
  BY <1>1 DEF Cells
<1>5. (\E k \in 0 .. (m - 1) : c = <<v + k, image.file[f + k + 1]>>) <=>
      (\E a \in v .. (v + m - 1) : c = <<a, image.file[f + a - v + 1]>>)
  <2>1. ASSUME NEW k \in 0 .. (m - 1), c = <<v + k, image.file[f + k + 1]>>
        PROVE  \E a \in v .. (v + m - 1) : c = <<a, image.file[f + a - v + 1]>>
    <3>1. PICK a \in v .. (v + m - 1) : a = v + k /\ f + k + 1 = f + a - v + 1
      BY <1>2
    <3>2. c = <<a, image.file[f + a - v + 1]>>
      BY <2>1, <3>1
    <3> QED BY <3>2
  <2>2. ASSUME NEW a \in v .. (v + m - 1), c = <<a, image.file[f + a - v + 1]>>
        PROVE  \E k \in 0 .. (m - 1) : c = <<v + k, image.file[f + k + 1]>>
    <3>1. PICK k \in 0 .. (m - 1) : v + k = a /\ f + k + 1 = f + a - v + 1
      BY <1>3
    <3>2. c = <<v + k, image.file[f + k + 1]>>
      BY <2>2, <3>1
    <3> QED BY <3>2
  <2> QED BY <2>1, <2>2
<1> QED BY <1>1, <1>4, <1>5 DEF CellAt

\* The addresses of two segments are different, so a cell tells its segment.
LEMMA CellOf ==
    ASSUME NEW image \in Images, NEW n \in Nat, n <= Len(image.headers),
           NEW c \in CellsUpTo(image, n)
    PROVE  \E i \in LoadHeaders(image) :
             /\ i <= n /\ c \in Cells(image, i, image.headers[i].filesz)
             /\ c[1] \in Nat /\ c[1] \in Extent(image.headers[i])
             /\ \A j \in LoadHeaders(image) : c[1] \in Extent(image.headers[j]) => j = i
<1>1. PICK i \in 1 .. n :
        image.headers[i].load /\ c \in Cells(image, i, image.headers[i].filesz)
  BY CellsIn
<1>2. i \in LoadHeaders(image) /\ i \in Nat /\ i <= n
  <2>1. Len(image.headers) \in Nat
    BY ImagesAssumption
  <2> QED BY <1>1, <2>1 DEF LoadHeaders
<1>3. PICK s : s = image.headers[i]
  OBVIOUS
<1>4. s.vaddr \in Nat /\ s.filesz \in Nat
  BY <1>2, <1>3, HeaderIs DEF LoadHeaders
<1>5. PICK a \in s.vaddr .. (s.vaddr + s.filesz - 1) : c[1] = a
  <2>1. CellAt(image, i, s.filesz, c)
    BY <1>1, <1>2, <1>3, <1>4, CellIs
  <2> QED BY <1>3, <2>1 DEF CellAt
<1>6. c[1] \in Nat /\ c[1] \in Extent(image.headers[i])
  BY <1>3, <1>4, <1>5 DEF Extent
<1>7. ASSUME NEW j \in LoadHeaders(image), c[1] \in Extent(image.headers[j])
      PROVE  j = i
  <2>1. i # j => Extent(image.headers[i]) \cap Extent(image.headers[j]) = {}
    BY <1>2, LinkedAssumption
  <2> QED BY <1>6, <1>7, <2>1
<1> QED BY <1>1, <1>2, <1>6, <1>7

-----------------------------------------------------------------------------
(* How a view changes *)

\* What a step leaves alone of one space: its lower half and the bytes there.
Untouched(pm, tb, by, pm2, tb2, by2, s) ==
  \A p \in UserPages :
    /\ EntryOf(pm2, tb2, s, p) = EntryOf(pm, tb, s, p)
    /\ EntryOf(pm, tb, s, p) # None /\ EntryOf(pm, tb, s, p).frame \in Frames =>
         by2[EntryOf(pm, tb, s, p).frame] = by[EntryOf(pm, tb, s, p).frame]

LEMMA ViewKept ==
    ASSUME NEW pm, NEW tb, NEW by, NEW pm2, NEW tb2, NEW by2, NEW space, NEW entry, NEW X, NEW W,
           View(pm, tb, by, space, entry, X, W),
           \A p \in UserPages : EntryOf(pm2, tb2, space, p) = EntryOf(pm, tb, space, p),
           \A p \in X : by2[EntryOf(pm, tb, space, p).frame] = by[EntryOf(pm, tb, space, p).frame]
    PROVE  View(pm2, tb2, by2, space, entry, X, W)
<1>1. \A p \in X : EntryOf(pm2, tb2, space, p) = EntryOf(pm, tb, space, p)
  BY DEF View
<1>2. X \subseteq UserPages
  BY DEF View
<1>3. \A p \in UserPages : EntryOf(pm2, tb2, space, p) # None <=> p \in X
  BY DEF View
<1>4. \A p \in X : EntryOf(pm2, tb2, space, p).frame \in Frames
  BY <1>1 DEF View
<1>5. \A c \in W : PageOf(c[1]) \in X
  BY DEF View
<1>6. \A p \in X, o \in 0 .. (PAGE_SIZE - 1) :
        Shows(W, Addr(p, o), by2[EntryOf(pm2, tb2, space, p).frame][o])
  BY <1>1 DEF View
<1>7. entry \in X => ~EntryOf(pm2, tb2, space, entry).nx
  BY <1>1 DEF View
<1> QED BY <1>2, <1>3, <1>4, <1>5, <1>6, <1>7 DEF View

\* A wiped frame is mapped for one more page.
LEMMA ViewMapped ==
    ASSUME NEW pm, NEW tb, NEW by, NEW pm2, NEW tb2, NEW by2, NEW space, NEW entry, NEW X, NEW W,
           View(pm, tb, by, space, entry, X, W),
           NEW page \in UserPages, page \notin X, NEW f \in Frames, NEW nx \in BOOLEAN,
           \A p \in UserPages : p # page => EntryOf(pm2, tb2, space, p) = EntryOf(pm, tb, space, p),
           EntryOf(pm2, tb2, space, page) # None,
           EntryOf(pm2, tb2, space, page).frame = f, EntryOf(pm2, tb2, space, page).nx = nx,
           \A p \in X : by2[EntryOf(pm, tb, space, p).frame] = by[EntryOf(pm, tb, space, p).frame],
           by2[f] = Zeros,
           page = entry => ~nx
    PROVE  View(pm2, tb2, by2, space, entry, X \cup {page}, W)
<1>1. \A p \in X : p \in UserPages /\ p # page /\ EntryOf(pm2, tb2, space, p) = EntryOf(pm, tb, space, p)
  BY DEF View
<1>2. X \cup {page} \subseteq UserPages
  BY <1>1
<1>3. \A p \in UserPages : EntryOf(pm2, tb2, space, p) # None <=> p \in X \cup {page}
  BY DEF View
<1>4. \A p \in X \cup {page} : EntryOf(pm2, tb2, space, p).frame \in Frames
  BY <1>1 DEF View
<1>5. \A c \in W : PageOf(c[1]) \in X \cup {page}
  BY DEF View
<1>6. ASSUME NEW p \in X \cup {page}, NEW o \in 0 .. (PAGE_SIZE - 1)
      PROVE  Shows(W, Addr(p, o), by2[EntryOf(pm2, tb2, space, p).frame][o])
  <2>1. CASE p \in X
    <3>1. EntryOf(pm2, tb2, space, p) = EntryOf(pm, tb, space, p)
      BY <1>1, <2>1
    <3>2. by2[EntryOf(pm2, tb2, space, p).frame][o] = by[EntryOf(pm, tb, space, p).frame][o]
      BY <2>1, <3>1
    <3> QED BY <2>1, <3>2 DEF View
  <2>2. CASE p = page
    <3>1. by2[EntryOf(pm2, tb2, space, p).frame][o] = 0
      BY <2>2 DEF Zeros
    <3>2. PICK a : a = Addr(p, o)
      OBVIOUS
    <3>3. PageOf(a) = page
      <4>1. page \in Nat
        BY DEF UserPages
      <4> QED BY <2>2, <3>2, <4>1, AddrIs
    <3>4. \A c \in W : c[1] # a
      <4>1. \A c \in W : PageOf(c[1]) \in X
        BY DEF View
      <4> QED BY <3>3, <4>1
    <3> QED BY <3>1, <3>2, <3>4 DEF Shows
  <2> QED BY <2>1, <2>2
<1>7. entry \in X \cup {page} => ~EntryOf(pm2, tb2, space, entry).nx
  <2>1. CASE entry \in X
    BY <1>1, <2>1 DEF View
  <2>2. CASE entry = page
    BY <2>2
  <2> QED BY <2>1, <2>2
<1> QED BY <1>2, <1>3, <1>4, <1>5, <1>6, <1>7 DEF View

\* The bytes at the addresses R, none of which had been written, are stored
\* and hold the cells N, and zeros where N has none.
LEMMA ViewStored ==
    ASSUME NEW pm, NEW tb, NEW by, NEW by2, NEW space, NEW entry, NEW X, NEW W,
           View(pm, tb, by, space, entry, X, W), NEW R, NEW N,
           \A p \in X, o \in 0 .. (PAGE_SIZE - 1) :
             IF Addr(p, o) \in R
             THEN Shows(N, Addr(p, o), by2[EntryOf(pm, tb, space, p).frame][o])
             ELSE by2[EntryOf(pm, tb, space, p).frame][o] = by[EntryOf(pm, tb, space, p).frame][o],
           \A c \in N : c[1] \in R /\ PageOf(c[1]) \in X,
           \A c \in W : c[1] \notin R
    PROVE  View(pm, tb, by2, space, entry, X, W \cup N)
<1>1. \A c \in W \cup N : PageOf(c[1]) \in X
  BY DEF View
<1>2. ASSUME NEW p \in X, NEW o \in 0 .. (PAGE_SIZE - 1)
      PROVE  Shows(W \cup N, Addr(p, o), by2[EntryOf(pm, tb, space, p).frame][o])
  <2>1. PICK a : a = Addr(p, o)
    OBVIOUS
  <2>2. PICK b : b = by[EntryOf(pm, tb, space, p).frame][o]
    OBVIOUS
  <2>3. PICK d : d = by2[EntryOf(pm, tb, space, p).frame][o]
    OBVIOUS
  <2>4. Shows(W, a, b)
    BY <2>1, <2>2 DEF View
  <2>5. IF a \in R THEN Shows(N, a, d) ELSE d = b
    BY <2>1, <2>2, <2>3
  <2>6. Shows(W \cup N, a, d)
    <3>1. CASE a \in R
      <4>1. Shows(N, a, d) /\ \A c \in W : c[1] # a
        BY <2>5, <3>1
      <4> QED BY <4>1 DEF Shows
    <3>2. CASE a \notin R
      <4>1. d = b /\ \A c \in N : c[1] # a
        BY <2>5, <3>2
      <4> QED BY <2>4, <4>1 DEF Shows
    <3> QED BY <3>1, <3>2
  <2> QED BY <2>1, <2>3, <2>6
<1> QED BY <1>1, <1>2 DEF View

-----------------------------------------------------------------------------
(* The frames of the lower half *)

LEMMA UserPageIs ==
    ASSUME NEW p \in UserPages
    PROVE  /\ p \in Nat /\ p \in 0 .. (2 * Half * Entries - 1)
           /\ SlotOf(p) \in Slots \ KernelSlots /\ IndexOf(p) \in 0 .. (Entries - 1)
<1>1. p \in Nat /\ p < Half * Entries /\ Half * Entries \in Nat
  BY SizesAssumption DEF UserPages
<1>2. 2 * Half * Entries = Half * Entries + Half * Entries
  BY SizesAssumption
<1>3. p \in 0 .. (2 * Half * Entries - 1)
  BY <1>1, <1>2
<1> QED BY <1>1, <1>3, UserSlot, PageIs

\* SpacesApart, for the pages of the lower half.
LEMMA FrameOfOne ==
    ASSUME LoaderInv, NEW s \in Spaces, NEW p \in UserPages, EntryOf(pml4, table, s, p) # None
    PROVE  /\ EntryOf(pml4, table, s, p).frame \notin free
           /\ \A t \in Spaces, q \in UserPages :
                /\ EntryOf(pml4, table, t, q) # None
                /\ EntryOf(pml4, table, t, q).frame = EntryOf(pml4, table, s, p).frame
                => s = t /\ p = q
<1>1. ASSUME NEW t \in Spaces, NEW q \in UserPages, EntryOf(pml4, table, t, q) # None
      PROVE  <<t, "page", q, EntryOf(pml4, table, t, q).frame>> \in Holdings
  <2>1. q \in 0 .. (2 * Half * Entries - 1) /\ Accounted(Spaces, t, SlotOf(q))
    BY UserPageIs DEF Accounted
  <2>2. PICK h : h = <<t, "page", q, EntryOf(pml4, table, t, q).frame>>
    OBVIOUS
  <2>3. h \in HoldingsOf(pml4, table, Spaces)
    BY <1>1, <2>1, <2>2, HoldingsAre
  <2> QED BY <2>2, <2>3, HoldingsNow
<1>2. ApartIn(Holdings, free)
  BY ApartNow DEF LoaderInv
<1>3. PICK f : f = EntryOf(pml4, table, s, p).frame
  OBVIOUS
<1>4. <<s, "page", p, f>> \in Holdings
  BY <1>1, <1>3
<1>5. f \notin free
  <2>1. <<s, "page", p, f>>[4] \notin free
    BY <1>2, <1>4 DEF ApartIn
  <2> QED BY <2>1
<1>6. ASSUME NEW t \in Spaces, NEW q \in UserPages, EntryOf(pml4, table, t, q) # None,
             EntryOf(pml4, table, t, q).frame = f
      PROVE  s = t /\ p = q
  <2>1. <<t, "page", q, f>> \in Holdings
    BY <1>1, <1>6
  <2>2. <<t, "page", q, f>>[4] = <<s, "page", p, f>>[4] => <<t, "page", q, f>> = <<s, "page", p, f>>
    BY <1>2, <1>4, <2>1 DEF ApartIn
  <2> QED BY <2>2
<1> QED BY <1>3, <1>5, <1>6

LEMMA TableOfOne ==
    ASSUME LoaderInv, NEW s \in Spaces, NEW k \in Slots \ KernelSlots, pml4[s][k] # None
    PROVE  /\ pml4[s][k] \notin free /\ pml4[s][k] \in Tables
           /\ \A t \in Spaces, i \in Slots \ KernelSlots :
                pml4[t][i] = pml4[s][k] => s = t /\ k = i
<1>1. ASSUME NEW t \in Spaces, NEW i \in Slots \ KernelSlots, pml4[t][i] # None
      PROVE  <<t, "table", i, pml4[t][i]>> \in Holdings
  <2>1. Accounted(Spaces, t, i)
    BY DEF Accounted
  <2>2. PICK h : h = <<t, "table", i, pml4[t][i]>>
    OBVIOUS
  <2>3. h \in HoldingsOf(pml4, table, Spaces)
    BY <1>1, <2>1, <2>2, HoldingsAre
  <2> QED BY <2>2, <2>3, HoldingsNow
<1>2. ApartIn(Holdings, free)
  BY ApartNow DEF LoaderInv
<1>3. PICK u : u = pml4[s][k]
  OBVIOUS
<1>4. <<s, "table", k, u>> \in Holdings /\ u # None
  BY <1>1, <1>3
<1>5. u \notin free
  <2>1. <<s, "table", k, u>>[4] \notin free
    BY <1>2, <1>4 DEF ApartIn
  <2> QED BY <2>1
<1>6. ASSUME NEW t \in Spaces, NEW i \in Slots \ KernelSlots, pml4[t][i] = u
      PROVE  s = t /\ k = i
  <2>1. <<t, "table", i, u>> \in Holdings
    BY <1>1, <1>4, <1>6
  <2>2. <<t, "table", i, u>>[4] = <<s, "table", k, u>>[4] => <<t, "table", i, u>> = <<s, "table", k, u>>
    BY <1>2, <1>4, <2>1 DEF ApartIn
  <2> QED BY <2>2
<1>7. u \in Tables
  <2>1. s \in Frames /\ k \in Slots
    BY SpacesAreFrames DEF LoaderInv
  <2> QED BY <1>3, <1>4, <2>1 DEF LoaderInv, MemoryType
<1> QED BY <1>3, <1>5, <1>6, <1>7

LEMMA MinOfTwo ==
    ASSUME NEW x \in Nat, NEW y \in Nat
    PROVE  /\ Min({x, y}) \in {x, y}
           /\ Min({x, y}) <= x /\ Min({x, y}) <= y
<1>1. \E m \in {x, y} : \A z \in {x, y} : m <= z
  <2>1. CASE x <= y
    BY <2>1
  <2>2. CASE y <= x
    BY <2>2
  <2> QED BY <2>1, <2>2
<1>2. PICK m : m = Min({x, y})
  OBVIOUS
<1>3. m \in {x, y} /\ \A z \in {x, y} : m <= z
  BY <1>1, <1>2 DEF Min
<1>4. m <= x /\ m <= y
  BY <1>3
<1> QED BY <1>2, <1>3, <1>4

\* map_page_alloc changes what one page of one space refers to.
LEMMA MapEntries ==
    ASSUME LoaderInv, NEW space \in Spaces, NEW page \in UserPages, NEW nx \in BOOLEAN,
           map_page_alloc(space, page, nx)
    PROVE  \E f \in free :
             /\ f \in Frames /\ bytes' = [bytes EXCEPT ![f] = Zeros]
             /\ EntryOf(pml4, table, space, page) = None
             /\ EntryOf(pml4', table', space, page) # None
             /\ EntryOf(pml4', table', space, page).frame = f
             /\ EntryOf(pml4', table', space, page).nx = nx
             /\ \A s \in Spaces, p \in UserPages : s # space \/ p # page =>
                  EntryOf(pml4', table', s, p) = EntryOf(pml4, table, s, p)
<1>1. CanMapAlloc(space, page) /\ free \subseteq Frames /\ free \subseteq Nat
  BY FramesAssumption DEF map_page_alloc, LoaderInv, MemoryType
<1>2. PICK f : f = Min(free)
  OBVIOUS
<1>3. f \in free /\ f \in Frames
  BY <1>1, <1>2, MinIsIn DEF CanMapAlloc
<1>4. EntryOf(pml4, table, space, page) = None
  BY <1>1 DEF CanMapAlloc, is_mapped, translate, EntryOf
<1>5. PICK entry : entry = [frame |-> f, nx |-> nx]
  OBVIOUS
<1>6. entry # None /\ entry.frame = f /\ entry.nx = nx
  <2>1. entry \in [frame : Nat, nx : BOOLEAN]
    BY <1>1, <1>3, <1>5
  <2> QED BY <1>5, <2>1, FramesAssumption
<1>7. map_to(space, page, entry, Rest) /\ bytes' = [bytes EXCEPT ![f] = Zeros]
  BY <1>2, <1>5 DEF map_page_alloc
<1>8. PICK slot, index : slot = SlotOf(page) /\ index = IndexOf(page)
  OBVIOUS
<1>9. slot \in Slots /\ slot \in Slots \ KernelSlots /\ index \in 0 .. (Entries - 1)
  BY <1>8, UserPageIs
<1>10. \A s \in Spaces : s \in Frames
  BY SpacesAreFrames DEF LoaderInv
<1>11. PICK u : u = pml4[space][slot]
  OBVIOUS
<1>12. NeedsTable(space, page) <=> u = None
  BY <1>8, <1>11 DEF NeedsTable
<1>13. /\ pml4 \in [Frames \cup {KERNEL} -> [Slots -> Tables \cup {None}]]
       /\ table \in [Tables -> [0 .. (Entries - 1) -> PTE]]
  BY DEF LoaderInv, MemoryType
<1>14. CASE u = None
  <2>1. PICK t : t = Min(Rest)
    OBVIOUS
  <2>2. t \in free /\ t \in Frames /\ t \in Tables /\ t # None
    <3>1. Rest \subseteq free /\ Rest # {}
      BY <1>1, <1>12, <1>14 DEF CanMapAlloc, Rest
    <3>2. Rest \subseteq Nat
      BY <1>1, <3>1
    <3>3. t \in Rest
      BY <2>1, <3>1, <3>2, MinIsIn
    <3> QED BY <1>1, <3>1, <3>3, FramesAssumption DEF Tables
  <2>3. PICK fresh : fresh = [Empty EXCEPT ![index] = entry]
    OBVIOUS
  <2>4. /\ pml4' = [pml4 EXCEPT ![space][slot] = t]
        /\ table' = [table EXCEPT ![t] = fresh]
    BY <1>7, <1>8, <1>12, <1>14, <2>1, <2>3 DEF map_to
  <2>5. /\ fresh[index] = entry
        /\ \A i \in 0 .. (Entries - 1) : i # index => fresh[i] = None
    BY <1>9, <2>3 DEF Empty
  <2>6. /\ pml4'[space][slot] = t
        /\ \A s \in Spaces, k \in Slots : s # space \/ k # slot => pml4'[s][k] = pml4[s][k]
    BY <1>9, <1>10, <1>13, <2>4
  <2>7. table'[t] = fresh /\ \A v \in Tables : v # t => table'[v] = table[v]
    BY <1>13, <2>2, <2>4
  <2>8. EntryOf(pml4', table', space, page) = entry
    BY <1>8, <2>2, <2>5, <2>6, <2>7 DEF EntryOf
  <2>9. ASSUME NEW s \in Spaces, NEW p \in UserPages, s # space \/ p # page
        PROVE  EntryOf(pml4', table', s, p) = EntryOf(pml4, table, s, p)
    <3>1. PICK k, i : k = SlotOf(p) /\ i = IndexOf(p)
      OBVIOUS
    <3>2. k \in Slots \ KernelSlots /\ k \in Slots /\ i \in 0 .. (Entries - 1) /\ p \in Nat /\ page \in Nat
      BY <3>1, UserPageIs
    <3>3. CASE s = space /\ k = slot
      <4>1. i # index
        BY <1>8, <2>9, <3>1, <3>2, <3>3, SamePage
      <4>2. EntryOf(pml4', table', s, p) = None
        BY <3>1, <3>2, <3>3, <4>1, <2>2, <2>5, <2>6, <2>7 DEF EntryOf
      <4>3. EntryOf(pml4, table, s, p) = None
        BY <3>1, <3>3, <1>11, <1>14 DEF EntryOf
      <4> QED BY <4>2, <4>3
    <3>4. CASE s # space \/ k # slot
      <4>1. PICK v : v = pml4[s][k]
        OBVIOUS
      <4>2. pml4'[s][k] = v
        BY <3>2, <3>4, <4>1, <2>6
      <4>3. v # None => v \in Tables /\ v # t
        BY <3>2, <4>1, <2>2, TableOfOne
      <4>4. v # None => table'[v] = table[v]
        BY <4>3, <2>7
      <4> QED BY <3>1, <4>1, <4>2, <4>4 DEF EntryOf
    <3> QED BY <3>3, <3>4
  <2> QED BY <1>3, <1>4, <1>6, <1>7, <2>8, <2>9
<1>15. CASE u # None
  <2>1. u \in Tables
    BY <1>9, <1>11, <1>15, TableOfOne
  <2>2. /\ pml4' = pml4
        /\ table' = [table EXCEPT ![u][index] = entry]
    BY <1>7, <1>8, <1>11, <1>12, <1>15 DEF map_to
  <2>3. /\ table'[u][index] = entry
        /\ \A v \in Tables, i \in 0 .. (Entries - 1) :
             v # u \/ i # index => table'[v][i] = table[v][i]
    BY <1>9, <1>13, <2>1, <2>2
  <2>4. EntryOf(pml4', table', space, page) = entry
    BY <1>8, <1>11, <1>15, <2>2, <2>3 DEF EntryOf
  <2>5. ASSUME NEW s \in Spaces, NEW p \in UserPages, s # space \/ p # page
        PROVE  EntryOf(pml4', table', s, p) = EntryOf(pml4, table, s, p)
    <3>1. PICK k, i : k = SlotOf(p) /\ i = IndexOf(p)
      OBVIOUS
    <3>2. k \in Slots \ KernelSlots /\ i \in 0 .. (Entries - 1) /\ p \in Nat /\ page \in Nat
      BY <3>1, UserPageIs
    <3>3. PICK v : v = pml4[s][k]
      OBVIOUS
    <3>4. CASE v = None
      BY <3>1, <3>3, <3>4, <2>2 DEF EntryOf
    <3>5. CASE v # None
      <4>1. v \in Tables /\ (v = u => s = space /\ k = slot)
        BY <3>2, <3>3, <3>5, <1>9, <1>11, TableOfOne
      <4>2. v # u \/ i # index
        BY <1>8, <2>5, <3>1, <3>2, <4>1, SamePage
      <4>3. table'[v][i] = table[v][i]
        BY <3>2, <4>1, <4>2, <2>3
      <4> QED BY <3>1, <3>3, <4>3, <2>2 DEF EntryOf
    <3> QED BY <3>4, <3>5
  <2> QED BY <1>3, <1>4, <1>6, <1>7, <2>4, <2>5
<1> QED BY <1>14, <1>15

\* The addresses R of a space now hold data, counted from virt; the rest of its
\* pages is the same.
Stored(pm, tb, by, by2, space, X, R, virt, data) ==
  /\ \A a \in R : PageOf(a) \in X
  /\ \A p \in X, o \in 0 .. (PAGE_SIZE - 1) :
       by2[EntryOf(pm, tb, space, p).frame][o] =
         IF Addr(p, o) \in R THEN data[Addr(p, o) - virt]
         ELSE by[EntryOf(pm, tb, space, p).frame][o]

OthersAlone(pm, tb, by, by2, spaces, space) ==
  \A s \in spaces : s # space => Untouched(pm, tb, by, pm, tb, by2, s)

\* One iteration of write or zero: bytes of one page of the space are stored.
LEMMA StoreIs ==
    ASSUME LoaderInv, BytesType, NEW space \in Spaces, space = job.space, NEW entry, NEW X, NEW W,
           View(pml4, table, bytes, space, entry, X, W),
           NEW virt \in Nat, NEW len \in Nat, NEW data, NEW pos \in Nat, pos = job.pos, pos < len,
           PageOf(virt + pos) \in UserPages, Store(virt, len, data)
    PROVE  \E m \in Nat \ {0} :
             /\ m = Piece(virt, len) /\ pos + m <= len /\ BytesType'
             /\ Stored(pml4, table, bytes, bytes', space, X,
                       (virt + pos) .. (virt + pos + m - 1), virt, data)
             /\ OthersAlone(pml4, table, bytes, bytes', Spaces, space)
<1>1. PICK at \in Nat : at = virt + pos
  OBVIOUS
<1>2. PICK P \in Nat, first \in 0 .. (PAGE_SIZE - 1) :
        P = PageOf(at) /\ first = at % PAGE_SIZE /\ at = P * PAGE_SIZE + first
  BY AddressIs
<1>3. P \in UserPages
  BY <1>1, <1>2
<1>4. PAGE_SIZE \in Nat /\ PAGE_SIZE > 0 /\ first \in Nat /\ first < PAGE_SIZE
  BY SizesAssumption
<1>5. PICK m : m = Piece(virt, len)
  OBVIOUS
<1>6. m \in Nat \ {0} /\ pos + m <= len /\ first + m <= PAGE_SIZE
  <2>1. PICK x \in Nat, y \in Nat : x = PAGE_SIZE - first /\ y = len - pos /\ x > 0 /\ y > 0
    <3>1. PAGE_SIZE - first \in Nat /\ len - pos \in Nat /\ PAGE_SIZE - first > 0 /\ len - pos > 0
      BY <1>4
    <3> QED BY <3>1
  <2>2. m = Min({x, y})
    BY <1>1, <1>2, <1>5, <2>1 DEF Piece
  <2>3. m \in {x, y} /\ m <= x /\ m <= y
    BY <2>2, MinOfTwo
  <2>4. m \in Nat \ {0}
    BY <2>1, <2>3
  <2> QED BY <1>4, <2>1, <2>3, <2>4
<1>7. PICK f : f = EntryOf(pml4, table, space, P).frame
  OBVIOUS
<1>8. EntryOf(pml4, table, space, P) # None
  BY <1>1, <1>2 DEF Store, is_mapped, translate, EntryOf
<1>9. P \in X /\ f \in Frames
  <2>1. P \in X
    BY <1>3, <1>8 DEF View
  <2> QED BY <1>7, <2>1 DEF View
<1>10. PICK now : now = [o \in 0 .. (PAGE_SIZE - 1) |->
                           IF o \in first .. (first + m - 1) THEN data[pos + o - first] ELSE bytes[f][o]]
  OBVIOUS
<1>11. bytes' = [bytes EXCEPT ![f] = now]
  <2>1. translate(job.space, PageOf(at)).frame = f
    BY <1>2, <1>7 DEF translate, EntryOf
  <2> QED BY <1>1, <1>2, <1>5, <1>10, <2>1 DEF Store
<1>12. bytes'[f] = now /\ BytesType' /\ \A g \in Frames : g # f => bytes'[g] = bytes[g]
  BY <1>9, <1>11 DEF BytesType
<1>13. ASSUME NEW k \in Nat, k < m
       PROVE  PageOf(at + k) = P /\ (at + k) % PAGE_SIZE = first + k
  <2>1. first + k < PAGE_SIZE
    BY <1>4, <1>6, <1>13
  <2> QED BY <1>2, <2>1, WithinPage
<1>14. ASSUME NEW a \in at .. (at + m - 1)
       PROVE  PageOf(a) = P
  <2>1. PICK k \in Nat : k < m /\ a = at + k
    <3>1. a - at \in Nat /\ a - at < m /\ a = at + (a - at)
      BY <1>6
    <3> QED BY <3>1
  <2> QED BY <1>13, <2>1
<1>15. ASSUME NEW p \in X, NEW o \in 0 .. (PAGE_SIZE - 1)
       PROVE  bytes'[EntryOf(pml4, table, space, p).frame][o] =
                IF Addr(p, o) \in at .. (at + m - 1)
                THEN data[Addr(p, o) - virt]
                ELSE bytes[EntryOf(pml4, table, space, p).frame][o]
  <2>1. p \in UserPages /\ p \in Nat /\ EntryOf(pml4, table, space, p) # None
        /\ EntryOf(pml4, table, space, p).frame \in Frames
    BY DEF View, UserPages
  <2>2. CASE p = P
    <3>1. PICK b \in Nat : b = P * PAGE_SIZE
      BY <1>4
    <3>2. at = b + first
      BY <1>2, <3>1
    <3>6. o \in Nat
      BY <1>4
    <3>7. Addr(p, o) = b + o
      BY <2>2, <3>1 DEF Addr
    <3>3. b + o \in at .. (at + m - 1) <=> o \in first .. (first + m - 1)
      BY <1>4, <1>6, <3>2, <3>6
    <3>4. b + o - virt = pos + o - first
      BY <1>1, <1>4, <3>2, <3>6
    <3>5. bytes'[f][o] = IF o \in first .. (first + m - 1) THEN data[pos + o - first] ELSE bytes[f][o]
      BY <1>10, <1>12
    <3>8. PICK a : a = Addr(p, o)
      OBVIOUS
    <3>9. a \in at .. (at + m - 1) <=> o \in first .. (first + m - 1)
      BY <3>3, <3>7, <3>8
    <3>10. a - virt = pos + o - first
      BY <3>4, <3>7, <3>8
    <3>11. EntryOf(pml4, table, space, p).frame = f
      BY <1>7, <2>2
    <3>12. bytes'[f][o] = IF a \in at .. (at + m - 1) THEN data[a - virt] ELSE bytes[f][o]
      BY <3>5, <3>9, <3>10
    <3> QED BY <3>8, <3>11, <3>12
  <2>3. CASE p # P
    <3>1. EntryOf(pml4, table, space, p).frame # f
      BY <1>3, <1>7, <1>8, <2>1, <2>3, FrameOfOne
    <3>2. PageOf(Addr(p, o)) = p
      BY <2>1, AddrIs
    <3>3. Addr(p, o) \notin at .. (at + m - 1)
      BY <2>3, <3>2, <1>14
    <3> QED BY <1>12, <2>1, <3>1, <3>3
  <2> QED BY <2>2, <2>3
<1>16. ASSUME NEW s \in Spaces, NEW p \in UserPages, s # space, EntryOf(pml4, table, s, p) # None,
              EntryOf(pml4, table, s, p).frame \in Frames
       PROVE  bytes'[EntryOf(pml4, table, s, p).frame] = bytes[EntryOf(pml4, table, s, p).frame]
  <2>1. PICK g : g = EntryOf(pml4, table, s, p).frame
    OBVIOUS
  <2>2. g # f
    BY <1>3, <1>7, <1>8, <1>16, <2>1, FrameOfOne
  <2>3. bytes'[g] = bytes[g]
    BY <1>12, <1>16, <2>1, <2>2
  <2> QED BY <2>1, <2>3
<1>17. Stored(pml4, table, bytes, bytes', space, X, at .. (at + m - 1), virt, data)
  BY <1>9, <1>14, <1>15 DEF Stored
<1>18. OthersAlone(pml4, table, bytes, bytes', Spaces, space)
  BY <1>16 DEF OthersAlone, Untouched
<1>19. virt + pos = at
  BY <1>1
<1> QED BY <1>5, <1>6, <1>12, <1>17, <1>18, <1>19

-----------------------------------------------------------------------------
(* The spaces of tasks that are already there *)

LEMMA ViewUntouched ==
    ASSUME NEW pm, NEW tb, NEW by, NEW pm2, NEW tb2, NEW by2, NEW space, NEW entry, NEW X, NEW W,
           View(pm, tb, by, space, entry, X, W), Untouched(pm, tb, by, pm2, tb2, by2, space)
    PROVE  View(pm2, tb2, by2, space, entry, X, W)
<1>1. \A p \in UserPages : EntryOf(pm2, tb2, space, p) = EntryOf(pm, tb, space, p)
  BY DEF Untouched
<1>2. \A p \in X : by2[EntryOf(pm, tb, space, p).frame] = by[EntryOf(pm, tb, space, p).frame]
  <2> SUFFICES ASSUME NEW p \in X
               PROVE  by2[EntryOf(pm, tb, space, p).frame] = by[EntryOf(pm, tb, space, p).frame]
    OBVIOUS
  <2>1. p \in UserPages
    BY DEF View
  <2>2. EntryOf(pm, tb, space, p) # None /\ EntryOf(pm, tb, space, p).frame \in Frames
    BY <2>1 DEF View
  <2> QED BY <2>1, <2>2 DEF Untouched
<1> QED BY <1>1, <1>2, ViewKept

LEMMA DoneUntouched ==
    ASSUME NEW pm, NEW tb, NEW by, NEW pm2, NEW tb2, NEW by2, NEW l,
           Done(pm, tb, by, l), Untouched(pm, tb, by, pm2, tb2, by2, l.space)
    PROVE  Done(pm2, tb2, by2, l)
<1>1. PICK X : X = PagesUpTo(l.image, l.image.phnum) \cup StackDownTo(user_stack_pages)
  OBVIOUS
<1>2. PICK W, e : W = CellsUpTo(l.image, l.image.phnum) /\ e = PageOf(l.image.entry)
  OBVIOUS
<1>3. View(pm, tb, by, l.space, e, X, W)
  BY <1>1, <1>2 DEF Done
<1>4. View(pm2, tb2, by2, l.space, e, X, W)
  BY <1>3, ViewUntouched
<1> QED BY <1>1, <1>2, <1>4 DEF Done

LEMMA LoadedKept ==
    ASSUME ImageInv,
           \A l \in loaded : Untouched(pml4, table, bytes, pml4', table', bytes', l.space)
    PROVE  \A l \in loaded : Done(pml4', table', bytes', l)
<1> SUFFICES ASSUME NEW l \in loaded
             PROVE  Done(pml4', table', bytes', l)
  OBVIOUS
<1>1. PICK pm, tb, by : pm = pml4 /\ tb = table /\ by = bytes
  OBVIOUS
<1>2. PICK pm2, tb2, by2 : pm2 = pml4' /\ tb2 = table' /\ by2 = bytes'
  OBVIOUS
<1>3. Done(pm, tb, by, l) /\ Untouched(pm, tb, by, pm2, tb2, by2, l.space)
  BY <1>1, <1>2 DEF ImageInv
<1>4. Done(pm2, tb2, by2, l)
  BY <1>3, DoneUntouched
<1> QED BY <1>2, <1>4

LEMMA SpaceOfLoaded ==
    ASSUME NEW l \in loaded
    PROVE  l.space \in Spaces
BY DEF Spaces

\* Wiping a free frame disturbs nobody.
LEMMA WipedFree ==
    ASSUME LoaderInv, BytesType, UNCHANGED <<pml4, table>>, NEW f \in free,
           bytes' = [bytes EXCEPT ![f] = Zeros]
    PROVE  BytesType' /\ \A s \in Spaces : Untouched(pml4, table, bytes, pml4', table', bytes', s)
<1>1. f \in Frames
  BY DEF LoaderInv, MemoryType
<1>2. BytesType' /\ \A g \in Frames : g # f => bytes'[g] = bytes[g]
  BY <1>1 DEF BytesType
<1>3. ASSUME NEW s \in Spaces, NEW p \in UserPages, EntryOf(pml4, table, s, p) # None,
             EntryOf(pml4, table, s, p).frame \in Frames
      PROVE  bytes'[EntryOf(pml4, table, s, p).frame] = bytes[EntryOf(pml4, table, s, p).frame]
  <2>1. PICK g : g = EntryOf(pml4, table, s, p).frame
    OBVIOUS
  <2>2. g # f
    BY <1>3, <2>1, FrameOfOne
  <2>3. bytes'[g] = bytes[g]
    BY <1>2, <1>3, <2>1, <2>2
  <2> QED BY <2>1, <2>3
<1>4. \A s \in Spaces, p \in UserPages : EntryOf(pml4', table', s, p) = EntryOf(pml4, table, s, p)
  OBVIOUS
<1> QED BY <1>2, <1>3, <1>4 DEF Untouched

\* map_page_alloc returns Err.
LEMMA AllocFailsQuietly ==
    ASSUME LoaderInv, ImageInv, NEW space, NEW page, map_page_alloc_fails(space, page)
    PROVE  BytesType' /\ \A l \in loaded : Done(pml4', table', bytes', l)
<1>1. UNCHANGED <<pml4, table>>
  BY DEF map_page_alloc_fails
<1>2. CASE free = {}
  <2>1. UNCHANGED bytes
    BY <1>2 DEF map_page_alloc_fails
  <2> QED BY <1>1, <2>1 DEF ImageInv, BytesType
<1>3. CASE free # {}
  <2>1. PICK f : f = Min(free)
    OBVIOUS
  <2>2. f \in free
    <3>1. free \subseteq Nat
      BY FramesAssumption DEF LoaderInv, MemoryType
    <3> QED BY <1>3, <2>1, <3>1, MinIsIn
  <2>3. bytes' = [bytes EXCEPT ![f] = Zeros]
    BY <1>3, <2>1 DEF map_page_alloc_fails
  <2>4. BytesType' /\ \A s \in Spaces : Untouched(pml4, table, bytes, pml4', table', bytes', s)
    BY <1>1, <2>2, <2>3, WipedFree DEF ImageInv
  <2>5. \A l \in loaded : Untouched(pml4, table, bytes, pml4', table', bytes', l.space)
    BY <2>4, SpaceOfLoaded
  <2> QED BY <2>4, <2>5, LoadedKept
<1> QED BY <1>2, <1>3

LEMMA SameMemory ==
    ASSUME ImageInv, UNCHANGED <<pml4, table, bytes>>
    PROVE  BytesType' /\ \A l \in loaded : Done(pml4', table', bytes', l)
BY DEF ImageInv, BytesType

\* After the last step of spawn_elf, or its failure.
LEMMA Settled ==
    ASSUME BytesType', stage' \notin Building, \A l \in loaded' : Done(pml4', table', bytes', l)
    PROVE  ImageInv'
BY DEF ImageInv

\* One step of spawn_elf.
LEMMA ContinueShows ==
    ASSUME LoaderInv, ImageInv, stage \in Building, NEW next, NEW seg, NEW pos,
           Continue(next, seg, pos), BytesType', \A l \in loaded : Done(pml4', table', bytes', l),
           Progress(next, job.image, seg, pos),
           View(pml4', table', bytes', job.space, PageOf(job.image.entry),
                PagesAt(next, job.image, seg, pos), CellsAt(next, job.image, seg, pos))
    PROVE  ImageInv'
<1>1. /\ stage' = next /\ job'.space = job.space /\ job'.image = job.image
      /\ job'.seg = seg /\ job'.pos = pos /\ loaded' = loaded
  BY ContinueIs DEF LoaderInv
<1>2. \A l \in loaded' : l.space # job'.space
  BY <1>1 DEF ImageInv
<1>3. PICK X, W : X = PagesAt(next, job.image, seg, pos) /\ W = CellsAt(next, job.image, seg, pos)
  OBVIOUS
<1>4. X = PagesAt(stage', job'.image, job'.seg, job'.pos)
      /\ W = CellsAt(stage', job'.image, job'.seg, job'.pos)
  BY <1>1, <1>3
<1>5. View(pml4', table', bytes', job'.space, PageOf(job'.image.entry), X, W)
  BY <1>1, <1>3
<1>6. Progress(stage', job'.image, job'.seg, job'.pos)
  BY <1>1
<1>7. \A l \in loaded' : Done(pml4', table', bytes', l)
  BY <1>1
<1> QED BY <1>2, <1>4, <1>5, <1>6, <1>7 DEF ImageInv

\* One that leaves memory alone: the stage, and what it says, are all that changes.
LEMMA ContinueSame ==
    ASSUME LoaderInv, ImageInv, stage \in Building, NEW next, NEW seg, NEW pos,
           Continue(next, seg, pos), UNCHANGED memory, Progress(next, job.image, seg, pos),
           PagesAt(next, job.image, seg, pos) = PagesAt(stage, job.image, job.seg, job.pos),
           CellsAt(next, job.image, seg, pos) = CellsAt(stage, job.image, job.seg, job.pos)
    PROVE  ImageInv'
<1>1. UNCHANGED <<pml4, table, bytes>>
  BY DEF memory
<1>2. BytesType' /\ \A l \in loaded : Done(pml4', table', bytes', l)
  BY <1>1, SameMemory
<1>3. View(pml4', table', bytes', job.space, PageOf(job.image.entry),
           PagesAt(next, job.image, seg, pos), CellsAt(next, job.image, seg, pos))
  BY <1>1 DEF ImageInv
<1> QED BY <1>2, <1>3, ContinueShows

-----------------------------------------------------------------------------
(* The steps of spawn_elf *)

\* map_page_alloc, for a page of the space that is being built.
LEMMA MappedShows ==
    ASSUME LoaderInv, ImageInv, stage \in Building, NEW page \in UserPages, NEW nx \in BOOLEAN,
           map_page_alloc(job.space, page, nx), NEW entry, NEW X, NEW W,
           View(pml4, table, bytes, job.space, entry, X, W), page = entry /\ page \notin X => ~nx
    PROVE  /\ BytesType' /\ \A l \in loaded : Done(pml4', table', bytes', l)
           /\ View(pml4', table', bytes', job.space, entry, X \cup {page}, W)
<1>1. PICK space : space = job.space
  OBVIOUS
<1>2. space \in Spaces
  BY <1>1, FramesAssumption DEF LoaderInv, StageInv, Spaces
<1>3. map_page_alloc(space, page, nx)
  BY <1>1
<1>4. PICK f \in free :
             /\ f \in Frames /\ bytes' = [bytes EXCEPT ![f] = Zeros]
             /\ EntryOf(pml4, table, space, page) = None
             /\ EntryOf(pml4', table', space, page) # None
             /\ EntryOf(pml4', table', space, page).frame = f
             /\ EntryOf(pml4', table', space, page).nx = nx
             /\ \A s \in Spaces, p \in UserPages : s # space \/ p # page =>
                  EntryOf(pml4', table', s, p) = EntryOf(pml4, table, s, p)
  BY <1>2, <1>3, MapEntries
<1>5. BytesType' /\ bytes'[f] = Zeros /\ \A g \in Frames : g # f => bytes'[g] = bytes[g]
  BY <1>4 DEF BytesType, ImageInv
<1>6. ASSUME NEW s \in Spaces, NEW p \in UserPages, EntryOf(pml4, table, s, p) # None,
             EntryOf(pml4, table, s, p).frame \in Frames
      PROVE  bytes'[EntryOf(pml4, table, s, p).frame] = bytes[EntryOf(pml4, table, s, p).frame]
  <2>1. PICK g : g = EntryOf(pml4, table, s, p).frame
    OBVIOUS
  <2>2. g # f
    BY <1>4, <1>6, <2>1, FrameOfOne
  <2>3. bytes'[g] = bytes[g]
    BY <1>5, <1>6, <2>1, <2>2
  <2> QED BY <2>1, <2>3
<1>7. ASSUME NEW l \in loaded
      PROVE  Untouched(pml4, table, bytes, pml4', table', bytes', l.space)
  <2>1. PICK s : s = l.space
    OBVIOUS
  <2>2. s \in Spaces /\ s # space
    BY <1>1, <2>1, SpaceOfLoaded DEF ImageInv
  <2>3. \A p \in UserPages : EntryOf(pml4', table', s, p) = EntryOf(pml4, table, s, p)
    BY <1>4, <2>2
  <2>4. Untouched(pml4, table, bytes, pml4', table', bytes', s)
    BY <1>6, <2>2, <2>3 DEF Untouched
  <2> QED BY <2>1, <2>4
<1>8. \A l \in loaded : Done(pml4', table', bytes', l)
  BY <1>7, LoadedKept
<1>9. PICK pm, tb, by : pm = pml4 /\ tb = table /\ by = bytes
  OBVIOUS
<1>10. PICK pm2, tb2, by2 : pm2 = pml4' /\ tb2 = table' /\ by2 = bytes'
  OBVIOUS
<1>11. View(pm, tb, by, space, entry, X, W)
  BY <1>1, <1>9
<1>12. page \notin X
  BY <1>4, <1>9, <1>11 DEF View
<1>13. \A p \in X : by2[EntryOf(pm, tb, space, p).frame] = by[EntryOf(pm, tb, space, p).frame]
  <2> SUFFICES ASSUME NEW p \in X
               PROVE  by2[EntryOf(pm, tb, space, p).frame] = by[EntryOf(pm, tb, space, p).frame]
    OBVIOUS
  <2>1. p \in UserPages /\ EntryOf(pm, tb, space, p).frame \in Frames
    BY <1>11 DEF View
  <2>2. EntryOf(pm, tb, space, p) # None
    BY <1>11, <2>1 DEF View
  <2> QED BY <1>2, <1>6, <1>9, <1>10, <2>1, <2>2
<1>14. /\ \A p \in UserPages : p # page => EntryOf(pm2, tb2, space, p) = EntryOf(pm, tb, space, p)
       /\ EntryOf(pm2, tb2, space, page) # None
       /\ EntryOf(pm2, tb2, space, page).frame = f /\ EntryOf(pm2, tb2, space, page).nx = nx
       /\ by2[f] = Zeros /\ (page = entry => ~nx) /\ f \in Frames
  BY <1>2, <1>4, <1>5, <1>9, <1>10, <1>12
<1>15. View(pm2, tb2, by2, space, entry, X \cup {page}, W)
  BY <1>11, <1>12, <1>13, <1>14, ViewMapped
<1> QED BY <1>1, <1>5, <1>8, <1>10, <1>15

\* AddressSpace::new, when there is a frame for the PML4.
LEMMA NewShows ==
    ASSUME LoaderInv, ImageInv, NEW image \in Images, new(image), free # {}
    PROVE  ImageInv'
<1>1. PICK space : space = Min(free)
  OBVIOUS
<1>2. space \in free /\ space \in Frames /\ space \in Frames \cup {KERNEL}
  <2>1. free \subseteq Nat /\ free \subseteq Frames
    BY FramesAssumption DEF LoaderInv, MemoryType
  <2> QED BY <1>1, <2>1, MinIsIn
<1>3. PICK top : top = [s \in Slots |-> IF s \in CopiedSlots THEN pml4[KERNEL][s] ELSE None]
  OBVIOUS
<1>4. /\ pml4' = [pml4 EXCEPT ![space] = top] /\ stage' = "header"
      /\ job' = [image |-> image, space |-> space, seg |-> 0, pos |-> 0]
      /\ UNCHANGED <<table, bytes, loaded>>
  BY <1>1, <1>3 DEF new
<1>5. pml4'[space] = top /\ \A s \in Frames : s # space => pml4'[s] = pml4[s]
  BY <1>2, <1>4 DEF LoaderInv, MemoryType
<1>6. ASSUME NEW l \in loaded
      PROVE  l.space \in Frames /\ l.space # space
  <2>1. PICK s : s = l.space
    OBVIOUS
  <2>2. s \in Spaces /\ s \in Frames
    BY <2>1, SpaceOfLoaded, SpacesAreFrames DEF LoaderInv
  <2>3. PICK h : h = <<s, "pml4", 0, s>>
    OBVIOUS
  <2>4. h \in Holdings
    BY <2>2, <2>3, HoldingsAre, HoldingsNow
  <2>5. s \notin free
    BY <2>3, <2>4 DEF LoaderInv, SpacesApart
  <2> QED BY <1>2, <2>1, <2>2, <2>5
<1>7. ASSUME NEW l \in loaded
      PROVE  Untouched(pml4, table, bytes, pml4', table', bytes', l.space)
  <2>1. PICK s : s = l.space
    OBVIOUS
  <2>2. pml4'[s] = pml4[s] /\ table' = table /\ bytes' = bytes
    BY <1>4, <1>5, <1>6, <2>1
  <2>3. \A p \in UserPages : EntryOf(pml4', table', s, p) = EntryOf(pml4, table, s, p)
    BY <2>2 DEF EntryOf
  <2>4. Untouched(pml4, table, bytes, pml4', table', bytes', s)
    BY <2>2, <2>3 DEF Untouched
  <2> QED BY <2>1, <2>4
<1>8. \A l \in loaded' : Done(pml4', table', bytes', l)
  BY <1>4, <1>7, LoadedKept
<1>9. \A p \in UserPages : EntryOf(pml4', table', space, p) = None
  <2> SUFFICES ASSUME NEW p \in UserPages
               PROVE  EntryOf(pml4', table', space, p) = None
    OBVIOUS
  <2>1. SlotOf(p) \in Slots /\ SlotOf(p) \notin CopiedSlots
    BY UserPageIs DEF CopiedSlots
  <2>2. top[SlotOf(p)] = None
    BY <1>3, <2>1
  <2> QED BY <1>5, <2>2 DEF EntryOf
<1>10. View(pml4', table', bytes', space, PageOf(image.entry), {}, {})
  BY <1>9 DEF View
<1>11. PagesAt("header", image, 0, 0) = {} /\ CellsAt("header", image, 0, 0) = {}
       /\ Progress("header", image, 0, 0)
  BY DEF PagesAt, CellsAt, Progress
<1>12. job'.space = space /\ job'.image = image /\ job'.seg = 0 /\ job'.pos = 0
  BY <1>4
<1>13. BytesType'
  BY <1>4 DEF ImageInv, BytesType
<1>14. \A l \in loaded' : l.space # job'.space
  BY <1>4, <1>6, <1>12
<1>15. /\ Progress(stage', job'.image, job'.seg, job'.pos)
       /\ View(pml4', table', bytes', job'.space, PageOf(job'.image.entry),
               PagesAt(stage', job'.image, job'.seg, job'.pos),
               CellsAt(stage', job'.image, job'.seg, job'.pos))
  BY <1>4, <1>10, <1>11, <1>12
<1> QED BY <1>8, <1>13, <1>14, <1>15 DEF ImageInv

LEMMA FailShows ==
    ASSUME LoaderInv, ImageInv, Fail, UNCHANGED memory
    PROVE  ImageInv'
<1>1. UNCHANGED <<pml4, table, bytes, loaded>> /\ stage' = "idle"
  BY DEF memory, Fail
<1>2. BytesType' /\ \A l \in loaded : Done(pml4', table', bytes', l)
  BY <1>1, SameMemory
<1> QED BY <1>1, <1>2, Settled DEF Building

LEMMA AllocFailShows ==
    ASSUME LoaderInv, ImageInv, Fail, NEW space, NEW page, map_page_alloc_fails(space, page)
    PROVE  ImageInv'
<1>1. UNCHANGED loaded /\ stage' = "idle"
  BY DEF Fail
<1>2. BytesType' /\ \A l \in loaded : Done(pml4', table', bytes', l)
  BY AllocFailsQuietly
<1> QED BY <1>1, <1>2, Settled DEF Building

LEMMA CheckHeaderShows ==
    ASSUME LoaderInv, ImageInv, check_header
    PROVE  ImageInv'
<1>1. stage = "header" /\ stage \in Building /\ UNCHANGED memory
  BY DEF check_header, Building
<1>2. CASE Continue("segment", 1, 0)
  <2>1. PICK image \in Images : image = job.image
    BY <1>1 DEF LoaderInv, StageInv
  <2>2. image.phnum \in Nat /\ Len(image.headers) \in Nat
    BY ImagesAssumption
  <2>3. Progress("segment", image, 1, 0)
    BY <2>2 DEF Progress
  <2>4. /\ PagesAt("segment", image, 1, 0) = {} /\ CellsAt("segment", image, 1, 0) = {}
        /\ PagesAt("header", image, job.seg, job.pos) = {}
        /\ CellsAt("header", image, job.seg, job.pos) = {}
    BY NoneYet DEF PagesAt, CellsAt
  <2> QED BY <1>1, <1>2, <2>1, <2>3, <2>4, ContinueSame
<1>3. CASE Fail
  BY <1>1, <1>3, FailShows
<1> QED BY <1>2, <1>3 DEF check_header

\* The segment that load_into works on.
LEMMA SegmentIs ==
    ASSUME LoaderInv, ImageInv, stage \in {"map", "copy", "zero"}
    PROVE  /\ stage \in Building /\ job.image \in Images /\ job.seg \in Nat \ {0}
           /\ job.seg \in LoadHeaders(job.image) /\ Segment = job.image.headers[job.seg]
           /\ job.seg \in 1 .. Len(job.image.headers) /\ job.seg <= job.image.phnum
           /\ Segment.vaddr \in Nat /\ Segment.offset \in Nat /\ Segment.filesz \in Nat
           /\ Segment.memsz \in Nat /\ Segment.x \in BOOLEAN /\ Segment.load
<1>1. stage \in Building
  BY DEF Building
<1>2. /\ job.image \in Images /\ job.seg \in Nat \ {0} /\ Segment.load
      /\ job.seg \in 1 .. Len(job.image.headers)
  BY <1>1 DEF LoaderInv, StageInv
<1>3. job.seg <= job.image.phnum
  BY <1>1 DEF ImageInv, Progress
<1>4. Segment = job.image.headers[job.seg] /\ job.seg \in LoadHeaders(job.image)
  BY <1>2 DEF Segment, LoadHeaders
<1> QED BY <1>1, <1>2, <1>3, <1>4, HeaderIs

LEMMA NextSegmentShows ==
    ASSUME LoaderInv, ImageInv, next_segment
    PROVE  ImageInv'
<1>1. stage = "segment" /\ stage \in Building /\ UNCHANGED memory
  BY DEF next_segment, Building
<1>2. PICK image \in Images, n \in Nat \ {0} : image = job.image /\ n = job.seg
  BY <1>1 DEF LoaderInv, StageInv
<1>3. image.phnum \in Nat /\ Len(image.headers) \in Nat
  BY ImagesAssumption
<1>4. n - 1 <= image.phnum /\ n - 1 <= Len(image.headers)
  BY <1>1, <1>2 DEF ImageInv, Progress
<1>5. /\ PagesAt("segment", image, n, job.pos) = PagesUpTo(image, n - 1)
      /\ CellsAt("segment", image, n, job.pos) = CellsUpTo(image, n - 1)
  BY DEF PagesAt, CellsAt
<1>6. CASE n > image.phnum /\ Continue("entry", n, 0)
  <2>1. image.phnum = n - 1
    BY <1>3, <1>4, <1>6
  <2>2. Progress("entry", image, n, 0)
    BY <1>4, <2>1 DEF Progress
  <2>3. /\ PagesAt("entry", image, n, 0) = PagesUpTo(image, n - 1)
        /\ CellsAt("entry", image, n, 0) = CellsUpTo(image, n - 1)
    BY <2>1 DEF PagesAt, CellsAt
  <2> QED BY <1>1, <1>2, <1>5, <1>6, <2>2, <2>3, ContinueSame
<1>7. CASE Fail
  BY <1>1, <1>7, FailShows
<1>8. CASE /\ n <= image.phnum /\ n <= Len(image.headers) /\ image.headers[n].load
           /\ Continue("map", n, PageOf(image.headers[n].vaddr))
  <2>1. n \in 1 .. Len(image.headers)
    BY <1>3, <1>8
  <2>2. PICK v \in Nat, z \in Nat : v = image.headers[n].vaddr /\ z = image.headers[n].memsz
    BY <2>1, HeaderIs
  <2>3. PAGE_SIZE \in Nat /\ PAGE_SIZE > 0
    BY SizesAssumption
  <2>4. PICK w \in Nat : w = v + z + PAGE_SIZE - 1 /\ v <= w
    <3>1. v + z + PAGE_SIZE - 1 \in Nat /\ v <= v + z + PAGE_SIZE - 1
      BY <2>3
    <3> QED BY <3>1
  <2>5. PageOf(v) \in Nat /\ PageOf(w) \in Nat /\ PageOf(v) <= PageOf(w)
    BY <2>4, AddressIs, PageMonotone
  <2>6. EndPage(image.headers[n]) = PageOf(w)
    BY <2>2, <2>4 DEF EndPage
  <2>7. PageOf(v) \in PageOf(v) .. EndPage(image.headers[n])
    BY <2>5, <2>6
  <2>8. Progress("map", image, n, PageOf(v))
    BY <1>4, <1>8, <2>2, <2>7 DEF Progress
  <2>9. PageOf(v) .. (PageOf(v) - 1) = {}
    BY <2>5
  <2>10. /\ PagesAt("map", image, n, PageOf(v)) = PagesUpTo(image, n - 1)
         /\ CellsAt("map", image, n, PageOf(v)) = CellsUpTo(image, n - 1)
    BY <2>2, <2>9 DEF PagesAt, CellsAt
  <2>11. Continue("map", n, PageOf(v))
    BY <1>8, <2>2
  <2> QED BY <1>1, <1>2, <1>5, <2>8, <2>10, <2>11, ContinueSame
<1>9. CASE /\ n <= image.phnum /\ n <= Len(image.headers) /\ ~image.headers[n].load
           /\ Continue("segment", n + 1, 0)
  <2>1. n + 1 - 1 = n
    OBVIOUS
  <2>2. Progress("segment", image, n + 1, 0)
    BY <1>9, <2>1 DEF Progress
  <2>3. PagesUpTo(image, n) = PagesUpTo(image, n - 1) /\ CellsUpTo(image, n) = CellsUpTo(image, n - 1)
    BY <1>9, OneMore
  <2>4. /\ PagesAt("segment", image, n + 1, 0) = PagesUpTo(image, n - 1)
        /\ CellsAt("segment", image, n + 1, 0) = CellsUpTo(image, n - 1)
    BY <2>1, <2>3 DEF PagesAt, CellsAt
  <2> QED BY <1>1, <1>2, <1>5, <1>9, <2>2, <2>4, ContinueSame
<1> QED BY <1>2, <1>6, <1>7, <1>8, <1>9 DEF next_segment, Segment

LEMMA MapSegmentShows ==
    ASSUME LoaderInv, ImageInv, map_segment
    PROVE  ImageInv'
<1>1. stage = "map" /\ stage \in Building
  BY DEF map_segment, Building
<1>2. PICK image \in Images, n \in Nat \ {0} :
        /\ image = job.image /\ n = job.seg /\ Segment = image.headers[n]
        /\ n \in LoadHeaders(image) /\ n \in 1 .. Len(image.headers)
  BY <1>1, SegmentIs
<1>3. PICK s : s = image.headers[n]
  OBVIOUS
<1>4. s.x \in BOOLEAN /\ Segment = s
  BY <1>1, <1>2, <1>3, SegmentIs
<1>5. PICK first \in Nat, last \in Nat : first = PageOf(s.vaddr) /\ last = EndPage(s) /\ last <= Half * Entries
  BY <1>1, <1>4, SegmentInLowerHalf
<1>6. PICK pos \in Nat : pos = job.pos /\ first <= pos /\ pos < last
  <2>1. job.pos \in first .. last /\ job.pos < last
    BY <1>1, <1>2, <1>3, <1>4, <1>5 DEF ImageInv, Progress, map_segment
  <2>2. job.pos \in Nat /\ first <= job.pos
    BY <2>1
  <2> QED BY <2>1, <2>2
<1>7. pos \in UserPages
  <2>1. Half * Entries \in Nat
    BY SizesAssumption
  <2> QED BY <1>5, <1>6, <2>1 DEF UserPages
<1>8. PICK X : X = PagesUpTo(image, n - 1) \cup (first .. (pos - 1))
  OBVIOUS
<1>9. PICK W : W = CellsUpTo(image, n - 1)
  OBVIOUS
<1>10. PagesAt("map", image, n, pos) = X /\ CellsAt("map", image, n, pos) = W
  BY <1>3, <1>5, <1>8, <1>9 DEF PagesAt, CellsAt
<1>11. View(pml4, table, bytes, job.space, PageOf(image.entry), X, W)
  BY <1>1, <1>2, <1>6, <1>10 DEF ImageInv
<1>12. PagesAt("map", image, n, pos + 1) = X \cup {pos} /\ CellsAt("map", image, n, pos + 1) = W
  <2>1. first .. (pos + 1 - 1) = (first .. (pos - 1)) \cup {pos}
    BY <1>6
  <2> QED BY <1>3, <1>5, <1>8, <1>9, <2>1 DEF PagesAt, CellsAt
<1>13. Progress("map", image, n, pos + 1)
  <2>1. Progress("map", image, n, pos)
    BY <1>1, <1>2, <1>6 DEF ImageInv
  <2>2. pos + 1 \in first .. last
    BY <1>6
  <2> QED BY <1>3, <1>5, <2>1, <2>2 DEF Progress
<1>14. CASE is_mapped(job.space, pos) /\ Continue("map", n, pos + 1) /\ UNCHANGED memory
  <2>1. EntryOf(pml4, table, job.space, pos) # None
    BY <1>14 DEF is_mapped, translate, EntryOf
  <2>2. pos \in X
    BY <1>7, <1>11, <2>1 DEF View
  <2>3. X \cup {pos} = X
    BY <2>2
  <2> QED BY <1>1, <1>2, <1>6, <1>10, <1>12, <1>13, <1>14, <2>3, ContinueSame
<1>15. CASE map_page_alloc(job.space, pos, ~s.x) /\ Continue("map", n, pos + 1)
  <2>1. PICK nx \in BOOLEAN : nx = ~s.x
    OBVIOUS
  <2>2. pos = PageOf(image.entry) /\ pos \notin X => ~nx
    <3> SUFFICES ASSUME pos = PageOf(image.entry), pos \notin X
                 PROVE  s.x
      BY <2>1
    <3>1. pos \in SegmentPages(s)
      BY <1>5, <1>6 DEF SegmentPages
    <3>2. ASSUME NEW j \in LoadHeaders(image), j < n, pos \in SegmentPages(image.headers[j])
          PROVE  FALSE
      <4>1. j \in 1 .. (n - 1) /\ image.headers[j].load
        BY <1>2, <3>2 DEF LoadHeaders
      <4>2. pos \in PagesUpTo(image, n - 1)
        BY <3>2, <4>1, PagesIn
      <4> QED BY <1>8, <4>2
    <3> QED BY <1>2, <1>3, <3>1, <3>2, LinkedAssumption
  <2>3. PICK e : e = PageOf(image.entry)
    OBVIOUS
  <2>4. /\ map_page_alloc(job.space, pos, nx) /\ View(pml4, table, bytes, job.space, e, X, W)
        /\ (pos = e /\ pos \notin X => ~nx)
    BY <1>11, <1>15, <2>1, <2>2, <2>3
  <2>5. /\ BytesType' /\ \A l \in loaded : Done(pml4', table', bytes', l)
        /\ View(pml4', table', bytes', job.space, e, X \cup {pos}, W)
    BY <1>1, <1>7, <2>4, MappedShows
  <2>6. View(pml4', table', bytes', job.space, PageOf(job.image.entry),
             PagesAt("map", job.image, n, pos + 1), CellsAt("map", job.image, n, pos + 1))
    BY <1>2, <1>12, <2>3, <2>5
  <2> QED BY <1>1, <1>2, <1>13, <1>15, <2>5, <2>6, ContinueShows
<1>16. CASE map_page_alloc_fails(job.space, pos) /\ Fail
  BY <1>16, AllocFailShows
<1> QED BY <1>2, <1>4, <1>6, <1>14, <1>15, <1>16 DEF map_segment

LEMMA CheckBoundsShows ==
    ASSUME LoaderInv, ImageInv, check_bounds
    PROVE  ImageInv'
<1>1. stage = "map" /\ stage \in Building /\ UNCHANGED memory
  BY DEF check_bounds, Building
<1>2. PICK image \in Images, n \in Nat \ {0} :
        /\ image = job.image /\ n = job.seg /\ Segment = image.headers[n]
        /\ n \in LoadHeaders(image) /\ n \in 1 .. Len(image.headers)
  BY <1>1, SegmentIs
<1>3. PICK s : s = image.headers[n]
  OBVIOUS
<1>4. Segment = s /\ s.filesz \in Nat /\ s.load
  BY <1>1, <1>2, <1>3, SegmentIs
<1>5. PICK first \in Nat, last \in Nat : first = PageOf(s.vaddr) /\ last = EndPage(s)
  BY <1>1, <1>4, SegmentInLowerHalf
<1>6. Progress("map", image, n, job.pos)
  BY <1>1, <1>2 DEF ImageInv
<1>7. job.pos = last
  <2>1. job.pos \in first .. last /\ job.pos >= last
    BY <1>3, <1>4, <1>5, <1>6 DEF Progress, check_bounds
  <2> QED BY <2>1
<1>8. CASE Continue("copy", n, 0)
  <2>1. Progress("copy", image, n, 0)
    BY <1>3, <1>4, <1>6 DEF Progress
  <2>2. PagesAt("map", image, n, job.pos) = PagesUpTo(image, n)
    <3>1. PagesUpTo(image, n) = PagesUpTo(image, n - 1) \cup SegmentPages(s)
      BY <1>2, <1>3, <1>4, OneMore
    <3>2. SegmentPages(s) = first .. (last - 1)
      BY <1>5 DEF SegmentPages
    <3> QED BY <1>3, <1>5, <1>7, <3>1, <3>2 DEF PagesAt
  <2>3. Cells(image, n, 0) = {}
    BY DEF Cells
  <2>4. /\ PagesAt("copy", image, n, 0) = PagesUpTo(image, n)
        /\ CellsAt("copy", image, n, 0) = CellsAt("map", image, n, job.pos)
    BY <2>3 DEF PagesAt, CellsAt
  <2> QED BY <1>1, <1>2, <1>8, <2>1, <2>2, <2>4, ContinueSame
<1>9. CASE Fail
  BY <1>1, <1>9, FailShows
<1> QED BY <1>2, <1>8, <1>9 DEF check_bounds

\* Storing bytes leaves the other spaces alone.
LEMMA StoredElsewhere ==
    ASSUME LoaderInv, ImageInv, stage \in Building, UNCHANGED <<pml4, table>>,
           OthersAlone(pml4, table, bytes, bytes', Spaces, job.space)
    PROVE  \A l \in loaded : Done(pml4', table', bytes', l)
<1>1. ASSUME NEW l \in loaded
      PROVE  Untouched(pml4, table, bytes, pml4', table', bytes', l.space)
  <2>1. l.space \in Spaces /\ l.space # job.space
    BY SpaceOfLoaded DEF ImageInv
  <2> QED BY <2>1 DEF OthersAlone
<1> QED BY <1>1, LoadedKept

\* The addresses that a cell of the first n segments may have.
LEMMA CellElsewhere ==
    ASSUME NEW image \in Images, NEW n \in LoadHeaders(image), NEW k \in Nat,
           k <= Len(image.headers), NEW c \in CellsUpTo(image, k),
           c[1] \in Extent(image.headers[n])
    PROVE  n <= k /\ c \in Cells(image, n, image.headers[n].filesz)
<1>1. PICK i \in LoadHeaders(image) :
        /\ i <= k /\ c \in Cells(image, i, image.headers[i].filesz)
        /\ \A j \in LoadHeaders(image) : c[1] \in Extent(image.headers[j]) => j = i
  BY CellOf
<1>2. n = i
  BY <1>1
<1> QED BY <1>1, <1>2

\* The page in which load_into stores next.
LEMMA StoresInLowerHalf ==
    ASSUME NEW a \in Nat, NEW end \in Nat, a < end, PageOf(end + PAGE_SIZE - 1) <= Half * Entries
    PROVE  PageOf(a) \in UserPages
<1>1. PICK b \in Nat : b = end - 1 /\ a <= b
  <2>1. end - 1 \in Nat /\ a <= end - 1
    OBVIOUS
  <2> QED BY <2>1
<1>2. end + PAGE_SIZE - 1 = b + PAGE_SIZE
  BY <1>1, SizesAssumption
<1>3. PageOf(b) + 1 <= Half * Entries
  BY <1>2, NextPage
<1>4. PageOf(a) \in Nat /\ PageOf(b) \in Nat /\ PageOf(a) <= PageOf(b) /\ Half * Entries \in Nat
  <2>1. PageOf(a) \in Nat /\ PageOf(b) \in Nat
    BY AddressIs
  <2>2. PageOf(a) <= PageOf(b)
    BY <1>1, PageMonotone
  <2>3. Half * Entries \in Nat
    BY SizesAssumption
  <2> QED BY <2>1, <2>2, <2>3
<1> QED BY <1>3, <1>4 DEF UserPages

LEMMA WriteShows ==
    ASSUME LoaderInv, ImageInv, write
    PROVE  ImageInv'
<1>1. stage = "copy" /\ stage \in Building /\ UNCHANGED <<pml4, table>>
  BY DEF write, Store, Building
<1>2. PICK image \in Images, n \in Nat \ {0} :
        /\ image = job.image /\ n = job.seg /\ Segment = image.headers[n]
        /\ n \in LoadHeaders(image) /\ n \in 1 .. Len(image.headers)
  BY <1>1, SegmentIs
<1>3. PICK s : s = image.headers[n]
  OBVIOUS
<1>4. PICK v \in Nat, z \in Nat, f \in Nat : v = s.vaddr /\ z = s.filesz /\ f = s.offset
  BY <1>1, <1>2, <1>3, SegmentIs
<1>5. Segment = s /\ Len(image.headers) \in Nat /\ n - 1 \in Nat /\ n - 1 <= Len(image.headers) /\ n - 1 < n
  BY <1>2, <1>3, ImagesAssumption
<1>6. Progress("copy", image, n, job.pos)
  BY <1>1, <1>2 DEF ImageInv
<1>7. PICK pos \in Nat : pos = job.pos /\ pos < z
  <2>1. job.pos \in 0 .. z /\ job.pos < z
    BY <1>3, <1>4, <1>5, <1>6 DEF Progress, write
  <2> QED BY <2>1
<1>8. PICK X : X = PagesUpTo(image, n)
  OBVIOUS
<1>9. PICK W : W = CellsUpTo(image, n - 1) \cup Cells(image, n, pos)
  OBVIOUS
<1>10. PICK e : e = PageOf(image.entry)
  OBVIOUS
<1>11. PICK space : space = job.space
  OBVIOUS
<1>12. View(pml4, table, bytes, space, e, X, W)
  <2>1. PagesAt("copy", image, n, pos) = X /\ CellsAt("copy", image, n, pos) = W
    BY <1>8, <1>9 DEF PagesAt, CellsAt
  <2> QED BY <1>1, <1>2, <1>7, <1>10, <1>11, <2>1 DEF ImageInv
<1>13. PICK data : data = [i \in 0 .. (z - 1) |-> image.file[f + i + 1]]
  OBVIOUS
<1>14. Store(v, z, data) /\ Continue("copy", n, pos + Piece(v, z))
  <2>1. FileBytes = data
    BY <1>2, <1>4, <1>5, <1>13 DEF FileBytes
  <2> QED BY <1>2, <1>4, <1>5, <1>7, <2>1 DEF write
<1>15. PageOf(v + pos) \in UserPages
  <2>1. v + pos \in Nat /\ v + z \in Nat /\ v + pos < v + z
    BY <1>7
  <2>2. PageOf(v + z + PAGE_SIZE - 1) <= Half * Entries
    BY <1>2, <1>3, <1>4, LinkedAssumption
  <2> QED BY <2>1, <2>2, StoresInLowerHalf
<1>16. space \in Spaces
  BY <1>1, <1>11, FramesAssumption DEF LoaderInv, StageInv, Spaces
<1>17. PICK m \in Nat \ {0} :
             /\ m = Piece(v, z) /\ pos + m <= z /\ BytesType'
             /\ Stored(pml4, table, bytes, bytes', space, X,
                       (v + pos) .. (v + pos + m - 1), v, data)
             /\ OthersAlone(pml4, table, bytes, bytes', Spaces, space)
  <2>1. BytesType
    BY DEF ImageInv
  <2>2. space = job.space /\ pos = job.pos /\ pos < z
    BY <1>7, <1>11
  <2> QED BY <1>12, <1>14, <1>15, <1>16, <2>1, <2>2, StoreIs
<1>18. PICK R : R = (v + pos) .. (v + pos + m - 1)
  OBVIOUS
<1>19. \A a \in R : a \in Nat /\ a >= v + pos /\ a \in v .. (v + (pos + m) - 1) /\ a - v \in 0 .. (z - 1)
  BY <1>17, <1>18
<1>20. PICK k \in Nat : k = pos + m /\ k <= z /\ pos <= k
  BY <1>17
<1>21. \A c : c \in Cells(image, n, k) <=> \E a \in v .. (v + k - 1) : c = <<a, image.file[f + a - v + 1]>>
  <2>1. n \in LoadHeaders(image) /\ k <= image.headers[n].filesz
    BY <1>2, <1>3, <1>4, <1>20
  <2>2. \A c : c \in Cells(image, n, k) <=> CellAt(image, n, k, c)
    BY <2>1, CellIs
  <2> QED BY <1>3, <1>4, <2>2 DEF CellAt
<1>22. \A c : c \in Cells(image, n, pos) <=> \E a \in v .. (v + pos - 1) : c = <<a, image.file[f + a - v + 1]>>
  <2>1. n \in LoadHeaders(image) /\ pos <= image.headers[n].filesz
    BY <1>2, <1>3, <1>4, <1>7
  <2>2. \A c : c \in Cells(image, n, pos) <=> CellAt(image, n, pos, c)
    BY <2>1, CellIs
  <2> QED BY <1>3, <1>4, <2>2 DEF CellAt
<1>23. PICK N : N = {c \in Cells(image, n, k) : c[1] \in R}
  OBVIOUS
<1>24. \A c \in N : c[1] \in R /\ PageOf(c[1]) \in X
  BY <1>17, <1>18, <1>23 DEF Stored
<1>25. \A c \in W : c[1] \notin R
  <2> SUFFICES ASSUME NEW c \in W, c[1] \in R
               PROVE  FALSE
    OBVIOUS
  <2>1. CASE c \in Cells(image, n, pos)
    <3>1. PICK a \in v .. (v + pos - 1) : c = <<a, image.file[f + a - v + 1]>>
      BY <1>22, <2>1
    <3>2. c[1] = a
      BY <3>1
    <3> QED BY <1>19, <3>2
  <2>2. CASE c \in CellsUpTo(image, n - 1)
    <3>1. c[1] \in Extent(image.headers[n])
      <4>1. c[1] \in v .. (v + z - 1)
        BY <1>17, <1>18
      <4> QED BY <1>3, <1>4, <4>1 DEF Extent
    <3>2. n <= n - 1
      BY <1>2, <1>5, <2>2, <3>1, CellElsewhere
    <3> QED BY <3>2
  <2> QED BY <1>9, <2>1, <2>2
<1>26. \A p \in X, o \in 0 .. (PAGE_SIZE - 1) :
         IF Addr(p, o) \in R
         THEN Shows(N, Addr(p, o), bytes'[EntryOf(pml4, table, space, p).frame][o])
         ELSE bytes'[EntryOf(pml4, table, space, p).frame][o] = bytes[EntryOf(pml4, table, space, p).frame][o]
  <2> SUFFICES ASSUME NEW p \in X, NEW o \in 0 .. (PAGE_SIZE - 1), Addr(p, o) \in R
               PROVE  Shows(N, Addr(p, o), bytes'[EntryOf(pml4, table, space, p).frame][o])
    BY <1>17, <1>18 DEF Stored
  <2>1. PICK a : a = Addr(p, o)
    OBVIOUS
  <2>2. PICK b : b = bytes'[EntryOf(pml4, table, space, p).frame][o]
    OBVIOUS
  <2>3. b = data[a - v]
    BY <1>17, <1>18, <2>1, <2>2 DEF Stored
  <2>4. a \in Nat /\ a - v \in 0 .. (z - 1) /\ a \in v .. (v + k - 1)
    BY <1>19, <1>20, <2>1
  <2>5. b = image.file[f + a - v + 1]
    <3>1. b = image.file[f + (a - v) + 1]
      BY <1>13, <2>3, <2>4
    <3>2. f + (a - v) + 1 = f + a - v + 1
      BY <2>4
    <3> QED BY <3>1, <3>2
  <2>6. <<a, b>> \in Cells(image, n, k)
    BY <1>21, <2>4, <2>5
  <2>7. <<a, b>> \in N
    BY <1>23, <2>1, <2>6
  <2>8. Shows(N, a, b)
    BY <2>7 DEF Shows
  <2> QED BY <2>1, <2>2, <2>8
<1>27. PICK pm, tb, by, by2 : pm = pml4 /\ tb = table /\ by = bytes /\ by2 = bytes'
  OBVIOUS
<1>28. View(pm, tb, by2, space, e, X, W \cup N)
  <2>1. View(pm, tb, by, space, e, X, W)
    BY <1>12, <1>27
  <2>2. \A p \in X, o \in 0 .. (PAGE_SIZE - 1) :
          IF Addr(p, o) \in R
          THEN Shows(N, Addr(p, o), by2[EntryOf(pm, tb, space, p).frame][o])
          ELSE by2[EntryOf(pm, tb, space, p).frame][o] = by[EntryOf(pm, tb, space, p).frame][o]
    BY <1>26, <1>27
  <2> QED BY <1>24, <1>25, <2>1, <2>2, ViewStored
<1>29. W \cup N = CellsUpTo(image, n - 1) \cup Cells(image, n, k)
  <2>1. ASSUME NEW c
        PROVE  c \in Cells(image, n, k) <=> c \in Cells(image, n, pos) \/ c \in N
    <3>1. ASSUME c \in Cells(image, n, pos) PROVE c \in Cells(image, n, k)
      <4>1. \A a \in v .. (v + pos - 1) : a \in v .. (v + k - 1)
        BY <1>20
      <4> QED BY <1>21, <1>22, <3>1, <4>1
    <3>2. ASSUME c \in Cells(image, n, k), c \notin N PROVE c \in Cells(image, n, pos)
      <4>1. PICK a \in v .. (v + k - 1) : c = <<a, image.file[f + a - v + 1]>>
        BY <1>21, <3>2
      <4>2. a \notin R
        BY <1>23, <3>2, <4>1
      <4>3. a \in v .. (v + pos - 1)
        BY <1>18, <1>20, <4>2
      <4> QED BY <1>22, <4>1, <4>3
    <3> QED BY <1>23, <3>1, <3>2
  <2> QED BY <1>9, <2>1
<1>30. View(pml4', table', bytes', job.space, PageOf(job.image.entry),
            PagesAt("copy", job.image, n, k), CellsAt("copy", job.image, n, k))
  <2>1. PagesAt("copy", image, n, k) = X /\ CellsAt("copy", image, n, k) = W \cup N
    BY <1>8, <1>29 DEF PagesAt, CellsAt
  <2> QED BY <1>1, <1>2, <1>10, <1>11, <1>27, <1>28, <2>1
<1>31. Progress("copy", job.image, n, k)
  <2>1. k \in 0 .. z
    BY <1>20
  <2> QED BY <1>2, <1>3, <1>4, <1>6, <2>1 DEF Progress
<1>32. \A l \in loaded : Done(pml4', table', bytes', l)
  BY <1>1, <1>11, <1>17, StoredElsewhere
<1>33. Continue("copy", n, k) /\ BytesType'
  BY <1>14, <1>17, <1>20
<1> QED BY <1>1, <1>30, <1>31, <1>32, <1>33, ContinueShows

LEMMA WrittenShows ==
    ASSUME LoaderInv, ImageInv, written
    PROVE  ImageInv'
<1>1. stage = "copy" /\ stage \in Building /\ UNCHANGED memory
  BY DEF written, Building
<1>2. PICK image \in Images, n \in Nat \ {0} :
        /\ image = job.image /\ n = job.seg /\ Segment = image.headers[n]
        /\ n \in LoadHeaders(image) /\ n \in 1 .. Len(image.headers)
  BY <1>1, SegmentIs
<1>3. PICK z \in Nat : z = image.headers[n].filesz /\ image.headers[n].load
  BY <1>1, <1>2, SegmentIs
<1>4. Progress("copy", image, n, job.pos)
  BY <1>1, <1>2 DEF ImageInv
<1>5. job.pos = z
  <2>1. job.pos \in 0 .. z /\ job.pos >= z
    BY <1>2, <1>3, <1>4 DEF Progress, written
  <2> QED BY <2>1
<1>6. Progress("zero", image, n, 0)
  BY <1>4 DEF Progress
<1>7. CellsUpTo(image, n) = CellsUpTo(image, n - 1) \cup Cells(image, n, z)
  BY <1>3, OneMore
<1>8. /\ PagesAt("zero", image, n, 0) = PagesAt("copy", image, n, job.pos)
      /\ CellsAt("zero", image, n, 0) = CellsAt("copy", image, n, job.pos)
  BY <1>5, <1>7 DEF PagesAt, CellsAt
<1>9. Continue("zero", n, 0)
  BY <1>2 DEF written
<1> QED BY <1>1, <1>2, <1>6, <1>8, <1>9, ContinueSame

LEMMA ZeroShows ==
    ASSUME LoaderInv, ImageInv, zero
    PROVE  ImageInv'
<1>1. stage = "zero" /\ stage \in Building /\ UNCHANGED <<pml4, table>>
  BY DEF zero, Store, Building
<1>2. PICK image \in Images, n \in Nat \ {0} :
        /\ image = job.image /\ n = job.seg /\ Segment = image.headers[n]
        /\ n \in LoadHeaders(image) /\ n \in 1 .. Len(image.headers)
  BY <1>1, SegmentIs
<1>3. PICK s : s = image.headers[n]
  OBVIOUS
<1>4. PICK w \in Nat, z \in Nat, d \in Nat : w = s.vaddr /\ z = s.filesz /\ d = s.memsz
  BY <1>1, <1>2, <1>3, SegmentIs
<1>5. Segment = s /\ Len(image.headers) \in Nat /\ n <= Len(image.headers)
  BY <1>2, <1>3, ImagesAssumption
<1>6. Progress("zero", image, n, job.pos)
  BY <1>1, <1>2 DEF ImageInv
<1>7. PICK pos \in Nat : pos = job.pos /\ pos < d - z
  <2>1. job.pos \in Nat /\ job.pos < d - z
    BY <1>4, <1>5, <1>6 DEF Progress, zero
  <2> QED BY <2>1
<1>8. PICK len \in Nat, v \in Nat : len = d - z /\ v = w + z /\ v + len = w + d /\ pos < len
  <2>1. d - z \in Nat /\ w + z \in Nat /\ (w + z) + (d - z) = w + d
    BY <1>7
  <2> QED BY <1>7, <2>1
<1>9. PICK X : X = PagesUpTo(image, n)
  OBVIOUS
<1>10. PICK W : W = CellsUpTo(image, n)
  OBVIOUS
<1>11. PICK e : e = PageOf(image.entry)
  OBVIOUS
<1>12. PICK space : space = job.space
  OBVIOUS
<1>13. ASSUME NEW k
       PROVE  PagesAt("zero", image, n, k) = X /\ CellsAt("zero", image, n, k) = W
  BY <1>9, <1>10 DEF PagesAt, CellsAt
<1>14. View(pml4, table, bytes, space, e, X, W)
  BY <1>1, <1>2, <1>11, <1>12, <1>13 DEF ImageInv
<1>15. PICK data : data = [i \in 0 .. (len - 1) |-> 0]
  OBVIOUS
<1>16. Store(v, len, data) /\ Continue("zero", n, pos + Piece(v, len))
  <2>1. TailStart = v /\ Segment.memsz - Segment.filesz = len
    BY <1>4, <1>5, <1>8 DEF TailStart
  <2> QED BY <1>2, <1>7, <1>15, <2>1 DEF zero
<1>17. PageOf(v + pos) \in UserPages
  <2>1. v + pos \in Nat /\ w + d \in Nat /\ v + pos < w + d
    BY <1>8
  <2>2. PageOf(w + d + PAGE_SIZE - 1) <= Half * Entries
    <3>1. EndPage(s) <= Half * Entries
      BY <1>2, <1>3, ImagesAssumption DEF LoadHeaders
    <3> QED BY <1>4, <3>1 DEF EndPage
  <2> QED BY <2>1, <2>2, StoresInLowerHalf
<1>18. space \in Spaces
  BY <1>1, <1>12, FramesAssumption DEF LoaderInv, StageInv, Spaces
<1>19. PICK m \in Nat \ {0} :
             /\ m = Piece(v, len) /\ pos + m <= len /\ BytesType'
             /\ Stored(pml4, table, bytes, bytes', space, X,
                       (v + pos) .. (v + pos + m - 1), v, data)
             /\ OthersAlone(pml4, table, bytes, bytes', Spaces, space)
  <2>1. BytesType
    BY DEF ImageInv
  <2>2. space = job.space /\ pos = job.pos /\ pos < len
    BY <1>7, <1>8, <1>12
  <2> QED BY <1>14, <1>16, <1>17, <1>18, <2>1, <2>2, StoreIs
<1>20. PICK R : R = (v + pos) .. (v + pos + m - 1)
  OBVIOUS
<1>21. \A a \in R : /\ a \in Nat /\ a - v \in 0 .. (len - 1)
                    /\ a >= w + z /\ a \in w .. (w + d - 1)
  BY <1>8, <1>19, <1>20
<1>22. \A c \in W : c[1] \notin R
  <2> SUFFICES ASSUME NEW c \in W, c[1] \in R
               PROVE  FALSE
    OBVIOUS
  <2>1. c[1] \in Extent(image.headers[n])
    <3>1. c[1] \in w .. (w + d - 1)
      BY <1>21
    <3> QED BY <1>3, <1>4, <3>1 DEF Extent
  <2>2. c \in Cells(image, n, z)
    BY <1>2, <1>3, <1>4, <1>5, <1>10, <2>1, CellElsewhere
  <2>3. CellAt(image, n, z, c)
    <3>1. n \in LoadHeaders(image) /\ z <= image.headers[n].filesz
      BY <1>2, <1>3, <1>4
    <3> QED BY <2>2, <3>1, CellIs
  <2>4. PICK a \in w .. (w + z - 1) : c[1] = a
    BY <1>3, <1>4, <2>3 DEF CellAt
  <2> QED BY <1>21, <2>4
<1>23. \A p \in X, o \in 0 .. (PAGE_SIZE - 1) :
         IF Addr(p, o) \in R
         THEN Shows({}, Addr(p, o), bytes'[EntryOf(pml4, table, space, p).frame][o])
         ELSE bytes'[EntryOf(pml4, table, space, p).frame][o] = bytes[EntryOf(pml4, table, space, p).frame][o]
  <2> SUFFICES ASSUME NEW p \in X, NEW o \in 0 .. (PAGE_SIZE - 1), Addr(p, o) \in R
               PROVE  Shows({}, Addr(p, o), bytes'[EntryOf(pml4, table, space, p).frame][o])
    BY <1>19, <1>20 DEF Stored
  <2>1. PICK a : a = Addr(p, o)
    OBVIOUS
  <2>2. PICK b : b = bytes'[EntryOf(pml4, table, space, p).frame][o]
    OBVIOUS
  <2>3. b = data[a - v]
    BY <1>19, <1>20, <2>1, <2>2 DEF Stored
  <2>4. b = 0
    BY <1>15, <1>21, <2>1, <2>3
  <2>5. Shows({}, a, b)
    BY <2>4 DEF Shows
  <2> QED BY <2>1, <2>2, <2>5
<1>24. PICK pm, tb, by, by2 : pm = pml4 /\ tb = table /\ by = bytes /\ by2 = bytes'
  OBVIOUS
<1>25. View(pm, tb, by2, space, e, X, W)
  <2>1. View(pm, tb, by, space, e, X, W)
    BY <1>14, <1>24
  <2>2. PICK N : N = {}
    OBVIOUS
  <2>3. \A p \in X, o \in 0 .. (PAGE_SIZE - 1) :
          IF Addr(p, o) \in R
          THEN Shows(N, Addr(p, o), by2[EntryOf(pm, tb, space, p).frame][o])
          ELSE by2[EntryOf(pm, tb, space, p).frame][o] = by[EntryOf(pm, tb, space, p).frame][o]
    BY <1>23, <1>24, <2>2
  <2>4. \A c \in N : c[1] \in R /\ PageOf(c[1]) \in X
    BY <2>2
  <2>5. View(pm, tb, by2, space, e, X, W \cup N)
    BY <1>22, <2>1, <2>3, <2>4, ViewStored
  <2>6. W \cup N = W
    BY <2>2
  <2> QED BY <2>5, <2>6
<1>26. PICK k : k = pos + m
  OBVIOUS
<1>27. View(pml4', table', bytes', job.space, PageOf(job.image.entry),
            PagesAt("zero", job.image, n, k), CellsAt("zero", job.image, n, k))
  BY <1>1, <1>2, <1>11, <1>12, <1>13, <1>24, <1>25
<1>28. Progress("zero", job.image, n, k)
  <2>1. k \in Nat
    BY <1>19, <1>26
  <2> QED BY <1>2, <1>6, <2>1 DEF Progress
<1>29. \A l \in loaded : Done(pml4', table', bytes', l)
  BY <1>1, <1>12, <1>19, StoredElsewhere
<1>30. Continue("zero", n, k) /\ BytesType'
  BY <1>16, <1>19, <1>26
<1> QED BY <1>1, <1>27, <1>28, <1>29, <1>30, ContinueShows

LEMMA ZeroedShows ==
    ASSUME LoaderInv, ImageInv, zeroed
    PROVE  ImageInv'
<1>1. stage = "zero" /\ stage \in Building /\ UNCHANGED memory
  BY DEF zeroed, Building
<1>2. PICK image \in Images, n \in Nat \ {0} :
        /\ image = job.image /\ n = job.seg /\ n <= image.phnum /\ n \in 1 .. Len(image.headers)
  BY <1>1, SegmentIs
<1>3. n + 1 - 1 = n /\ n <= Len(image.headers)
  BY <1>2, ImagesAssumption
<1>4. Progress("segment", image, n + 1, 0)
  BY <1>2, <1>3 DEF Progress
<1>5. /\ PagesAt("segment", image, n + 1, 0) = PagesAt("zero", image, n, job.pos)
      /\ CellsAt("segment", image, n + 1, 0) = CellsAt("zero", image, n, job.pos)
  BY <1>3 DEF PagesAt, CellsAt
<1>6. Continue("segment", n + 1, 0)
  BY <1>2 DEF zeroed
<1> QED BY <1>1, <1>2, <1>4, <1>5, <1>6, ContinueSame

LEMMA CheckEntryShows ==
    ASSUME LoaderInv, ImageInv, check_entry
    PROVE  ImageInv'
<1>1. stage = "entry" /\ stage \in Building /\ UNCHANGED memory
  BY DEF check_entry, Building
<1>2. CASE is_mapped(job.space, PageOf(job.image.entry)) /\ Continue("stack", 0, 0)
  <2>1. PICK image \in Images : image = job.image
    BY <1>1 DEF LoaderInv, StageInv
  <2>2. PICK e \in UserPages : e = PageOf(image.entry)
    BY LinkedAssumption
  <2>3. PICK X, W : X = PagesUpTo(image, image.phnum) /\ W = CellsUpTo(image, image.phnum)
    OBVIOUS
  <2>4. /\ PagesAt("entry", image, job.seg, job.pos) = X
        /\ CellsAt("entry", image, job.seg, job.pos) = W
    BY <2>3 DEF PagesAt, CellsAt
  <2>5. View(pml4, table, bytes, job.space, e, X, W)
    BY <1>1, <2>1, <2>2, <2>4 DEF ImageInv
  <2>6. EntryOf(pml4, table, job.space, e) # None
    BY <1>2, <2>1, <2>2 DEF is_mapped, translate, EntryOf
  <2>7. e \in X
    BY <2>5, <2>6 DEF View
  <2>8. Progress("entry", image, job.seg, job.pos)
    BY <1>1, <2>1 DEF ImageInv
  <2>9. 0 \in 0 .. user_stack_pages
    BY LayoutAssumption
  <2>10. Progress("stack", image, 0, 0)
    BY <2>2, <2>3, <2>7, <2>8, <2>9 DEF Progress
  <2>11. StackDownTo(0) = {}
    BY LayoutAssumption DEF StackDownTo, UserPages
  <2>12. PagesAt("stack", image, 0, 0) = X /\ CellsAt("stack", image, 0, 0) = W
    BY <2>3, <2>11 DEF PagesAt, CellsAt
  <2> QED BY <1>1, <1>2, <2>1, <2>4, <2>10, <2>12, ContinueSame
<1>3. CASE Fail
  BY <1>1, <1>3, FailShows
<1> QED BY <1>2, <1>3 DEF check_entry

LEMMA MapStackShows ==
    ASSUME LoaderInv, ImageInv, map_stack
    PROVE  ImageInv'
<1>1. stage = "stack" /\ stage \in Building
  BY DEF map_stack, Building
<1>2. PICK image \in Images : image = job.image
  BY <1>1 DEF LoaderInv, StageInv
<1>3. PICK pos \in Nat : pos = job.pos /\ pos < user_stack_pages
  BY <1>1 DEF LoaderInv, StageInv, map_stack
<1>4. PICK e : e = PageOf(image.entry)
  OBVIOUS
<1>5. PICK X : X = PagesUpTo(image, image.phnum) \cup StackDownTo(pos)
  OBVIOUS
<1>6. PICK W : W = CellsUpTo(image, image.phnum)
  OBVIOUS
<1>7. ASSUME NEW n
      PROVE  PagesAt("stack", image, n, pos) = X /\ CellsAt("stack", image, n, pos) = W
  BY <1>5, <1>6 DEF PagesAt, CellsAt
<1>8. View(pml4, table, bytes, job.space, e, X, W)
  BY <1>1, <1>2, <1>3, <1>4, <1>7 DEF ImageInv
<1>9. Progress("stack", image, job.seg, pos)
  BY <1>1, <1>2, <1>3 DEF ImageInv
<1>10. e \in X
  BY <1>4, <1>5, <1>9 DEF Progress
<1>11. PICK page \in UserPages : page = StackTop - pos
  <2>1. /\ StackTop \in Nat /\ StackTop < Half * Entries /\ Half * Entries \in Nat
        /\ user_stack_pages \in Nat /\ StackTop - user_stack_pages >= 0
    BY LayoutAssumption, SizesAssumption DEF UserPages
  <2>2. StackTop - pos \in UserPages
    BY <1>3, <2>1 DEF UserPages
  <2> QED BY <2>2
<1>12. StackDownTo(pos + 1) = StackDownTo(pos) \cup {page}
  <2>1. StackTop \in Nat /\ StackTop - (pos + 1) + 1 = StackTop - pos
    BY LayoutAssumption DEF UserPages
  <2>2. (StackTop - pos) .. StackTop = ((StackTop - pos + 1) .. StackTop) \cup {StackTop - pos}
    BY <2>1
  <2> QED BY <1>11, <2>1, <2>2 DEF StackDownTo
<1>13. PagesAt("stack", image, 0, pos + 1) = X \cup {page} /\ CellsAt("stack", image, 0, pos + 1) = W
  BY <1>5, <1>6, <1>12 DEF PagesAt, CellsAt
<1>14. Progress("stack", image, 0, pos + 1)
  <2>1. pos + 1 \in 0 .. user_stack_pages
    BY <1>3, LayoutAssumption
  <2> QED BY <1>9, <2>1 DEF Progress
<1>15. CASE map_page_alloc(job.space, page, TRUE) /\ Continue("stack", 0, pos + 1)
  <2>1. page = e /\ page \notin X => ~TRUE
    BY <1>10
  <2>2. /\ BytesType' /\ \A l \in loaded : Done(pml4', table', bytes', l)
        /\ View(pml4', table', bytes', job.space, e, X \cup {page}, W)
    BY <1>1, <1>8, <1>15, <2>1, MappedShows
  <2>3. View(pml4', table', bytes', job.space, PageOf(job.image.entry),
             PagesAt("stack", job.image, 0, pos + 1), CellsAt("stack", job.image, 0, pos + 1))
    BY <1>2, <1>4, <1>13, <2>2
  <2> QED BY <1>1, <1>2, <1>14, <1>15, <2>2, <2>3, ContinueShows
<1>16. CASE map_page_alloc_fails(job.space, page) /\ Fail
  BY <1>16, AllocFailShows
<1> QED BY <1>3, <1>11, <1>15, <1>16 DEF map_stack

LEMMA AddTaskShows ==
    ASSUME LoaderInv, ImageInv, add_task
    PROVE  ImageInv'
<1>1. /\ stage = "stack" /\ stage \in Building /\ stage' = "idle" /\ job.pos = user_stack_pages
      /\ loaded' = loaded \cup {[image |-> job.image, space |-> job.space]}
      /\ UNCHANGED <<pml4, table, bytes>>
  BY DEF add_task, Building, memory
<1>2. PICK image \in Images : image = job.image
  BY <1>1 DEF LoaderInv, StageInv
<1>3. PICK l : l = [image |-> image, space |-> job.space]
  OBVIOUS
<1>4. l.image = image /\ l.space = job.space
  BY <1>3
<1>5. Progress("stack", image, job.seg, user_stack_pages)
  BY <1>1, <1>2 DEF ImageInv
<1>6. /\ PagesAt("stack", image, job.seg, user_stack_pages) =
           PagesUpTo(image, image.phnum) \cup StackDownTo(user_stack_pages)
      /\ CellsAt("stack", image, job.seg, user_stack_pages) = CellsUpTo(image, image.phnum)
  BY DEF PagesAt, CellsAt
<1>7. View(pml4, table, bytes, l.space, PageOf(l.image.entry),
           PagesUpTo(l.image, l.image.phnum) \cup StackDownTo(user_stack_pages),
           CellsUpTo(l.image, l.image.phnum))
  BY <1>1, <1>2, <1>4, <1>6 DEF ImageInv
<1>8. Done(pml4, table, bytes, l)
  BY <1>4, <1>5, <1>7 DEF Done, Progress
<1>9. BytesType' /\ \A k \in loaded : Done(pml4', table', bytes', k)
  BY <1>1, SameMemory
<1>10. \A k \in loaded' : Done(pml4', table', bytes', k)
  BY <1>1, <1>2, <1>3, <1>8, <1>9
<1> QED BY <1>1, <1>9, <1>10, Settled DEF Building

\* Before the first spawn_elf there is no space to show anything.
LEMMA BootShows ==
    ASSUME LoaderInv, ImageInv, heap_init \/ heap_ready \/ apic_init \/ apic_ready
    PROVE  ImageInv'
<1>1. stage \in {"heap", "apic"} /\ UNCHANGED loaded
  BY DEF heap_init, heap_ready, apic_init, apic_ready, Panic
<1>2. loaded = {} /\ loaded' = {}
  BY <1>1, NoSpaces
<1>3. stage' \in {"heap", "apic", "idle", "halted"}
  BY DEF heap_init, heap_ready, apic_init, apic_ready, Panic
<1>4. stage' \notin Building
  BY <1>3 DEF Building
<1>5. \E f : bytes' = [bytes EXCEPT ![f] = Zeros] \/ bytes' = bytes
  BY DEF heap_init, heap_ready, apic_init, apic_ready, Panic, memory, map_page_alloc, map_page_alloc_fails
<1>6. BytesType'
  BY <1>5 DEF ImageInv, BytesType
<1> QED BY <1>2, <1>4, <1>6, Settled

LEMMA ImageInvariant == Spec => []ImageInv
<1>1. Init => ImageInv
  BY DEF Init, ImageInv, BytesType, Building
<1>2. ASSUME LoaderInv, ImageInv, [Next]_vars
      PROVE  ImageInv'
  <2>1. CASE heap_init \/ heap_ready \/ apic_init \/ apic_ready
    BY <1>2, <2>1, BootShows
  <2>2. CASE \E image \in Images : new(image)
    <3>1. PICK image \in Images : new(image)
      BY <2>2
    <3>2. CASE free = {}
      BY <1>2, <3>1, <3>2, FailShows DEF new
    <3>3. CASE free # {}
      BY <1>2, <3>1, <3>3, NewShows
    <3> QED BY <3>2, <3>3
  <2>3. CASE check_header \/ next_segment \/ map_segment \/ check_bounds
    BY <1>2, <2>3, CheckHeaderShows, NextSegmentShows, MapSegmentShows, CheckBoundsShows
  <2>4. CASE write \/ written \/ zero \/ zeroed
    BY <1>2, <2>4, WriteShows, WrittenShows, ZeroShows, ZeroedShows
  <2>5. CASE write_fails
    BY <1>2, <2>5, FailShows DEF write_fails
  <2>6. CASE check_entry \/ map_stack \/ add_task
    BY <1>2, <2>6, CheckEntryShows, MapStackShows, AddTaskShows
  <2>7. CASE halted \/ UNCHANGED vars
    <3>1. UNCHANGED <<pml4, table, bytes, stage, job, loaded>>
      BY <2>7 DEF halted, vars
    <3> QED BY <1>2, <3>1 DEF ImageInv, BytesType
  <2> QED BY <1>2, <2>1, <2>2, <2>3, <2>4, <2>5, <2>6, <2>7 DEF Next
<1> QED BY <1>1, <1>2, LoaderInvariant, PTL DEF Spec

\* The view of a finished space, in the words of ImageLoaded.
LEMMA AskedForIs ==
    ASSUME NEW image \in Images, image.phnum <= Len(image.headers)
    PROVE  AskedFor(image) = PagesUpTo(image, image.phnum) \cup StackDownTo(user_stack_pages)
<1>1. PICK n \in Nat : n = image.phnum /\ n <= Len(image.headers) /\ Len(image.headers) \in Nat
  BY ImagesAssumption
<1>2. StackPages = StackDownTo(user_stack_pages)
  BY DEF StackPages, StackDownTo
<1>3. ASSUME NEW i \in 1 .. n, image.headers[i].load
      PROVE  SegmentPages(image.headers[i]) =
               IF image.headers[i].memsz > 0
               THEN PageOf(image.headers[i].vaddr) ..
                      PageOf(image.headers[i].vaddr + image.headers[i].memsz - 1)
               ELSE {}
  <2>1. i \in LoadHeaders(image) /\ i \in 1 .. Len(image.headers)
    BY <1>1, <1>3 DEF LoadHeaders
  <2>2. image.headers[i] \in Header
    BY <2>1, HeaderIs
  <2>3. image.headers[i].memsz = 0 => image.headers[i].vaddr % PAGE_SIZE = 0
    BY <2>1, LinkedAssumption
  <2> QED BY <2>2, <2>3, PagesOfSegment
<1>4. ASSUME NEW p
      PROVE  p \in UNION {PageOf(s.vaddr) .. PageOf(s.vaddr + s.memsz - 1) :
                            s \in {t \in LoadSegments(image) : t.memsz > 0}}
               <=> p \in PagesUpTo(image, n)
  <2>1. p \in UNION {PageOf(s.vaddr) .. PageOf(s.vaddr + s.memsz - 1) :
                       s \in {t \in LoadSegments(image) : t.memsz > 0}}
          <=> \E i \in 1 .. n : /\ image.headers[i].load /\ image.headers[i].memsz > 0
                                /\ p \in PageOf(image.headers[i].vaddr) ..
                                     PageOf(image.headers[i].vaddr + image.headers[i].memsz - 1)
    BY <1>1 DEF LoadSegments
  <2>2. p \in PagesUpTo(image, n) <=>
          \E i \in 1 .. n : image.headers[i].load /\ p \in SegmentPages(image.headers[i])
    BY PagesIn
  <2> QED BY <1>3, <2>1, <2>2
<1>5. PICK U : U = UNION {PageOf(s.vaddr) .. PageOf(s.vaddr + s.memsz - 1) :
                            s \in {t \in LoadSegments(image) : t.memsz > 0}}
  OBVIOUS
<1>6. U = PagesUpTo(image, n)
  <2>1. \A p : p \in U <=> p \in PagesUpTo(image, n)
    BY <1>4, <1>5
  <2> QED BY <2>1
<1>7. AskedFor(image) = StackPages \cup U
  BY <1>5 DEF AskedFor
<1> QED BY <1>1, <1>2, <1>6, <1>7

LEMMA ByteAtIs ==
    ASSUME NEW image \in Images, image.phnum <= Len(image.headers), NEW a, NEW b,
           Shows(CellsUpTo(image, image.phnum), a, b)
    PROVE  b = ByteAt(image, a)
<1>1. PICK n \in Nat : n = image.phnum /\ n <= Len(image.headers) /\ Len(image.headers) \in Nat
  BY ImagesAssumption
<1>2. PICK W : W = CellsUpTo(image, n)
  OBVIOUS
<1>3. PICK S : S = {s \in LoadSegments(image) : a \in s.vaddr .. (s.vaddr + s.filesz - 1)}
  OBVIOUS
<1>4. ASSUME NEW s \in S
      PROVE  \E i \in LoadHeaders(image) : /\ i \in 1 .. n /\ s = image.headers[i]
                                           /\ s.vaddr \in Nat /\ s.filesz \in Nat /\ s.offset \in Nat
  <2>1. PICK i \in 1 .. n : image.headers[i].load /\ s = image.headers[i]
    BY <1>1, <1>3 DEF LoadSegments
  <2>2. i \in LoadHeaders(image) /\ i \in 1 .. Len(image.headers)
    BY <1>1, <2>1 DEF LoadHeaders
  <2> QED BY <2>1, <2>2, HeaderIs
<1>5. ASSUME NEW c \in W, c[1] = a
      PROVE  S # {} /\ \A s \in S : c = <<a, image.file[s.offset + a - s.vaddr + 1]>>
  <2>1. PICK i \in LoadHeaders(image) :
          /\ i <= n /\ c \in Cells(image, i, image.headers[i].filesz)
          /\ \A j \in LoadHeaders(image) : c[1] \in Extent(image.headers[j]) => j = i
    BY <1>1, <1>2, CellOf
  <2>2. PICK t : t = image.headers[i]
    OBVIOUS
  <2>3. t.vaddr \in Nat /\ t.filesz \in Nat /\ t.load /\ i \in 1 .. n
    BY <1>1, <2>1, <2>2, HeaderIs DEF LoadHeaders
  <2>4. CellAt(image, i, t.filesz, c)
    BY <2>1, <2>2, <2>3, CellIs
  <2>5. a \in t.vaddr .. (t.vaddr + t.filesz - 1) /\ c = <<a, image.file[t.offset + a - t.vaddr + 1]>>
    BY <1>5, <2>2, <2>4 DEF CellAt
  <2>6. t \in S
    BY <1>1, <1>3, <2>2, <2>3, <2>5 DEF LoadSegments
  <2>7. ASSUME NEW s \in S
        PROVE  s = t
    <3>1. PICK j \in LoadHeaders(image) : s = image.headers[j]
      BY <1>4
    <3>2. a \in Extent(image.headers[j])
      BY <1>3, <3>1 DEF Extent
    <3>3. j = i
      BY <1>5, <2>1, <3>2
    <3> QED BY <2>2, <3>1, <3>3
  <2> QED BY <2>5, <2>6, <2>7
<1>6. ASSUME NEW s \in S
      PROVE  \E c \in W : c[1] = a
  <2>1. PICK i \in LoadHeaders(image) :
          i \in 1 .. n /\ s = image.headers[i] /\ s.vaddr \in Nat /\ s.filesz \in Nat /\ s.offset \in Nat
    BY <1>4
  <2>2. PICK c : c = <<a, image.file[s.offset + a - s.vaddr + 1]>>
    OBVIOUS
  <2>3. CellAt(image, i, s.filesz, c)
    BY <1>3, <2>1, <2>2 DEF CellAt
  <2>4. c \in Cells(image, i, s.filesz)
    BY <2>1, <2>3, CellIs
  <2>5. image.headers[i].load
    BY <2>1 DEF LoadHeaders
  <2>6. c \in W
    BY <1>2, <2>1, <2>4, <2>5, CellsIn
  <2> QED BY <2>2, <2>6
<1>7. Shows(W, a, b)
  BY <1>1, <1>2
<1>8. CASE S = {}
  <2>1. ~ \E c \in W : c[1] = a
    BY <1>5, <1>8
  <2>2. b = 0
    BY <1>7, <2>1 DEF Shows
  <2>3. ByteAt(image, a) = 0
    BY <1>3, <1>8 DEF ByteAt
  <2> QED BY <2>2, <2>3
<1>9. CASE S # {}
  <2>1. \E c \in W : c[1] = a
    BY <1>6, <1>9
  <2>2. PICK c : c = <<a, b>>
    OBVIOUS
  <2>3. c \in W /\ c[1] = a
    BY <1>7, <2>1, <2>2 DEF Shows
  <2>4. PICK s : s = CHOOSE t \in S : TRUE
    OBVIOUS
  <2>5. s \in S
    BY <1>9, <2>4
  <2>6. c = <<a, image.file[s.offset + a - s.vaddr + 1]>>
    BY <1>5, <2>3, <2>5
  <2>7. b = image.file[s.offset + a - s.vaddr + 1]
    BY <2>2, <2>6
  <2>8. ByteAt(image, a) = image.file[s.offset + a - s.vaddr + 1]
    BY <1>3, <1>9, <2>4 DEF ByteAt
  <2> QED BY <2>7, <2>8
<1> QED BY <1>8, <1>9

(***************************************************************************)
(* Whatever the sizes of pages, tables and memory, and whatever images are *)
(* loaded before, after or without success: a task that was added has      *)
(* exactly the pages that its segments and its stack ask for, these hold   *)
(* the bytes of the file, zeros elsewhere and nothing of earlier owners,   *)
(* and its entry point may be executed.                                    *)
(***************************************************************************)
THEOREM ImagesAreLoaded == Spec => []ImageLoaded
<1>1. ImageInv => ImageLoaded
  <2> SUFFICES ASSUME ImageInv, NEW l \in loaded
               PROVE  /\ {p \in UserPages : is_mapped(l.space, p)} = AskedFor(l.image)
                      /\ \A p \in AskedFor(l.image), o \in 0 .. (PAGE_SIZE - 1) :
                           bytes[translate(l.space, p).frame][o] =
                             ByteAt(l.image, p * PAGE_SIZE + o)
                      /\ ~translate(l.space, PageOf(l.image.entry)).nx
    BY DEF ImageLoaded
  <2>1. PICK image \in Images : image = l.image /\ image.phnum <= Len(image.headers)
    BY DEF ImageInv, Done
  <2>2. PICK X : X = AskedFor(image)
    OBVIOUS
  <2>3. PICK W : W = CellsUpTo(image, image.phnum)
    OBVIOUS
  <2>4. X = PagesUpTo(image, image.phnum) \cup StackDownTo(user_stack_pages)
    BY <2>1, <2>2, AskedForIs
  <2>5. View(pml4, table, bytes, l.space, PageOf(image.entry), X, W) /\ PageOf(image.entry) \in X
    BY <2>1, <2>3, <2>4 DEF ImageInv, Done
  <2>6. \A p : translate(l.space, p) = EntryOf(pml4, table, l.space, p)
    BY DEF translate, EntryOf
  <2>7. {p \in UserPages : is_mapped(l.space, p)} = X
    BY <2>5, <2>6 DEF View, is_mapped
  <2>8. ASSUME NEW p \in X, NEW o \in 0 .. (PAGE_SIZE - 1)
        PROVE  bytes[translate(l.space, p).frame][o] = ByteAt(image, p * PAGE_SIZE + o)
    <3>1. PICK a : a = Addr(p, o)
      OBVIOUS
    <3>2. PICK b : b = bytes[translate(l.space, p).frame][o]
      OBVIOUS
    <3>3. Shows(W, a, b)
      BY <2>5, <2>6, <3>1, <3>2 DEF View
    <3>4. b = ByteAt(image, a)
      BY <2>1, <2>3, <3>3, ByteAtIs
    <3>5. ByteAt(image, Addr(p, o)) = ByteAt(image, p * PAGE_SIZE + o)
      BY DEF Addr
    <3> QED BY <3>1, <3>2, <3>4, <3>5
  <2>9. ~translate(l.space, PageOf(image.entry)).nx
    BY <2>5, <2>6 DEF View
  <2> QED BY <2>1, <2>2, <2>7, <2>8, <2>9
<1> QED BY <1>1, ImageInvariant, PTL
=============================================================================
