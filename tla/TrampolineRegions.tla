-------------------------- MODULE TrampolineRegions --------------------------
(***************************************************************************)
(* "Trampoline Memory Management" of src/utils/detour/detours.cpp: regions *)
(* of 64 KB cut into trampoline slots, each within the reach of a relative *)
(* jump from the functions its slots serve.                                *)
(*                                                                         *)
(* The address space is a row of region-sized units; unit u begins at      *)
(* address u * UnitSize.  Its first slot is the region's header, the slots *)
(* of the array pTrampoline have the indices 0 .. TrampolinesPerRegion-1.  *)
(* One thread at a time, the owner of the transaction, calls this code.    *)
(***************************************************************************)
EXTENDS Integers, Sequences, FiniteSets

CONSTANTS
    Top,                   \* the last unit of the user address space
    TrampolinesPerRegion,
    Targets,               \* functions to detour
    AddressOf,             \* their addresses
    JumpsTo,               \* where the jump at their entry leads, or Null
    Reach,                 \* 2 GB less a margin: detour_2gb_above and _below
    LowEnd, HighEnd,       \* the bounds where 2 GB would leave the space
    Offset,                \* 1 GB, in units; 0 in a 32-bit build
    SystemLower, SystemUpper,   \* units of the window kept for system DLLs
    SystemStep,            \* the stride over that window
    Null

Units == 0 .. Top
Indices == 0 .. TrampolinesPerRegion - 1
UnitSize == TrampolinesPerRegion + 1
Address == 0 .. (Top + 1) * UnitSize - 1

ASSUME TopAssumption == Top \in Nat
ASSUME SlotsAssumption == TrampolinesPerRegion \in Nat /\ TrampolinesPerRegion > 2
ASSUME AddressAssumption == AddressOf \in [Targets -> Address]
ASSUME JumpsAssumption == JumpsTo \in [Targets -> Address \cup {Null}]
ASSUME NullAssumption == Null \notin Targets \cup Int
ASSUME ContentsAssumption == {"fresh", "free"} \cap (Targets \cup {Null}) = {}
ASSUME ReachAssumption ==
    /\ Reach \in Nat /\ LowEnd \in Nat /\ HighEnd \in Nat /\ Offset \in Nat
    /\ SystemLower \in Nat /\ SystemUpper \in Nat /\ SystemStep \in Nat \ {0}

VARIABLES
    memory,     \* "free", "fragment" (free, but less than a region), "other"
                \* or "region", for each unit
    s_pRegions, \* the list of regions, newest first
    s_pRegion,  \* the default region, or Null
    pFree,      \* each region's free list: indices of its slots
    block,      \* contents of each slot: "fresh", "free" or a target
    returned    \* the slot the latest detour_alloc_trampoline returned

vars == <<memory, s_pRegions, s_pRegion, pFree, block, returned>>

Slots == Units \X Indices
AddressOfSlot(s) == s[1] * UnitSize + 1 + s[2]
Listed(u) == \E i \in DOMAIN s_pRegions : s_pRegions[i] = u
InUse(s) == block[s] \in Targets

\* The targets' own pages.
Occupied == {AddressOf[t] \div UnitSize : t \in Targets}

Unallocated(u) == IF u \in Occupied THEN {"other"}
                  ELSE {"free", "fragment", "other"}

Init ==
    /\ memory \in {m \in [Units -> {"free", "fragment", "other"}] :
                      \A u \in Units : m[u] \in Unallocated(u)}
    /\ s_pRegions = <<>>
    /\ s_pRegion = Null
    /\ pFree = [u \in Units |-> <<>>]
    /\ block = [s \in Slots |-> "fresh"]
    /\ returned = Null

-----------------------------------------------------------------------------
(* detour_find_jmp_bounds: reach of the function, and of what it jumps to. *)

Below(a) == IF a > Reach THEN a - Reach ELSE LowEnd
\* The margin makes both of 2gb_above's branches agree with this.
Above(a) == IF a + Reach <= HighEnd THEN a + Reach ELSE HighEnd

pLo(t) == IF JumpsTo[t] # Null /\ JumpsTo[t] >= AddressOf[t]
          THEN Below(JumpsTo[t]) ELSE Below(AddressOf[t])
pHi(t) == IF JumpsTo[t] # Null /\ JumpsTo[t] < AddressOf[t]
          THEN Above(JumpsTo[t]) ELSE Above(AddressOf[t])

Fits(t, s) == pLo(t) <= AddressOfSlot(s) /\ AddressOfSlot(s) <= pHi(t)

-----------------------------------------------------------------------------
(* The search for a new region.  It goes unit by unit, and over the window *)
(* of the system DLLs in strides that may carry it past the window's end.  *)
(* An allocation of many units is that many units of "other", so a search  *)
(* meets the window at its bound unless it starts inside.                  *)

InWindow(u) == SystemLower <= u /\ u <= SystemUpper

\* Where a search that enters the window at e comes out of it.
PastWindow(e)   == e + SystemStep * ((SystemUpper - e) \div SystemStep + 1)
BelowWindow(e)  == e - SystemStep * ((e - SystemLower) \div SystemStep + 1)

TriedUp(from) == {u \in Units :
    /\ from <= u
    /\ u >= SystemLower /\ from <= SystemUpper =>
           u >= PastWindow(IF from > SystemLower THEN from ELSE SystemLower)}
TriedDown(from) == {u \in Units :
    /\ u <= from
    /\ u <= SystemUpper /\ from >= SystemLower =>
           u <= BelowWindow(IF from < SystemUpper THEN from ELSE SystemUpper)}

RoundUp(a)   == (a + UnitSize - 1) \div UnitSize
RoundDown(a) == a \div UnitSize

\* detour_alloc_region_from_lo: the lowest free unit from lo on, below hi.
FromLo(lo, hi) == {u \in TriedUp(RoundUp(lo)) :
    /\ memory[u] = "free"
    /\ u * UnitSize < hi
    /\ \A v \in TriedUp(RoundUp(lo)) : v < u => memory[v] # "free"}

\* detour_alloc_region_from_hi: the highest one.  The search ends at a free
\* fragment, whose AllocationBase is NULL, and outside the user space.
FromHi(lo, hi) ==
    LET from == RoundDown(hi - UnitSize)
        tried == IF from \in Units THEN TriedDown(from) ELSE {}
    IN
    {u \in tried :
        /\ memory[u] = "free"
        /\ u * UnitSize > lo
        /\ \A v \in tried : v > u => memory[v] = "other" \/ memory[v] = "region"}

\* detour_alloc_trampoline_allocate_new, for the target's address rounded down
\* to a unit: the first of the searches that finds one.
FirstOf(searches) ==
    UNION {searches[i] : i \in {j \in DOMAIN searches :
                                   \A k \in 1 .. j - 1 : searches[k] = {}}}

NewRegion(t) ==
    LET at  == RoundDown(AddressOf[t]) * UnitSize
        off == Offset * UnitSize
        near == <<FromHi(pLo(t), at), FromLo(at, pHi(t))>>
        far  == <<IF at > off THEN FromHi(pLo(t), at - off) ELSE {},
                  FromLo(at + off, pHi(t)),
                  IF at > off THEN FromLo(at - off, at) ELSE {},
                  FromHi(at, at + off)>>
    IN  FirstOf(IF Offset = 0 THEN near ELSE far \o near)

-----------------------------------------------------------------------------
(* detour_alloc_trampoline.                                                *)

\* "Insure that there is a default region."
Default == IF s_pRegion = Null /\ s_pRegions # <<>> THEN Head(s_pRegions)
           ELSE s_pRegion

\* Only the head of a free list is looked at.
HeadFits(t, u) == pFree[u] # <<>> /\ Fits(t, <<u, Head(pFree[u])>>)

\* found_region, for region u with that free list and contents: "do a last
\* sanity check on region", then the head is the caller's.
NoSanityCheck(t, s) == TRUE
SanityCheck(t, s) == Fits(t, s)

\* The list without its head.
NotAdvanced(list) == list
Advanced(list) == Tail(list)

Found(t, u, list, contents) ==
    LET s == <<u, Head(list)>> IN
    /\ s_pRegion' = u
    /\ \/ /\ SanityCheck(t, s)
          /\ pFree' = [pFree EXCEPT ![u] = Advanced(list)]
          /\ block' = [contents EXCEPT ![s] = t]
          /\ returned' = s
       \/ /\ ~SanityCheck(t, s)
          /\ pFree' = [pFree EXCEPT ![u] = list]
          /\ block' = contents
          /\ returned' = Null

AllocDefault(t) ==
    /\ Default # Null
    /\ HeadFits(t, Default)
    /\ Found(t, Default, pFree[Default], block)
    /\ UNCHANGED <<memory, s_pRegions>>

\* The default region did not do.
Elsewhere(t) == Default # Null => ~HeadFits(t, Default)

AllocExisting(t) ==
    /\ Elsewhere(t)
    /\ \E i \in DOMAIN s_pRegions :
          /\ HeadFits(t, s_pRegions[i])
          /\ \A j \in 1 .. i - 1 : ~HeadFits(t, s_pRegions[j])
          /\ Found(t, s_pRegions[i], pFree[s_pRegions[i]], block)
    /\ UNCHANGED <<memory, s_pRegions>>

NoneFits(t) == \A i \in DOMAIN s_pRegions : ~HeadFits(t, s_pRegions[i])

\* A new region's free list, lowest slot first.  The slots that are not on it
\* stay zero, as VirtualAlloc made them.
FreshList == [i \in 1 .. TrampolinesPerRegion - 2 |-> i + 1]

Formatted(u) == [s \in Slots |->
    IF s[1] # u THEN block[s]
    ELSE IF s[2] \in {FreshList[i] : i \in DOMAIN FreshList} THEN "free"
    ELSE "fresh"]

AllocNew(t) ==
    /\ Elsewhere(t)
    /\ NoneFits(t)
    /\ \E u \in NewRegion(t) :
          /\ memory' = [memory EXCEPT ![u] = "region"]
          /\ s_pRegions' = <<u>> \o s_pRegions
          /\ Found(t, u, FreshList, Formatted(u))

\* No unit is free, or the process may not allocate executable memory; the
\* walk over the regions has left s_pRegion at the list's end.
AllocFails(t) ==
    /\ Elsewhere(t)
    /\ NoneFits(t)
    /\ s_pRegion' = Null
    /\ returned' = Null
    /\ UNCHANGED <<memory, s_pRegions, pFree, block>>

Alloc(t) == AllocDefault(t) \/ AllocExisting(t) \/ AllocNew(t) \/ AllocFails(t)

-----------------------------------------------------------------------------
(* Giving slots and regions back.                                          *)

\* A freed slot is cleared, then linked to its region's list.
LinkErased(s) == <<s[2]>>
Linked(s) == <<s[2]>> \o pFree[s[1]]

\* detour_free_trampoline: by an abort or a failed attach, and by the commit
\* of a removal.
FreeTrampoline(s) ==
    /\ InUse(s)
    /\ block' = [block EXCEPT ![s] = "free"]
    /\ pFree' = [pFree EXCEPT ![s[1]] = Linked(s)]
    /\ UNCHANGED <<memory, s_pRegions, s_pRegion, returned>>

\* detour_is_region_empty: every pbRemain is NULL or a link of the free list,
\* and not the rest of a function.
FirstSlotFree(u) == block[<<u, 2>>] \in {"fresh", "free"}
IsRegionEmpty(u) == \A k \in Indices : block[<<u, k>>] \in {"fresh", "free"}

DefaultKept(unused) == s_pRegion
DefaultAfter(unused) == IF unused # {} THEN Null ELSE s_pRegion

\* The list of regions without those, in the same order: the region at n in it
\* is at Kept(unused, n) in the old list.
Remaining(unused) == {i \in DOMAIN s_pRegions : s_pRegions[i] \notin unused}
Kept(unused, n) == CHOOSE i \in Remaining(unused) :
                       Cardinality({j \in Remaining(unused) : j <= i}) = n
Unlinked(unused) == [n \in 1 .. Cardinality(Remaining(unused)) |->
                        s_pRegions[Kept(unused, n)]]

\* detour_free_unused_trampoline_regions, at the end of a commit that freed a
\* slot.
FreeUnusedRegions ==
    LET unused == {u \in Units : Listed(u) /\ IsRegionEmpty(u)} IN
    /\ s_pRegions' = Unlinked(unused)
    /\ memory' = [u \in Units |-> IF u \in unused THEN "free" ELSE memory[u]]
    /\ s_pRegion' = DefaultAfter(unused)
    /\ pFree' = [u \in Units |-> IF u \in unused THEN <<>> ELSE pFree[u]]
    /\ block' = [s \in Slots |-> IF s[1] \in unused THEN "fresh" ELSE block[s]]
    /\ UNCHANGED returned

\* The rest of the process maps and unmaps memory.
MapElsewhere(u, m) ==
    /\ memory[u] # "region"
    /\ m \in Unallocated(u)
    /\ memory' = [memory EXCEPT ![u] = m]
    /\ UNCHANGED <<s_pRegions, s_pRegion, pFree, block, returned>>

Next ==
    \/ \E t \in Targets : Alloc(t)
    \/ \E s \in Slots : FreeTrampoline(s)
    \/ FreeUnusedRegions
    \/ \E u \in Units : \E m \in Unallocated(u) : MapElsewhere(u, m)

Spec == Init /\ [][Next]_vars

-----------------------------------------------------------------------------
(* Properties.                                                             *)

TypeOK ==
    /\ memory \in [Units -> {"free", "fragment", "other", "region"}]
    /\ s_pRegions \in Seq(Units)
    /\ s_pRegion \in Units \cup {Null}
    /\ pFree \in [Units -> Seq(Indices)]
    /\ block \in [Slots -> Targets \cup {"fresh", "free"}]
    /\ returned \in Slots \cup {Null}

\* A free list leads through every free slot of its region once, and through
\* nothing else: no slot is handed out twice and none is lost.
FreeListsExact ==
    \A u \in Units :
        /\ \A i, j \in DOMAIN pFree[u] : pFree[u][i] = pFree[u][j] => i = j
        /\ \A k \in Indices :
              block[<<u, k>>] = "free" <=> \E i \in DOMAIN pFree[u] : pFree[u][i] = k

\* The list of regions is what this code has allocated and not released, each
\* region once; the default region is one of them, and so is the region of
\* every slot in use.
RegionsAreMapped ==
    /\ \A u \in Units : memory[u] = "region" <=> Listed(u)
    /\ \A i, j \in DOMAIN s_pRegions : s_pRegions[i] = s_pRegions[j] => i = j
    /\ s_pRegion # Null => Listed(s_pRegion)
    /\ \A s \in Slots : InUse(s) => Listed(s[1])

\* "We have to place trampolines within +/- 2GB of target", and of what the
\* target jumps to.
WithinReach == \A s \in Slots : InUse(s) => Fits(block[s], s)

\* Releasing the empty regions takes no slot away from its holder.
HeldSlotsSurvive ==
    [][FreeUnusedRegions =>
          \A s \in Slots : InUse(s) => block'[s] = block[s] /\ memory'[s[1]] = "region"]_vars

\* What the attaching code relies on.
Pool == INSTANCE SlotPool WITH
            held <- [s \in Slots |-> IF InUse(s) THEN block[s] ELSE Null],
            InReach <- Fits
HandsOutFreeSlots == Pool!Spec
=============================================================================
