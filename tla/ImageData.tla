------------------------------- MODULE ImageData -------------------------------
(***************************************************************************)
(* CImageData: the payloads of a binary, a list of records that each start *)
(* with their size and GUID (src/utils/detour/image.cpp).                  *)
(*                                                                         *)
(* d.recs are the records in their order, d.alloc is m_cbAlloc, and        *)
(* d.mapped says that m_pbData still points into the read-only view of the *)
(* file.  What a payload contains is left out; its size stands for it.     *)
(***************************************************************************)
EXTENDS Integers, Sequences, SequencesExt, Sums

SizeofRecord == 24      \* sizeof(DETOUR_SECTION_RECORD)

Align(a, size) == ((a + size - 1) \div size) * size
QuadAlign(a)   == Align(a, 8)

\* The offset behind the first n records, and m_cbData.
Offset(recs, n) == SumTo([k \in DOMAIN recs |-> recs[k].cbBytes], n)
CbData(d) == Offset(d.recs, Len(d.recs))

\* The data of a file's .detour section; nothing if it has none.
ReadData(recs, had) == [recs |-> recs, alloc |-> 0, mapped |-> had]
IsEmpty(d) == CbData(d) = 0

\* Find: the first record of that GUID, or 0.
Find(d, guid) ==
    LET found == {n \in DOMAIN d.recs : d.recs[n].guid = guid}
    IN  IF found = {} THEN 0 ELSE CHOOSE n \in found : \A k \in found : n <= k
FoundSize(d, guid) ==
    IF Find(d, guid) = 0 THEN 0 ELSE d.recs[Find(d, guid)].cbBytes - SizeofRecord

\* Enumerate: the GUIDs in the order in which the iterator meets them.
Enumerated(d) ==
    LET next == [it \in {Offset(d.recs, n) : n \in 0 .. Len(d.recs)} |->
                    IF CbData(d) < it + SizeofRecord THEN 0
                    ELSE CHOOSE n \in DOMAIN d.recs : Offset(d.recs, n - 1) = it]
    IN  [n \in 1 .. Len(d.recs) |-> d.recs[next[Offset(d.recs, n - 1)]].guid]

\* Delete moves what follows the record; in the view of the file that faults.
DeleteFaults(d, guid) ==
    /\ d.mapped
    /\ Find(d, guid) \in 1 .. Len(d.recs) - 1
Delete(d, guid) ==
    IF Find(d, guid) = 0 THEN d
    ELSE [d EXCEPT !.recs = RemoveAt(@, Find(d, guid))]

\* Set deletes the old record, makes room with SizeTo, and appends.
RecordSize(cbData) == QuadAlign(cbData) + SizeofRecord
NeedsRoom(d, guid, cbData) ==
    CbData(Delete(d, guid)) + RecordSize(cbData) > d.alloc
SizeTo(d, cb) == IF cb <= d.alloc THEN d
                 ELSE [d EXCEPT !.alloc = cb, !.mapped = FALSE]
SetKeepsOld(d, guid, cbData) ==                 \* a mutant of the next
    [SizeTo(d, CbData(d) + RecordSize(cbData)) EXCEPT
        !.recs = Append(@, [guid |-> guid, cbBytes |-> RecordSize(cbData)])]
Set(d, guid, cbData) ==
    LET rest == Delete(d, guid)
        room == SizeTo(rest, CbData(rest) + RecordSize(cbData))
    IN  [room EXCEPT !.recs = Append(@, [guid |-> guid, cbBytes |-> RecordSize(cbData)])]

Purge(d) == [d EXCEPT !.recs = <<>>]
===============================================================================
