------------------------------- MODULE ImageFile -------------------------------
(***************************************************************************)
(* CImage and the DetourBinary... functions: an executable file is opened, *)
(* its payloads and its imports are edited, and it is written again, with  *)
(* a section of its own, .detour, that holds the new import tables, the    *)
(* payloads and what is needed to undo it all; then the file written is    *)
(* the one that is opened.  (src/utils/detour/image.cpp)                   *)
(*                                                                         *)
(* A file is what its headers say and what its parts hold; positions and   *)
(* sizes are numbers, as the arithmetic of Write is on trial.  A name is a *)
(* model value, NULL the pointer.  What Read refuses as no executable      *)
(* image is one outcome, a file that cannot be opened.                     *)
(*                                                                         *)
(* An open binary is written once.  Write changes the section count and    *)
(* the offsets it works from, so the next Write of the same binary would   *)
(* copy a section that the file it maps does not have.                     *)
(***************************************************************************)
EXTENDS ImageData

CONSTANTS
    NULL,
    Pristine,           \* the files to begin with, which no tool has edited
    Names, Ordinals,    \* what the callbacks put in the place of an import
    StrLen,             \* the length of each name
    Guids, Sizes,       \* the payloads
    MaxSections,        \* ARRAYSIZE(m_SectionHeaders)
    MaxByways           \* bound on the byways of a binary

\* Sizes of the structures, and the alignments of the files.
SizeofDh      == 64     \* DETOUR_SECTION_HEADER
SizeofThunk   == 8      \* IMAGE_THUNK_DATA
SizeofImport  == 20     \* IMAGE_IMPORT_DESCRIPTOR
SizeofHint    == 2
FileAlign(a)    == Align(a, 512)
SectionAlign(a) == Align(a, 4096)
SizeOfHeaders == 512
DetoursPe     == 80     \* sizeof(m_DosHeader) + sizeof(s_rbDosCode)

MaxOf(a, b) == IF a > b THEN a ELSE b

Texts == DOMAIN StrLen
ASSUME NameAssumption ==
    /\ StrLen \in [Texts -> Nat] /\ NULL \notin Texts
    /\ Names \subseteq Texts /\ Ordinals \subseteq Nat \ {0}
ASSUME PayloadAssumption == Sizes \subseteq Nat

VARIABLES
    first,      \* the file as it was before any tool edited it
    file,       \* the file on disk
    img,        \* the open binary, a CImage, or NULL
    pc,         \* what its caller is doing with it
    cursor,     \* EditImports: the file of the import list it has come to
    out,        \* the file Write has written, or NULL
    kept,       \* the payloads the caller should find: their sizes, or -1
    stored      \* the payloads it should find in the file

vars == <<first, file, img, pc, cursor, out, kept, stored>>
-----------------------------------------------------------------------------
(* CImage::Read.                                                           *)

HasSection(f) == f.detour # NULL

\* The import descriptors of the file: of the header's directory, and of the
\* one that the .detour section says was there before.
Descriptors(f, dir) == IF dir = "own" THEN f.imports ELSE f.detour.table
CurrentDirectory(f) == f.hdr.import          \* a mutant of the next
OriginalDirectory(f) == IF HasSection(f) THEN f.detour.orig.import ELSE f.hdr.import

\* The entries of the original directory belong to the files that are no
\* byways, in their order.
OriginalIndex(table, i) == Cardinality({j \in 1 .. i : ~table[j].byway})

\* The files of an import list that are no byways, in their order.
FilesOf(imports) ==
    [k \in 1 .. OriginalIndex(imports, Len(imports)) |->
        imports[CHOOSE i \in DOMAIN imports :
                    ~imports[i].byway /\ OriginalIndex(imports, i) = k]]

\* One entry of the import list: a name or an ordinal as the thunk has it,
\* next to what the thunk of the original directory has.
ReadName(thunk, look) ==
    IF thunk.name = NULL
    THEN [name |-> NULL, orig |-> NULL, nOrdinal |-> thunk.ord, nOrig |-> thunk.ord]
    ELSE [name |-> thunk.name, orig |-> look.name,
          nOrdinal |-> look.ord, nOrig |-> look.ord]
ReadImport(table, lookTable, i) ==
    IF table[i].byway
    THEN [byway |-> TRUE, name |-> table[i].name, orig |-> NULL, names |-> <<>>]
    ELSE LET look == lookTable[OriginalIndex(table, i)]
         IN  [byway |-> FALSE, name |-> table[i].name, orig |-> look.name,
              names |-> [k \in DOMAIN table[i].names |->
                            ReadName(table[i].names[k], look.names[k])]]
ReadImports(f) ==
    LET table == Descriptors(f, f.hdr.import)
    IN  [i \in DOMAIN table |->
            ReadImport(table, Descriptors(f, OriginalDirectory(f)), i)]

\* "Parse Sections": where the sections end, and the header without .detour.
ExtraOffset(secs) ==
    LET end[n \in 0 .. Len(secs)] ==
            IF n = 0 THEN 0 ELSE MaxOf(secs[n].raw + secs[n].size, end[n - 1])
    IN  end[Len(secs)]
BoundForgotten(f) ==                            \* a mutant of the next
    IF HasSection(f) THEN [f.hdr EXCEPT !.secs = Front(@), !.import = f.detour.orig.import,
                                        !.size = f.detour.orig.size]
    ELSE f.hdr
OriginalHeader(f) ==
    IF HasSection(f)
    THEN [f.hdr EXCEPT !.secs = Front(@), !.import = f.detour.orig.import,
                       !.bound = f.detour.orig.bound, !.size = f.detour.orig.size]
    ELSE f.hdr

ReadImage(f) ==
    [hdr     |-> OriginalHeader(f),
     lfanew  |-> IF HasSection(f) THEN f.detour.lfanew ELSE f.lfanew,
     extra   |-> ExtraOffset(f.hdr.secs),
     prePE   |-> HasSection(f) /\ f.detour.cbPrePE # 0,
     cbPrePE |-> IF HasSection(f) THEN f.detour.cbPrePE ELSE QuadAlign(f.lfanew),
     imports |-> ReadImports(f),
     data    |-> IF HasSection(f) THEN ReadData(f.detour.payloads, TRUE)
                                  ELSE ReadData(<<>>, FALSE)]

\* The signatures are found where the headers say they are.
Readable(f) == /\ f.lfanew = f.peAt
               /\ HasSection(f) => Last(f.hdr.secs).raw = f.detour.at

\* DetourBinaryOpen.  "new CImageData" can fail, and Read returns TRUE then.
Open ==
    /\ pc = "closed"
    /\ Readable(file)
    /\ img' \in {ReadImage(file), [ReadImage(file) EXCEPT !.data = NULL]}
    /\ pc' = "open"
    /\ kept' = stored
    /\ UNCHANGED <<first, file, stored, cursor, out>>

\* DetourBinaryClose, after which the tool takes the file it has written.
Close ==
    /\ pc \in {"open", "written", "failed"}
    /\ pc' = "closed"
    /\ IF pc = "written" THEN file' = out /\ stored' = kept
                         ELSE UNCHANGED <<file, stored>>
    /\ img' = NULL /\ out' = NULL
    /\ UNCHANGED <<first, kept, cursor>>

-----------------------------------------------------------------------------
(* The payloads: DetourBinarySetPayload, ...DeletePayload, ...Purge.       *)

\* A binary whose CImageData could not be made refuses them.
HasData == pc = "open" /\ img.data # NULL

SetPayload(g, cb) ==
    /\ HasData
    /\ IF DeleteFaults(img.data, g)
       THEN pc' = "faulted" /\ UNCHANGED <<img, kept>>
       ELSE /\ \/ /\ img' = [img EXCEPT !.data = Set(@, g, cb)]
                  /\ kept' = [kept EXCEPT ![g] = QuadAlign(cb)]
               \/ \* No memory: the old payload is gone by then.
                  /\ NeedsRoom(img.data, g, cb)
                  /\ img' = [img EXCEPT !.data = Delete(@, g)]
                  /\ kept' = [kept EXCEPT ![g] = -1]
            /\ UNCHANGED pc
    /\ UNCHANGED <<first, file, stored, cursor, out>>

DeletePayload(g) ==
    /\ HasData
    /\ IF DeleteFaults(img.data, g)
       THEN pc' = "faulted" /\ UNCHANGED <<img, kept>>
       ELSE /\ img' = [img EXCEPT !.data = Delete(@, g)]
            /\ kept' = [kept EXCEPT ![g] = -1]
            /\ UNCHANGED pc
    /\ UNCHANGED <<first, file, stored, cursor, out>>

PurgePayloads ==
    /\ HasData
    /\ img' = [img EXCEPT !.data = Purge(@)]
    /\ kept' = [g \in Guids |-> -1]
    /\ UNCHANGED <<first, file, stored, pc, cursor, out>>

-----------------------------------------------------------------------------
(* CImage::EditImports, a file of the import list at a time.               *)

NewByway(name) == [byway |-> TRUE, name |-> name, orig |-> NULL, names |-> <<>>]
Byways(imports) == Cardinality({i \in DOMAIN imports : imports[i].byway})

BeginEdit ==
    /\ pc = "open"
    /\ pc' = "editing" /\ cursor' = 1
    /\ UNCHANGED <<first, file, stored, img, out, kept>>

\* The byway callback is asked before every file, and after the last one.
InsertByway ==
    /\ pc = "editing"
    /\ Byways(img.imports) < MaxByways
    /\ \E name \in Names :
           img' = [img EXCEPT !.imports = InsertAt(@, cursor, NewByway(name))]
    /\ cursor' = cursor + 1
    /\ UNCHANGED <<first, file, stored, pc, out, kept>>

\* A byway is kept, replaced or deleted.  Without memory for the new name it
\* is left with none.
VisitByway ==
    /\ pc = "editing" /\ cursor \in DOMAIN img.imports
    /\ img.imports[cursor].byway
    /\ \/ \E name \in Names :
              /\ img' = [img EXCEPT !.imports[cursor].name = name]
              /\ cursor' = cursor + 1 /\ UNCHANGED pc
       \/ /\ img' = [img EXCEPT !.imports = RemoveAt(@, cursor)]
          /\ UNCHANGED <<cursor, pc>>
       \/ /\ img' = [img EXCEPT !.imports[cursor].name = NULL]
          /\ pc' = "open" /\ cursor' = 0
    /\ UNCHANGED <<first, file, stored, out, kept>>

\* What the symbol callback may make of an import.
Renamed(n, name)   == IF n.name = name THEN n
                      ELSE [n EXCEPT !.name = name, !.nOrdinal = 0]
ByOrdinal(n, ord)  == [n EXCEPT !.name = NULL, !.nOrdinal = ord]
Symbols(n) == {n} \cup {Renamed(n, name) : name \in Names}
                  \cup {ByOrdinal(n, ord) : ord \in Ordinals}

\* A file with a new name, or its own, and new symbols up to the kth.
NewSymbols(names, k) ==
    {s \in [DOMAIN names -> UNION {Symbols(names[n]) : n \in DOMAIN names}] :
        \A n \in DOMAIN names : s[n] \in IF n <= k THEN Symbols(names[n]) ELSE {names[n]}}
Replaced(f, name, names) == [f EXCEPT !.name = name, !.names = names]
Changed(f, k) == {Replaced(f, name, names) : name \in Names \cup {f.name},
                                             names \in NewSymbols(f.names, k)}

AtFile == pc = "editing" /\ cursor \in DOMAIN img.imports /\ ~img.imports[cursor].byway

VisitFile ==
    /\ AtFile
    /\ \E f \in Changed(img.imports[cursor], Len(img.imports[cursor].names)) :
           img' = [img EXCEPT !.imports[cursor] = f]
    /\ cursor' = cursor + 1
    /\ UNCHANGED <<first, file, stored, pc, out, kept>>

\* A callback says FALSE, or a new name finds no memory when the old one has
\* been released: what has been changed stays changed.
FailEdit ==
    /\ pc = "editing"
    /\ \/ UNCHANGED img
       \/ AtFile /\ img' = [img EXCEPT !.imports[cursor].name = NULL]
       \/ /\ AtFile
          /\ \E k \in DOMAIN img.imports[cursor].names :
             \E f \in Changed(img.imports[cursor], k - 1) :
                 img' = [img EXCEPT !.imports[cursor] = [f EXCEPT
                            !.names[k] = [@ EXCEPT !.name = NULL, !.nOrdinal = 0]]]
    /\ pc' = "open" /\ cursor' = 0
    /\ UNCHANGED <<first, file, stored, out, kept>>

EndEdit ==
    /\ pc = "editing" /\ cursor = Len(img.imports) + 1
    /\ pc' = "open" /\ cursor' = 0
    /\ UNCHANGED <<first, file, stored, img, out, kept>>

\* DetourBinaryResetImports: EditImports with the three Reset callbacks.
ResetName(n) == IF n.orig # NULL THEN Renamed(n, n.orig)
                ELSE IF n.nOrig # 0 THEN ByOrdinal(n, n.nOrig) ELSE n
ResetFile(f) == [f EXCEPT !.name = IF f.orig # NULL THEN f.orig ELSE f.name,
                          !.names = [k \in DOMAIN f.names |-> ResetName(f.names[k])]]
ResetImports ==
    /\ pc = "open"
    /\ LET files == FilesOf(img.imports)
       IN  img' = [img EXCEPT !.imports = [i \in DOMAIN files |-> ResetFile(files[i])]]
    /\ UNCHANGED <<first, file, stored, pc, cursor, out, kept>>


-----------------------------------------------------------------------------
(* CImage::Write.                                                          *)

\* CheckImportsNeeded: strneq on names, and what the tables will take.
NameChanged(f) == \/ f.name # f.orig
                  \/ \E n \in DOMAIN f.names : f.names[n].name # f.names[n].orig
NeedsSection(imports) ==
    \E i \in DOMAIN imports : imports[i].byway \/ NameChanged(imports[i])
Detouring(i) == NeedsSection(i.imports) \/ ~IsEmpty(i.data)

Even(n) == n + (n % 2)
CharsAfter(f, nChars, hint) ==
    LET at[n \in 0 .. Len(f.names)] ==
            IF n = 0 THEN Even(nChars + StrLen[f.name] + 1)
            ELSE IF f.names[n].name = NULL THEN at[n - 1]
            ELSE Even(at[n - 1] + hint + StrLen[f.names[n].name] + 1)
    IN  at[Len(f.names)]
Chars(imports, hint) ==
    LET at[n \in 0 .. Len(imports)] ==
            IF n = 0 THEN 0 ELSE CharsAfter(imports[n], at[n - 1], hint)
    IN  at[Len(imports)]
HintForgotten(imports) == Chars(imports, 0)     \* a mutant of the next
CountChars(imports) == Chars(imports, SizeofHint)
CountThunks(imports) ==
    SumTo([i \in DOMAIN imports |->
              1 + IF imports[i].byway THEN 1 ELSE Len(imports[i].names)], Len(imports))
CountTables(imports) == Len(imports) + 1

\* "Step Through Imports": what the files up to the nth take of the tables.  A
\* CImageChars or CImageThunks that is full leaves out what does not fit.
FileChars(f) ==
    Even(StrLen[f.name] + 1)
        + SumTo([n \in DOMAIN f.names |->
                    IF f.names[n].name = NULL THEN 0
                    ELSE Even(StrLen[f.names[n].name] + 1 + SizeofHint)], Len(f.names))
TakenChars(imports, n) == SumTo([i \in DOMAIN imports |-> FileChars(imports[i])], n)
TakenThunks(imports, n) ==
    SumTo([i \in DOMAIN imports |->
              IF imports[i].byway THEN 2 ELSE Len(imports[i].names) + 1], n)
Thunk(n) == [name |-> n.name, ord |-> IF n.name = NULL THEN n.nOrdinal ELSE 0]
Table(imports) ==
    [i \in DOMAIN imports |->
        [byway |-> imports[i].byway,
         name  |-> IF TakenChars(imports, i) <= CountChars(imports)
                   THEN imports[i].name ELSE NULL,
         names |-> IF /\ TakenChars(imports, i) <= CountChars(imports)
                      /\ TakenThunks(imports, i) <= CountThunks(imports)
                   THEN [n \in DOMAIN imports[i].names |-> Thunk(imports[i].names[n])]
                   ELSE <<>>]]

\* "Copy Sections": where the next file data and the next section go, and
\* where the data begins that belongs to no section.
AlignFileData(at) == [at EXCEPT !.file = FileAlign(@), !.virt = SectionAlign(@)]
SectionEnd(s) == s.va + IF s.vsize # 0 THEN s.vsize ELSE SectionAlign(s.size)
LastAlone(i) ==     \* a mutant of the next
    LET s == Last(i.hdr.secs)
    IN  AlignFileData([file |-> s.raw + s.size, virt |-> SectionEnd(s), extra |-> i.extra])
CopySections(i) ==
    LET at[n \in 0 .. Len(i.hdr.secs)] ==
            IF n = 0 THEN AlignFileData([file |-> SizeOfHeaders, virt |-> 0,
                                         extra |-> i.extra])
            ELSE LET s    == i.hdr.secs[n]
                     next == MaxOf(s.raw + s.size, at[n - 1].file)
                 IN  AlignFileData([file  |-> next,
                                    virt  |-> MaxOf(SectionEnd(s), at[n - 1].virt),
                                    extra |-> MaxOf(next, at[n - 1].extra)])
    IN  at[Len(i.hdr.secs)]

\* "Insert .detour Section": its size and its place, and what it holds.
SizeOutputBuffer(i) ==
    FileAlign(MaxOf(1024,
        QuadAlign(SizeofDh) + i.cbPrePE + QuadAlign(CbData(i.data))
            + 2 * QuadAlign(SizeofThunk * CountThunks(i.imports))
            + QuadAlign(CountChars(i.imports))
            + QuadAlign(SizeofImport * CountTables(i.imports))))
AllocateOutput(cbData) == QuadAlign(cbData)
OutputSize(i) ==
    LET parts == <<SizeofDh, i.cbPrePE, SizeofThunk * CountThunks(i.imports),
                   SizeofThunk * CountThunks(i.imports), CountChars(i.imports),
                   CbData(i.data), SizeofImport * CountTables(i.imports)>>
    IN  SumTo([n \in DOMAIN parts |-> AllocateOutput(parts[n])], Len(parts))
DetourSection(i) ==
    LET next == CopySections(i)
    IN  [raw |-> next.file, size |-> FileAlign(OutputSize(i)),
         va |-> next.virt, vsize |-> OutputSize(i)]
DetourContents(i) ==
    [at |-> DetourSection(i).raw, cbPrePE |-> i.cbPrePE,
     lfanew |-> i.lfanew, payloads |-> i.data.recs, table |-> Table(i.imports),
     orig |-> [import |-> i.hdr.import, bound |-> i.hdr.bound, size |-> i.hdr.size]]

\* "Adjust Extra Data": what points behind the sections follows the data there.
NeverFollow(pointer, extra, adjust) == pointer  \* a mutant of the next
Follow(pointer, extra, adjust) == IF pointer > extra THEN pointer + adjust ELSE pointer

Written(i) ==
    LET next    == CopySections(i)
        detours == Detouring(i)
        section == DetourSection(i)
        secs    == IF detours THEN Append(i.hdr.secs, section) ELSE i.hdr.secs
        end     == IF detours
                   THEN AlignFileData([next EXCEPT !.file = @ + section.size,
                                                   !.virt = @ + section.vsize])
                   ELSE next
        adjust  == end.file - next.extra
    IN  [file EXCEPT
            !.lfanew = IF detours THEN DetoursPe ELSE IF i.prePE THEN i.lfanew ELSE @,
            !.peAt   = IF detours THEN DetoursPe ELSE IF i.prePE THEN i.cbPrePE ELSE @,
            !.hdr    = [i.hdr EXCEPT
                          !.import  = IF detours THEN "detour" ELSE @,
                          !.bound   = IF detours THEN 0 ELSE @,
                          !.size    = end.virt,
                          !.symbols = Follow(@, next.extra, adjust),
                          !.secs    = [n \in DOMAIN secs |->
                              [secs[n] EXCEPT !.raw = Follow(@, next.extra, adjust)]]],
            !.debug  = Follow(@, next.extra, adjust),
            !.ilonly = @ /\ ~NeedsSection(i.imports),
            !.detour = IF detours THEN DetourContents(i) ELSE NULL,
            !.tailAt = @ + adjust]

\* It dereferences the payloads that Open could not make and the name that
\* EditImports could not; else it may fail at any of its writes.
WriteFaults == img.data = NULL \/ \E i \in DOMAIN img.imports : img.imports[i].name = NULL

Write ==
    /\ pc = "open"
    /\ \/ WriteFaults /\ pc' = "faulted" /\ UNCHANGED out
       \/ ~WriteFaults /\ pc' = "failed" /\ UNCHANGED out
       \/ /\ ~WriteFaults
          /\ Detouring(img) => /\ Len(img.hdr.secs) < MaxSections
                               /\ OutputSize(img) <= SizeOutputBuffer(img)
          /\ pc' = "written" /\ out' = Written(img)
    /\ UNCHANGED <<first, file, stored, img, cursor, kept>>

-----------------------------------------------------------------------------
(* A file as a linker leaves it: its sections are aligned and lie apart and *)
(* in their order, the image ends behind the last of them, and the rest of  *)
(* the file begins where their data ends.                                   *)

Called   == Texts \cup {NULL}
Thunks   == [name : Called, ord : Nat]
Sections == [raw : Nat, size : Nat, va : Nat, vsize : Nat]
Imported == [byway : {FALSE}, name : Texts, names : Seq(Thunks)]
Headers  == [import : {"own"}, bound : Nat, size : Nat, symbols : Nat,
             secs : Seq(Sections)]
LinkedFiles == [lfanew : Nat \ {0}, peAt : Nat, hdr : Headers, imports : Seq(Imported),
                debug : Nat, ilonly : BOOLEAN, detour : {NULL}, tailAt : Nat]
Aligned(s) == /\ FileAlign(s.raw) = s.raw /\ FileAlign(s.size) = s.size
              /\ SectionAlign(s.va) = s.va
Linked(secs) ==
    /\ secs # <<>> /\ \A n \in DOMAIN secs : Aligned(secs[n])
    /\ \A m, n \in DOMAIN secs : m < n =>
           /\ secs[n].size # 0 => secs[m].raw + secs[m].size <= secs[n].raw
           /\ SectionEnd(secs[m]) <= secs[n].va
ASSUME PristineAssumption ==
    \A f \in Pristine :
        /\ f \in LinkedFiles /\ Linked(f.hdr.secs)
        /\ f.peAt = f.lfanew /\ QuadAlign(f.lfanew) = f.lfanew
        /\ f.tailAt = ExtraOffset(f.hdr.secs) /\ SizeOfHeaders <= f.tailAt
        /\ f.hdr.size = SectionAlign(SectionEnd(Last(f.hdr.secs)))

\* What a .detour section holds; NULL says that there is none.
Tables   == [byway : BOOLEAN, name : Called, names : Seq(Thunks)]
Records  == [guid : Guids, cbBytes : Nat]
Contents == [at : Nat, cbPrePE : Nat, lfanew : Nat,
             payloads : Seq(Records), table : Seq(Tables),
             orig : [import : {"own"}, bound : Nat, size : Nat]]
ASSUME NullAssumption == NULL \notin Contents

-----------------------------------------------------------------------------
Init ==
    /\ first \in Pristine /\ file = first
    /\ img = NULL /\ pc = "closed" /\ cursor = 0 /\ out = NULL
    /\ kept = [g \in Guids |-> -1] /\ stored = kept

Next ==
    \/ Open \/ Close \/ Write
    \/ \E g \in Guids : DeletePayload(g) \/ \E cb \in Sizes : SetPayload(g, cb)
    \/ PurgePayloads
    \/ BeginEdit \/ InsertByway \/ VisitByway \/ VisitFile \/ FailEdit \/ EndEdit
    \/ ResetImports

Spec == Init /\ [][Next]_vars

-----------------------------------------------------------------------------
(* Properties.                                                             *)

\* What a tool may open next: the file on disk, and the one just written.
OnDisk == {file} \cup IF pc = "written" THEN {out} ELSE {}

\* A file that Write has written can be read again, and says what the open
\* binary said: the same files and byways in the same order, the same symbols.
\* Only a file written without a section says otherwise of an import that the
\* binary has by ordinal: CheckImportsNeeded compares names.
WrittenReopens ==
    pc = "written" =>
        LET again == ReadImage(out).imports
        IN  /\ Readable(out)
            /\ Len(again) = Len(img.imports)
            /\ \A i \in DOMAIN again :
                   /\ again[i].byway = img.imports[i].byway
                   /\ again[i].name = img.imports[i].name
                   /\ Len(again[i].names) = Len(img.imports[i].names)
                   /\ \A n \in DOMAIN again[i].names :
                          HasSection(out) \/ img.imports[i].names[n].name # NULL
                          => Thunk(again[i].names[n]) = Thunk(img.imports[i].names[n])

\* However often a file is edited, it still says what it was: its header, its
\* DOS header, the names of its files, and of each symbol that is not imported
\* by ordinal by now.  (The first .detour section is never taken for a part of
\* the original, and byways never shift the originals.)
OriginalsKept ==
    \A f \in OnDisk :
        LET i     == ReadImage(f)
            files == FilesOf(i.imports)
        IN  /\ i.lfanew = first.lfanew
            /\ \A field \in {"secs", "import", "bound", "size"} :
                   i.hdr[field] = first.hdr[field]
            /\ Len(files) = Len(first.imports)
            /\ \A k \in DOMAIN files :
                   /\ files[k].orig = first.imports[k].name
                   /\ \A n \in DOMAIN files[k].names :
                          files[k].names[n].name # NULL =>
                              /\ files[k].names[n].orig = first.imports[k].names[n].name
                              /\ files[k].names[n].nOrig = first.imports[k].names[n].ord

\* When no edit and no payload is left, Write makes the file it all began with,
\* but for the IL_ONLY flag, which it never sets again.
PristineAgain ==
    pc = "written" /\ ~HasSection(out) => [out EXCEPT !.ilonly = first.ilonly] = first

\* The data behind the sections is moved as a whole with all that points into
\* it, and out of the way of the sections; nothing else is moved.
TailFollows ==
    pc = "written" =>
        /\ ExtraOffset(out.hdr.secs) <= out.tailAt
        /\ \A p \in {<<first.hdr.symbols, out.hdr.symbols>>, <<first.debug, out.debug>>} :
               p[2] = IF p[1] > first.tailAt THEN p[1] - first.tailAt + out.tailAt ELSE p[1]

\* The sections of a file do not overlap, on disk or in memory, and the image
\* ends behind the last.
SectionsApart ==
    pc = "written" =>
        LET secs == out.hdr.secs
        IN  /\ \A m, n \in DOMAIN secs : m < n =>
                   /\ secs[n].size # 0 => secs[m].raw + secs[m].size <= secs[n].raw
                   /\ secs[m].va + secs[m].vsize <= secs[n].va
            /\ Last(secs).va + Last(secs).vsize <= out.hdr.size

\* A payload is found, with the size it was set with, until it is deleted or
\* lost for want of memory, also in the file written and by the next tool; a
\* GUID is never met twice when the payloads are enumerated.
Finds(d, want) ==
    /\ \A g \in Guids : IF want[g] = -1 THEN Find(d, g) = 0
                         ELSE Find(d, g) # 0 /\ FoundSize(d, g) = want[g]
    /\ IsInjective(Enumerated(d))
PayloadsKept ==
    /\ img # NULL /\ img.data # NULL => Finds(img.data, kept)
    /\ pc = "written" => Finds(ReadImage(out).data, kept)
===============================================================================
