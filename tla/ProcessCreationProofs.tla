------------------------- MODULE ProcessCreationProofs -------------------------
(***************************************************************************)
(* A process that is created with DLLs, for any executables, lists of DLLs *)
(* and address spaces: which updater changes it, what its headers are at   *)
(* every step, and what the creator and its helper know of it.             *)
(***************************************************************************)
EXTENDS ProcessCreation, Inductions

Both == {Creator, Helper}
Steps == {"idle", "scan", "convert", "imports", "clr", "payload", "done", "failed"}

\* A record has the fields of "target" and no other.
IsTarget(t) ==
    t = [state |-> t.state, magic |-> t.magic, import |-> t.import, bound |-> t.bound,
         iat |-> t.iat, clr |-> t.clr, payload |-> t.payload, restored |-> t.restored]

TypeOK ==
    /\ os \in {32, 64} /\ image \in Images /\ image.magic <= os
    /\ call.bits \in {32, 64}
    /\ IsTarget(target)
    /\ target.state \in {"none", "suspended", "running", "terminated"}
    /\ target.restored \in BOOLEAN
    /\ update \in [Both -> Steps]
    /\ der = [p \in Both |-> der[p]]
    /\ pc \in {"start", "updating", "helper", "returned"}
    /\ helper \in {"none", "running", "0", "9900"}
    /\ handles \in {"none", "open", "closed"}
    /\ result \in {"none", "TRUE", "FALSE"}

-----------------------------------------------------------------------------
(* The invariant.                                                          *)

\* Where the creator and the helper are, and what becomes of the process.
CallInv ==
    /\ pc = "start" => update[Creator] = "idle" /\ target.state = "none" /\ handles = "none"
    /\ pc \in {"start", "updating"} => helper = "none"
    /\ pc \in {"updating", "helper"} => target.state = "suspended" /\ handles = "open"
    /\ pc = "helper" => update[Creator] = "failed"
    /\ helper = "none" => update[Helper] = "idle"
    /\ helper = "0" => update[Helper] = "done"
    /\ helper = "9900" => update[Helper] \in {"idle", "failed"}
    /\ result = "none" <=> pc # "returned"
    /\ result = "TRUE" =>
        /\ target.state \in {"suspended", "running"}
        /\ \/ update[Creator] = "done" /\ helper = "none"
           \/ update[Creator] = "failed" /\ helper = "0"
    /\ result = "FALSE" =>
        /\ target.state \in {"none", "terminated"}
        /\ update[Creator] \in {"idle", "failed"} /\ helper # "running"
        /\ AsksHelper => handles # "open"
    /\ target.state = "running" \/ target.restored => result = "TRUE"

\* Nothing of the process has been changed.
Pristine ==
    /\ target.magic = image.magic /\ target.import = image.import
    /\ target.bound = image.bound /\ target.iat = image.iat
    /\ target.clr = image.clr

\* What a 64-bit updater records of a neutral executable, and every updater of
\* another.
OfProcess ==
    [magic |-> ProcessBits, import |-> image.import, bound |-> image.bound,
     iat |-> image.iat, clr |-> image.clr]

\* The updater that is not refused is the one of the process's own bitness.
UpdaterInv ==
    /\ \A p \in Both : update[p] \in {"convert", "imports", "clr", "payload", "done"} =>
           Bits(p) = ProcessBits
    /\ \A p \in Both : Bits(p) = ProcessBits /\ update[p] \in {"idle", "scan"} => Pristine
    /\ \A p \in Both : update[p] = "convert" =>
           /\ Pristine /\ image.clr = 1 /\ ProcessBits = 64
           /\ der[p] = RecordExeRestore(image)
    /\ \A p \in Both : update[p] \in {"imports", "clr", "payload", "done"} =>
           /\ der[p] = OfProcess /\ target.magic = ProcessBits
           /\ image.clr = 1 \/ image.magic = ProcessBits
    /\ \A p \in Both : update[p] \in {"clr", "payload", "done"} =>
           target.import.va \in Free \/ target.restored

HeaderInv ==
    /\ target.magic \in {image.magic, ProcessBits}
    /\ target.import.va \in Free => ProcessBits = 32 \/ target.import.va - Module <= Reach
    /\ \A p \in Both : update[p] = "done" => target.payload # NoHeaders
    /\ target.payload # NoHeaders =>
           /\ \E p \in Both : update[p] = "done"
           /\ target.payload = OfProcess
    /\ target.restored =>
           /\ target.import = image.import /\ target.bound = image.bound
           /\ target.iat = image.iat /\ target.payload # NoHeaders

CreationInv == TypeOK /\ CallInv /\ UpdaterInv /\ HeaderInv

-----------------------------------------------------------------------------
(* Facts the cases share.                                                  *)

LEMMA Names == Both = {Creator, Helper} /\ Creator # Helper
BY DEF Both, Creator, Helper

LEMMA Bitness ==
    ASSUME TypeOK
    PROVE  /\ image.magic \in {32, 64} /\ image.import.va \notin Free
           /\ ProcessBits \in {32, 64} /\ (image.magic = 64 => ProcessBits = 64)
           /\ \A p \in Both : Bits(p) \in {32, 64}
           /\ \A p, q \in Both : Bits(p) = Bits(q) => p = q
BY ImagesAssumption, Names DEF TypeOK, ProcessBits, Bits

\* The check in DetourUpdateProcessWithDll admits the updater of the process's
\* own bitness and no other, and to convert only what can be.
LEMMA OwnBits ==
    ASSUME TypeOK, target.magic \in {image.magic, ProcessBits}, NEW p \in Both, ~Refused(p)
    PROVE  /\ Bits(p) = ProcessBits
           /\ Bits(p) = 64 /\ Has32BitExe => target.clr = 1 /\ target.magic = 32
           /\ ~(Bits(p) = 64 /\ Has32BitExe) => target.magic = ProcessBits
<1>1. /\ os \in {32, 64} /\ image.magic \in {32, 64} /\ image.magic <= os
      /\ Bits(p) \in {32, 64} /\ ProcessBits \in {32, 64}
  BY Bitness DEF TypeOK
<1> DEFINE exe == [dll |-> FALSE, magic |-> target.magic, machine |-> 1]
           system == [dll |-> TRUE, magic |-> os, machine |-> 1]
<1>2. /\ exe \in Modules /\ system \in Modules
      /\ \A m \in Modules :
             m = exe \/ m = system \/ (m.dll = TRUE /\ m.machine = 0)
  BY DEF Modules
<1>3. exe.dll = FALSE /\ exe.magic = target.magic /\ exe.machine = 1
      /\ system.dll = TRUE /\ system.magic = os /\ system.machine = 1
  OBVIOUS
<1> HIDE DEF exe, system
<1>4. /\ Has32BitExe <=> target.magic = 32
      /\ Has64BitDll <=> os = 64
  BY <1>2, <1>3 DEF Has32BitExe, Has64BitDll
<1>5. ProcessBits = 64 => os = 64
  BY <1>1 DEF ProcessBits
<1> QED
  BY <1>1, <1>4, <1>5
  DEF Refused, Is32BitProcess, IsWow64, Convertible, ProcessBits

\* What is given does not change, and what follows from it does not.
LEMMA GivenStays ==
    ASSUME UNCHANGED given
    PROVE  /\ ProcessBits' = ProcessBits /\ OfProcess' = OfProcess
           /\ \A p \in Both : Bits(p)' = Bits(p)
           /\ AsksHelper' = AsksHelper
           /\ UNCHANGED <<os, image, call>>
BY DEF given, ProcessBits, OfProcess, Bits, AsksHelper

\* The place that is found for a table is free.
LEMMA PlaceIsFree ==
    ASSUME NEW bits, NEW refused,
           FindAndAllocateNearBase(bits, Module, Above, Free, refused, Reach) # 0
    PROVE  LET at == FindAndAllocateNearBase(bits, Module, Above, Free, refused, Reach)
           IN  at \in Free /\ (bits = 32 \/ at - Module <= Reach)
<1> DEFINE granted == Granted(Above, Free, refused)
           u == FirstUnit(granted)
<1>1. /\ FindAndAllocateNearBase(bits, Module, Above, Free, refused, Reach) = u
      /\ granted # {} /\ InReach(bits, Module, u, Reach)
  BY DEF FindAndAllocateNearBase
<1>2. granted \subseteq Free /\ granted \subseteq Nat
  BY FreeAssumption DEF Granted
<1>3. \E n \in granted : \A m \in granted : n <= m
  <2> HIDE DEF granted
  <2> QED
    BY <1>1, <1>2, LeastMember
<1>4. u \in granted
  BY <1>3 DEF FirstUnit
<1> QED
  BY <1>1, <1>2, <1>4 DEF InReach

LEMMA InitCreation == Init => CreationInv
<1> SUFFICES ASSUME Init PROVE CreationInv
    OBVIOUS
<1> USE Names DEF Init
<1>1. TypeOK
  BY SystemsAssumption DEF TypeOK, IsTarget, Steps
<1>2. CallInv
  BY DEF CallInv
<1>3. UpdaterInv
  BY DEF UpdaterInv, Pristine
<1>4. HeaderInv
  BY <1>1, Bitness DEF HeaderInv
<1> QED
  BY <1>1, <1>2, <1>3, <1>4 DEF CreationInv

-----------------------------------------------------------------------------
(* DetourUpdateProcessWithDll.                                             *)

LEMMA OfProcessIs ==
    ASSUME TypeOK PROVE OfProcess # NoHeaders /\ OfProcess.magic = ProcessBits
<1>1. OfProcess.magic \in {32, 64} /\ NoHeaders.magic = 0
  BY Bitness DEF OfProcess, NoHeaders
<1> QED
  BY <1>1 DEF OfProcess

\* While an updater is at work nothing was restored, and the call is not over.
LEMMA AtWork ==
    ASSUME CreationInv, NEW p \in Both,
           update[p] \in {"scan", "convert", "imports", "clr", "payload"}
    PROVE  /\ ~target.restored /\ result # "TRUE" /\ target.state # "running"
           /\ p = Creator => pc = "updating" /\ helper = "none"
           /\ p = Helper => helper = "running" /\ pc \notin {"start", "updating"}
           /\ Bits(p) = ProcessBits => target.payload = NoHeaders
<1> USE Names DEF CreationInv, TypeOK
<1>1. /\ ~target.restored /\ result # "TRUE" /\ target.state # "running"
      /\ p = Creator => pc = "updating" /\ helper = "none"
      /\ p = Helper => helper = "running" /\ pc \notin {"start", "updating"}
  BY DEF CallInv
<1>2. Bits(p) = ProcessBits => target.payload = NoHeaders
  BY Bitness DEF UpdaterInv, HeaderInv
<1> QED
  BY <1>1, <1>2

\* An updater comes to its next step.
LEMMA UpdaterGoes ==
    ASSUME CreationInv, NEW p \in Both,
           update[p] \in {"scan", "convert", "imports", "clr", "payload"},
           NEW step \in Steps \ {"idle", "scan"}, Go(p, step),
           UNCHANGED <<given, pc, helper, handles, result>>,
           IsTarget(target'), der' = [q \in Both |-> der'[q]],
           target'.state = target.state, target'.restored = target.restored
    PROVE  TypeOK' /\ CallInv' /\ update'[p] = step
           /\ \A q \in Both : q # p => update'[q] = update[q]
<1> USE Names DEF CreationInv
<1>1. update' = [update EXCEPT ![p] = step] /\ update \in [Both -> Steps]
  BY DEF Go, TypeOK
<1>2. /\ update' \in [Both -> Steps] /\ update'[p] = step
      /\ \A q \in Both : q # p => update'[q] = update[q]
  BY <1>1
<1>3. TypeOK'
  BY <1>2 DEF TypeOK, given
<1>4. CallInv'
  <2>1. p = Creator => pc = "updating" /\ helper = "none"
    BY AtWork
  <2>2. p = Helper => helper = "running" /\ pc \notin {"start", "updating"}
    BY AtWork
  <2>3. ~target.restored /\ result # "TRUE" /\ target.state # "running"
    BY AtWork
  <2>4. CASE p = Creator
    BY <1>2, <2>1, <2>3, <2>4 DEF CallInv, given, AsksHelper, TypeOK
  <2>5. CASE p = Helper
    BY <1>2, <2>2, <2>3, <2>5 DEF CallInv, given, AsksHelper, TypeOK
  <2> QED
    BY <2>4, <2>5
<1> QED
  BY <1>2, <1>3, <1>4

\* It was refused, or failed before it changed anything.
LEMMA UpdaterStops ==
    ASSUME CreationInv, NEW p \in Both,
           update[p] \in {"scan", "convert", "imports", "clr", "payload"},
           Go(p, "failed"), UNCHANGED <<given, target, der, pc, helper, handles, result>>
    PROVE  CreationInv'
<1> USE Names DEF CreationInv
<1>1. /\ TypeOK' /\ CallInv' /\ update'[p] = "failed"
      /\ \A q \in Both : q # p => update'[q] = update[q]
  BY UpdaterGoes DEF TypeOK, Steps, IsTarget
<1>2. UpdaterInv'
  BY <1>1, GivenStays DEF UpdaterInv, Pristine, RecordExeRestore
<1>3. HeaderInv'
  BY <1>1, GivenStays DEF HeaderInv
<1> QED
  BY <1>1, <1>2, <1>3

\* A step of the updater of the process's own bitness.
LEMMA UpdaterStep ==
    ASSUME CreationInv, NEW p \in Both,
           update[p] \in {"scan", "convert", "imports", "clr", "payload"},
           Bits(p) = ProcessBits,
           NEW step \in Steps \ {"idle", "scan"}, Go(p, step),
           UNCHANGED <<given, pc, helper, handles, result>>,
           IsTarget(target'), der' = [q \in Both |-> der'[q]],
           target'.state = target.state, target'.restored = target.restored,
           target'.magic \in {image.magic, ProcessBits},
           target'.import.va \in Free =>
               ProcessBits = 32 \/ target'.import.va - Module <= Reach,
           target'.payload = IF step = "done" THEN OfProcess ELSE NoHeaders,
           step = "convert" => /\ Pristine' /\ image.clr = 1 /\ ProcessBits = 64
                               /\ der'[p] = RecordExeRestore(image),
           step \in {"imports", "clr", "payload", "done"} =>
               /\ der'[p] = OfProcess /\ target'.magic = ProcessBits
               /\ image.clr = 1 \/ image.magic = ProcessBits,
           step \in {"clr", "payload", "done"} => target'.import.va \in Free
    PROVE  CreationInv'
<1> USE Names DEF CreationInv
<1>1. /\ TypeOK' /\ CallInv' /\ update'[p] = step
      /\ \A q \in Both : q # p => update'[q] = update[q]
  BY UpdaterGoes
<1>2. \A q \in Both : q # p => Bits(q) # ProcessBits
  BY Bitness
<1>3. \A q \in Both : q # p =>
          update'[q] \notin {"convert", "imports", "clr", "payload", "done"}
  BY <1>1, <1>2 DEF UpdaterInv
<1>4. /\ ProcessBits' = ProcessBits /\ OfProcess' = OfProcess
      /\ \A q \in Both : Bits(q)' = Bits(q)
      /\ UNCHANGED <<os, image, call>>
  BY GivenStays
<1>5. UpdaterInv'
  BY <1>1, <1>2, <1>3, <1>4 DEF UpdaterInv, RecordExeRestore
<1>6. HeaderInv'
  <2>1. ~target.restored
    BY AtWork
  <2> QED
    BY <1>1, <1>3, <1>4, <2>1, OfProcessIs DEF HeaderInv
<1> QED
  BY <1>1, <1>5, <1>6

LEMMA ScanStep ==
    ASSUME CreationInv, NEW p \in Both, Scan(p) PROVE CreationInv'
<1> USE Names
<1>1. update[p] = "scan" /\ UNCHANGED <<given, target, pc, helper, handles, result>>
  BY DEF Scan
<1>2. CASE Refused(p)
  BY <1>1, <1>2, UpdaterStops DEF Scan
<1>3. CASE ~Refused(p)
  <2> DEFINE step == IF Bits(p) = 64 /\ Has32BitExe THEN "convert" ELSE "imports"
  <2>1. Go(p, step) /\ der' = [der EXCEPT ![p] = RecordExeRestore(target)]
    BY <1>3 DEF Scan, Recorded
  <2>2. der = [q \in Both |-> der[q]] /\ IsTarget(target)
    BY DEF CreationInv, TypeOK
  <2>3. der' = [q \in Both |-> der'[q]] /\ der'[p] = RecordExeRestore(target)
    BY <2>1, <2>2
  <2>4. TypeOK /\ target.magic \in {image.magic, ProcessBits}
    BY DEF CreationInv, HeaderInv
  <2>5. /\ Bits(p) = ProcessBits
        /\ step = "convert" => target.clr = 1 /\ target.magic = 32 /\ Bits(p) = 64
        /\ step = "imports" => target.magic = ProcessBits
    BY <1>3, <2>4, OwnBits
  <2>6. Pristine /\ target.payload = NoHeaders
    BY <1>1, <2>5, AtWork DEF CreationInv, UpdaterInv
  <2>7. step = "convert" => /\ image.clr = 1 /\ ProcessBits = 64
                            /\ der'[p] = RecordExeRestore(image)
    BY <2>3, <2>5, <2>6 DEF Pristine, RecordExeRestore
  <2>8. step = "imports" => /\ der'[p] = OfProcess /\ target.magic = ProcessBits
                            /\ image.magic = ProcessBits
    BY <2>3, <2>5, <2>6 DEF Pristine, RecordExeRestore, OfProcess
  <2>9. step \in {"convert", "imports"}
    OBVIOUS
  <2>10. target.import.va \in Free => ProcessBits = 32 \/ target.import.va - Module <= Reach
    BY DEF CreationInv, HeaderInv
  <2>11. Pristine' <=> Pristine
    BY <1>1 DEF Pristine, given
  <2> HIDE DEF step
  <2> QED
    BY <1>1, <2>1, <2>2, <2>3, <2>4, <2>5, <2>6, <2>7, <2>8, <2>9, <2>10, <2>11, UpdaterStep
    DEF Steps
<1> QED
  BY <1>2, <1>3

LEMMA ConvertStep ==
    ASSUME CreationInv, NEW p \in Both, Convert(p) PROVE CreationInv'
<1> USE Names
<1>1. update[p] = "convert" /\ UNCHANGED <<given, pc, helper, handles, result>>
  BY DEF Convert
<1>2. /\ Pristine /\ image.clr = 1 /\ der[p] = RecordExeRestore(image)
      /\ Bits(p) = ProcessBits
  BY <1>1 DEF CreationInv, UpdaterInv
<1>3. /\ target.payload = NoHeaders /\ IsTarget(target)
      /\ der = [q \in Both |-> der[q]]
      /\ image.import.va \notin Free /\ NoImports.va \notin Free
  BY <1>1, <1>2, AtWork, Bitness, FreeAssumption DEF CreationInv, TypeOK, NoImports
<1>4. ProcessBits = 64
  BY <1>1 DEF CreationInv, UpdaterInv
<1>5. PICK import \in {image.import, NoImports} :
          /\ target' = [target EXCEPT !.magic = 64, !.import = import]
          /\ \/ Go(p, "failed") /\ UNCHANGED der
             \/ /\ Go(p, "imports") \/ Go(p, "failed")
                /\ der' = [der EXCEPT ![p] = RecordExeRestore(Converted(target))]
  <2>1. CASE target' = Converted(target) /\ Go(p, "failed") /\ UNCHANGED der
    <3>1. target' = [target EXCEPT !.magic = 64, !.import = image.import]
      BY <1>2, <1>3, <2>1 DEF Converted, Pristine, IsTarget
    <3> QED
      BY <2>1, <3>1
  <2>2. CASE target' = [Converted(target) EXCEPT !.import = NoImports]
    <3>1. target' = [target EXCEPT !.magic = 64, !.import = NoImports]
      BY <2>2 DEF Converted
    <3>2. /\ Go(p, "imports") \/ Go(p, "failed")
          /\ \/ Go(p, "failed") /\ UNCHANGED der
             \/ der' = [der EXCEPT ![p] = RecordExeRestore(Converted(target))]
      BY DEF Convert, Recorded
    <3> QED
      BY <3>1, <3>2
  <2> QED
    BY <2>1, <2>2 DEF Convert
<1>6. /\ IsTarget(target') /\ target'.magic = 64 /\ target'.import = import
      /\ target'.state = target.state /\ target'.restored = target.restored
      /\ target'.payload = NoHeaders
  BY <1>3, <1>5 DEF IsTarget
<1>7. target'.import.va \notin Free
  BY <1>3, <1>6
<1>8. RecordExeRestore(Converted(target)) = OfProcess
  BY <1>2, <1>3, <1>4 DEF RecordExeRestore, Converted, OfProcess, Pristine, IsTarget
<1>9. PICK step \in {"imports", "failed"} :
          /\ Go(p, step) /\ der' = [q \in Both |-> der'[q]]
          /\ step = "imports" => der'[p] = OfProcess
  <2>1. CASE Go(p, "failed") /\ UNCHANGED der
    BY <1>3, <2>1
  <2>2. CASE /\ Go(p, "imports") \/ Go(p, "failed")
             /\ der' = [der EXCEPT ![p] = RecordExeRestore(Converted(target))]
    <3>1. der' = [q \in Both |-> der'[q]] /\ der'[p] = OfProcess
      BY <1>3, <1>8, <2>2
    <3> QED
      BY <2>2, <3>1
  <2> QED
    BY <1>5, <2>1, <2>2
<1> QED
  BY <1>1, <1>2, <1>4, <1>6, <1>7, <1>9, UpdaterStep DEF Steps

LEMMA UpdateImportsStep ==
    ASSUME CreationInv, NEW p \in Both, UpdateImports(p) PROVE CreationInv'
<1> USE Names
<1>1. update[p] = "imports" /\ UNCHANGED <<given, der, pc, helper, handles, result>>
  BY DEF UpdateImports
<1>2. /\ der[p] = OfProcess /\ target.magic = ProcessBits
      /\ image.clr = 1 \/ image.magic = ProcessBits
      /\ Bits(p) = ProcessBits
  BY <1>1 DEF CreationInv, UpdaterInv
<1>3. target.payload = NoHeaders /\ IsTarget(target) /\ der = [q \in Both |-> der[q]]
  BY <1>1, <1>2, AtWork DEF CreationInv, TypeOK
<1>4. PICK refused \in SUBSET Free :
          LET at == FindAndAllocateNearBase(Bits(p), Module, Above, Free, refused, Reach)
          IN  IF at = 0 THEN Go(p, "failed") /\ UNCHANGED target
              ELSE /\ target' = WithTable(p, target, at)
                   /\ Go(p, "clr") \/ Go(p, "failed")
  BY DEF UpdateImports
<1> DEFINE at == FindAndAllocateNearBase(Bits(p), Module, Above, Free, refused, Reach)
<1>5. CASE at = 0
  BY <1>1, <1>4, <1>5, UpdaterStops
<1>6. CASE at # 0
  <2>1. at \in Free /\ (Bits(p) = 32 \/ at - Module <= Reach)
    BY <1>6, PlaceIsFree
  <2>2. target' = WithTable(p, target, at) /\ (Go(p, "clr") \/ Go(p, "failed"))
    BY <1>4, <1>6
  <2> HIDE DEF at
  <2> DEFINE words == NewTable(DllsOf(p), target.import, Bits(p))
             iat == IF target.iat # 0 THEN target.iat
                    ELSE IF target.import.va # 0 THEN Module ELSE at
  <2>3. target' = [target EXCEPT !.import = [va |-> at, words |-> words], !.bound = 0,
                                 !.iat = iat]
    BY <2>2 DEF WithTable
  <2> HIDE DEF words, iat
  <2>4. /\ IsTarget(target') /\ target'.magic = target.magic /\ target'.import.va = at
        /\ target'.state = target.state /\ target'.restored = target.restored
        /\ target'.payload = NoHeaders
    BY <1>3, <2>3 DEF IsTarget
  <2> QED
    BY <1>1, <1>2, <1>3, <2>1, <2>2, <2>4, UpdaterStep DEF Steps
<1> QED
  BY <1>5, <1>6

LEMMA UpdateClrStep ==
    ASSUME CreationInv, NEW p \in Both, UpdateClr(p) PROVE CreationInv'
<1> USE Names
<1>1. update[p] = "clr" /\ UNCHANGED <<given, der, pc, helper, handles, result>>
  BY DEF UpdateClr
<1>2. /\ der[p] = OfProcess /\ target.magic = ProcessBits
      /\ image.clr = 1 \/ image.magic = ProcessBits
      /\ Bits(p) = ProcessBits
      /\ target.import.va \in Free \/ target.restored
  BY <1>1 DEF CreationInv, UpdaterInv
<1>3. /\ target.payload = NoHeaders /\ ~target.restored
      /\ IsTarget(target) /\ der = [q \in Both |-> der[q]]
  BY <1>1, <1>2, AtWork DEF CreationInv, TypeOK
<1>4. PICK step \in {"failed", "payload"} : Go(p, step)
  BY DEF UpdateClr
<1>5. target' = [target EXCEPT !.clr = Cleared(der[p].clr)]
  BY DEF UpdateClr
<1>6. /\ IsTarget(target') /\ target'.magic = target.magic /\ target'.import = target.import
      /\ target'.state = target.state /\ target'.restored = target.restored
      /\ target'.payload = NoHeaders
  BY <1>3, <1>5 DEF IsTarget
<1>7. ProcessBits = 32 \/ target.import.va - Module <= Reach
  BY <1>2, <1>3 DEF CreationInv, HeaderInv
<1> QED
  BY <1>1, <1>2, <1>3, <1>4, <1>6, <1>7, UpdaterStep DEF Steps

LEMMA CopyRestorePayloadStep ==
    ASSUME CreationInv, NEW p \in Both, CopyRestorePayload(p) PROVE CreationInv'
<1> USE Names
<1>1. /\ update[p] = "payload" /\ UNCHANGED <<given, der, pc, helper, handles, result>>
      /\ Go(p, "done") /\ target' = [target EXCEPT !.payload = der[p]]
  BY DEF CopyRestorePayload
<1>2. /\ der[p] = OfProcess /\ target.magic = ProcessBits
      /\ image.clr = 1 \/ image.magic = ProcessBits
      /\ Bits(p) = ProcessBits
      /\ target.import.va \in Free \/ target.restored
  BY <1>1 DEF CreationInv, UpdaterInv
<1>3. ~target.restored /\ IsTarget(target) /\ der = [q \in Both |-> der[q]]
  BY <1>1, AtWork DEF CreationInv, TypeOK
<1>4. /\ IsTarget(target') /\ target'.magic = target.magic /\ target'.import = target.import
      /\ target'.state = target.state /\ target'.restored = target.restored
      /\ target'.payload = OfProcess
  BY <1>1, <1>2, <1>3 DEF IsTarget
<1>5. ProcessBits = 32 \/ target.import.va - Module <= Reach
  BY <1>2, <1>3 DEF CreationInv, HeaderInv
<1> QED
  BY <1>1, <1>2, <1>3, <1>4, <1>5, UpdaterStep DEF Steps

LEMMA UpdateStep ==
    ASSUME CreationInv, NEW p \in Both, Update(p) PROVE CreationInv'
<1>1. CASE UpdateFails(p)
  BY <1>1, UpdaterStops DEF UpdateFails
<1> QED
  BY <1>1, ScanStep, ConvertStep, UpdateImportsStep, UpdateClrStep, CopyRestorePayloadStep
  DEF Update

-----------------------------------------------------------------------------
(* The creator, the helper, and what comes afterwards.                     *)

\* Only the state of the process changes, or an updater begins.
LEMMA CallStep ==
    ASSUME CreationInv, UNCHANGED <<given, der>>,
           NEW state \in {"none", "suspended", "running", "terminated"},
           target' = [target EXCEPT !.state = state],
           update' \in [Both -> Steps],
           \A p \in Both : \/ update'[p] = update[p]
                           \/ update[p] = "idle" /\ update'[p] = "scan",
           pc' \in {"start", "updating", "helper", "returned"},
           helper' \in {"none", "running", "0", "9900"},
           handles' \in {"none", "open", "closed"},
           result' \in {"none", "TRUE", "FALSE"},
           CallInv'
    PROVE  CreationInv'
<1> USE DEF CreationInv
<1>1. /\ IsTarget(target') /\ target'.state = state /\ target'.magic = target.magic
      /\ target'.import = target.import /\ target'.bound = target.bound
      /\ target'.iat = target.iat /\ target'.clr = target.clr
      /\ target'.payload = target.payload /\ target'.restored = target.restored
  BY DEF TypeOK, IsTarget
<1>2. TypeOK'
  BY <1>1 DEF TypeOK, given
<1>3. /\ ProcessBits' = ProcessBits /\ OfProcess' = OfProcess
      /\ \A q \in Both : Bits(q)' = Bits(q)
      /\ UNCHANGED <<os, image, call>>
  BY GivenStays
<1>4. \A p \in Both : update'[p] \notin {"idle", "scan"} => update'[p] = update[p]
  OBVIOUS
<1>5. \A p \in Both : update'[p] \in {"idle", "scan"} => update[p] \in {"idle", "scan"}
  OBVIOUS
<1>6. Pristine' <=> Pristine
  BY <1>1, <1>3 DEF Pristine
<1>7. UpdaterInv'
  BY <1>1, <1>3, <1>4, <1>5, <1>6 DEF UpdaterInv, RecordExeRestore
<1>8. HeaderInv'
  <2>1. \A p \in Both : update'[p] = "done" <=> update[p] = "done"
    BY <1>4
  <2> QED
    BY <1>1, <1>3, <2>1 DEF HeaderInv
<1> QED
  BY <1>2, <1>7, <1>8

\* The record as it is, with the state as it is.
LEMMA SameState ==
    ASSUME TypeOK PROVE target = [target EXCEPT !.state = target.state]
BY DEF TypeOK, IsTarget

LEMMA CreatorStep ==
    ASSUME CreationInv,
           \/ CreateFails \/ CreateSuspended \/ CreatorUpdated \/ CreatorFailed
           \/ HelperNotStarted \/ StartHelper \/ WaitForHelper
           \/ HelperUpdates \/ HelperExits \/ CallerResumes
    PROVE  CreationInv'
<1> USE Names DEF CreationInv, TypeOK, IsTarget, CallInv, Returned
<1>1. target = [target EXCEPT !.state = target.state]
  OBVIOUS
<1>2. CASE CreateFails
  BY <1>1, <1>2, CallStep DEF CreateFails, given, AsksHelper
<1>3. CASE CreateSuspended
  BY <1>1, <1>3, CallStep DEF CreateSuspended, given, AsksHelper, Go, Steps
<1>4. CASE CreatorUpdated
  <2>1. PICK state \in {"suspended", "running"} : target' = [target EXCEPT !.state = state]
    <3>1. pc = "updating"
      BY <1>4 DEF CreatorUpdated
    <3> QED
      BY <1>4, <3>1 DEF CreatorUpdated, Succeeds
  <2>2. handles' \in {"open", "closed"} /\ pc' = "returned" /\ result' = "TRUE"
    BY <1>4 DEF CreatorUpdated, Succeeds, MayClose
  <2> QED
    BY <1>4, <2>1, <2>2, CallStep DEF CreatorUpdated, given, AsksHelper
<1>5. CASE CreatorFailed
  <2>1. CASE AsksHelper
    BY <1>1, <1>5, <2>1, CallStep DEF CreatorFailed, given, AsksHelper
  <2>2. CASE ~AsksHelper
    BY <1>5, <2>2, CallStep
    DEF CreatorFailed, Gives, OnFailure, TerminatedState, MayClose, given, AsksHelper
  <2> QED
    BY <2>1, <2>2
<1>6. CASE HelperNotStarted
  BY <1>6, CallStep
  DEF HelperNotStarted, Gives, OnFailure, TerminatedState, MayClose, given, AsksHelper
<1>7. CASE StartHelper
  BY <1>1, <1>7, CallStep DEF StartHelper, given, AsksHelper
<1>8. CASE WaitForHelper
  <2>1. pc = "helper" /\ helper \in {"0", "9900"}
    BY <1>8 DEF WaitForHelper
  <2>2. CASE helper = "0"
    <3>1. Succeeds
      BY <1>8, <2>2 DEF WaitForHelper, HelperAnswered, Succeeded
    <3>2. PICK state \in {"suspended", "running"} : target' = [target EXCEPT !.state = state]
      BY <2>1, <3>1 DEF Succeeds
    <3>3. handles' \in {"open", "closed"} /\ pc' = "returned" /\ result' = "TRUE"
      BY <2>1, <3>1 DEF Succeeds, MayClose
    <3> QED
      BY <1>8, <2>1, <2>2, <3>2, <3>3, CallStep DEF WaitForHelper, given, AsksHelper
  <2>3. CASE helper = "9900"
    <3>1. Gives
      BY <1>8, <2>3 DEF WaitForHelper, HelperAnswered, Succeeded
    <3> QED
      BY <1>8, <2>1, <2>3, <3>1, CallStep
      DEF WaitForHelper, Gives, OnFailure, TerminatedState, MayClose, given, AsksHelper
  <2> QED
    BY <2>1, <2>2, <2>3
<1>9. CASE HelperUpdates
  BY <1>1, <1>9, CallStep DEF HelperUpdates, HelperLoads, given, AsksHelper, Go, Steps
<1>10. CASE HelperExits
  BY <1>1, <1>10, CallStep DEF HelperExits, given, AsksHelper
<1>11. CASE CallerResumes
  BY <1>11, CallStep DEF CallerResumes, given, AsksHelper
<1> QED
  BY <1>2, <1>3, <1>4, <1>5, <1>6, <1>7, <1>8, <1>9, <1>10, <1>11

\* DetourRestoreAfterWith finds what the one updater recorded.
LEMMA RestoreStep ==
    ASSUME CreationInv, RestoreAfterWith PROVE CreationInv'
<1> USE Names DEF CreationInv
<1>1. /\ target.state = "running" /\ ~target.restored
      /\ UNCHANGED <<given, update, der, pc, helper, handles, result>>
  BY DEF RestoreAfterWith
<1>2. target' = Restored(target, target.payload) /\ target.payload # NoHeaders
  BY DEF RestoreAfterWith, FindPayload, HasPayload
<1>3. target.payload = OfProcess
  BY <1>2 DEF HeaderInv
<1>4. PICK p \in Both : update[p] = "done"
  BY <1>2 DEF HeaderInv
<1>5. Bits(p) = ProcessBits
  BY <1>4 DEF UpdaterInv
<1> DEFINE clr == IF RestoresClr(target, OfProcess) THEN OfProcess.clr ELSE target.clr
<1>6. target' = [target EXCEPT !.magic = ProcessBits, !.import = image.import,
                               !.bound = image.bound, !.iat = image.iat,
                               !.clr = clr, !.restored = TRUE]
  BY <1>2, <1>3 DEF Restored, OfProcess
<1> HIDE DEF clr
<1>7. /\ IsTarget(target') /\ target'.magic = ProcessBits /\ target'.import = image.import
      /\ target'.bound = image.bound /\ target'.iat = image.iat
      /\ target'.state = target.state /\ target'.payload = target.payload
      /\ target'.restored = TRUE
  BY <1>6 DEF TypeOK, IsTarget
<1>8. TypeOK' /\ CallInv'
  <2>1. TypeOK'
    BY <1>1, <1>7 DEF TypeOK, given
  <2>2. CallInv'
    BY <1>1, <1>7 DEF CallInv, given, AsksHelper
  <2> QED
    BY <2>1, <2>2
<1>9. /\ ProcessBits' = ProcessBits /\ OfProcess' = OfProcess
      /\ \A q \in Both : Bits(q)' = Bits(q)
      /\ UNCHANGED <<os, image, call>>
  BY <1>1, GivenStays
<1>10. UpdaterInv'
  <2>1. \A q \in Both : Bits(q) = ProcessBits => q = p
    BY <1>5, Bitness
  <2>2. \A q \in Both : q # p => update[q] \notin {"convert", "imports", "clr", "payload", "done"}
    BY <2>1 DEF UpdaterInv
  <2> QED
    BY <1>1, <1>4, <1>7, <1>9, <2>1, <2>2 DEF UpdaterInv
<1>11. HeaderInv'
  <2>1. image.import.va \notin Free
    BY Bitness
  <2> QED
    BY <1>1, <1>2, <1>3, <1>4, <1>7, <1>9, <2>1 DEF HeaderInv
<1> QED
  BY <1>8, <1>10, <1>11

-----------------------------------------------------------------------------
(* The new import table, for any DLLs and any old table.  (uimports.cpp)   *)

\* FlattenSeq, a row at a time.
LEMMA FlattenIs ==
    ASSUME NEW S, NEW rows \in Seq(Seq(S)), rows # <<>>
    PROVE  \E f \in [1 .. Len(rows) -> Seq(S)] :
              /\ f[1] = rows[1]
              /\ \A i \in 2 .. Len(rows) : f[i] = f[i - 1] \o rows[i]
              /\ FlattenSeq(rows) = f[Len(rows)]
<1> DEFINE k == Len(rows)
           Is(f) == f = [i \in 1 .. k |-> IF i = 1 THEN rows[i] ELSE f[i - 1] \o rows[i]]
           h == [i \in 1 .. k |-> [x \in Seq(S) |-> x \o rows[i]]]
<1>1. k \in Nat /\ k # 0
  OBVIOUS
<1>2. \A i \in 1 .. k : rows[i] \in Seq(S)
  OBVIOUS
<1>3. <<>> \in Seq(S) /\ \A x \in Seq(S) : \A i \in 1 .. k : x \o rows[i] \in Seq(S)
  BY <1>2
<1>4. \A i \in 1 .. k : \A x \in Seq(S) : h[i][x] \in Seq(S)
  BY <1>3
<1>5. \A i \in 1 .. k : \A x \in Seq(S) : h[i][x] = x \o rows[i]
  OBVIOUS
<1> HIDE DEF h, k, Is
<1>6. PICK g \in [0 .. k -> Seq(S)] :
          g[0] = <<>> /\ \A i \in 1 .. k : g[i] = h[i][g[i - 1]]
  <2>1. <<>> \in Seq(S) /\ Closed(h, k, Seq(S))
    BY <1>3, <1>4 DEF Closed
  <2>2. \E g : g \in Begun(k, Seq(S), <<>>, h)
    BY <1>1, <2>1, Recursion
  <2> QED
    BY <2>2 DEF Begun
<1>7. \A i \in 1 .. k : g[i] = g[i - 1] \o rows[i]
  <2>1. \A i \in 1 .. k : i - 1 \in 0 .. k
    BY <1>1
  <2> QED
    BY <1>5, <1>6, <2>1
<1>8. g[1] = rows[1]
  <2>1. 1 \in 1 .. k /\ 1 - 1 = 0
    BY <1>1
  <2>2. g[1] = <<>> \o rows[1] /\ rows[1] \in Seq(S)
    BY <1>2, <1>6, <1>7, <2>1
  <2> QED
    BY <2>2
<1> DEFINE e == [i \in 1 .. k |-> g[i]]
<1>9. e = [i \in 1 .. k |-> IF i = 1 THEN rows[i] ELSE e[i - 1] \o rows[i]]
  <2> SUFFICES ASSUME NEW i \in 1 .. k
               PROVE  g[i] = IF i = 1 THEN rows[i] ELSE e[i - 1] \o rows[i]
    OBVIOUS
  <2>1. i # 1 => e[i - 1] = g[i - 1]
    BY <1>1
  <2> QED
    BY <1>7, <1>8, <2>1
<1>10. Is(e)
  BY <1>9 DEF Is
<1> DEFINE f == CHOOSE f : Is(f)
<1>11. Is(f)
  BY <1>10
<1>12. FlattenSeq(rows) = f[k]
  BY <1>1 DEF FlattenSeq, k, Is
<1> HIDE DEF f
<1>13. f[1] = rows[1] /\ \A i \in 2 .. k : f[i] = f[i - 1] \o rows[i]
  <2>1. 1 \in 1 .. k /\ \A i \in 2 .. k : i \in 1 .. k /\ i # 1
    BY <1>1
  <2> QED
    BY <1>11, <2>1 DEF Is
<1>14. \A i \in 0 .. k : i = 0 \/ f[i] \in Seq(S)
  <2> DEFINE T == {i \in 0 .. k : i = 0 \/ f[i] \in Seq(S)}
  <2>1. 0 \in T
    BY <1>1
  <2>2. ASSUME NEW i \in 0 .. k - 1, i \in T PROVE i + 1 \in T
    <3>1. CASE i = 0
      BY <1>1, <1>2, <1>13, <3>1
    <3>2. CASE i # 0
      <4>1. i + 1 \in 2 .. k /\ (i + 1) - 1 = i /\ i + 1 \in 1 .. k
        BY <1>1, <3>2
      <4>2. f[i] \in Seq(S) /\ f[i + 1] = f[i] \o rows[i + 1]
        BY <1>13, <2>2, <3>2, <4>1
      <4>3. f[i + 1] \in Seq(S)
        BY <1>3, <4>1, <4>2
      <4> QED
        BY <4>1, <4>3
    <3> QED
      BY <3>1, <3>2
  <2> HIDE DEF T
  <2>3. \A i \in 0 .. k : i \in T
    BY <1>1, <2>1, <2>2, IntervalInduction
  <2> QED
    BY <2>3 DEF T
<1>15. f \in [1 .. k -> Seq(S)]
  <2>1. \A i \in 1 .. k : i \in 0 .. k /\ i # 0
    BY <1>1
  <2>2. f = [i \in 1 .. k |-> f[i]]
    BY <1>11 DEF Is
  <2> QED
    BY <1>14, <2>1, <2>2
<1> QED
  BY <1>12, <1>13, <1>15 DEF k

\* It begins with the first row, which is all that is needed of the thunks.
LEMMA FlattenBegins ==
    ASSUME NEW S, NEW rows \in Seq(Seq(S)), rows # <<>>
    PROVE  /\ FlattenSeq(rows) \in Seq(S)
           /\ Len(FlattenSeq(rows)) >= Len(rows[1])
           /\ \A j \in 1 .. Len(rows[1]) : FlattenSeq(rows)[j] = rows[1][j]
<1> DEFINE k == Len(rows)
           first == rows[1]
<1>1. k \in Nat /\ k # 0 /\ first \in Seq(S) /\ \A i \in 1 .. k : rows[i] \in Seq(S)
  OBVIOUS
<1>2. PICK f \in [1 .. k -> Seq(S)] :
          /\ f[1] = first
          /\ \A i \in 2 .. k : f[i] = f[i - 1] \o rows[i]
          /\ FlattenSeq(rows) = f[k]
  BY FlattenIs
<1> HIDE DEF k, first
<1> DEFINE Begins(s) == Len(s) >= Len(first) /\ \A j \in 1 .. Len(first) : s[j] = first[j]
           T == {i \in 0 .. k : i = 0 \/ Begins(f[i])}
<1>3. \A s, row \in Seq(S) : Begins(s) => Begins(s \o row)
  BY <1>1
<1>4. Begins(first)
  BY <1>1
<1> HIDE DEF Begins
<1>5. 0 \in T
  BY <1>1
<1>6. ASSUME NEW i \in 0 .. k - 1, i \in T PROVE i + 1 \in T
  <2>1. CASE i = 0
    BY <1>1, <1>2, <1>4, <2>1
  <2>2. CASE i # 0
    <3>1. i + 1 \in 2 .. k /\ (i + 1) - 1 = i /\ i + 1 \in 1 .. k /\ i \in 1 .. k
      BY <1>1, <2>2
    <3>2. f[i + 1] = f[i] \o rows[i + 1]
      BY <1>2, <3>1
    <3>3. Begins(f[i + 1])
      BY <1>1, <1>3, <1>6, <2>2, <3>1, <3>2
    <3> QED
      BY <3>1, <3>3
  <2> QED
    BY <2>1, <2>2
<1>7. k \in T
  <2> HIDE DEF T
  <2>1. k \in Nat /\ k \in 0 .. k
    BY <1>1
  <2>2. \A i \in 0 .. k : i \in T
    BY <2>1, <1>5, <1>6, IntervalInduction
  <2> QED
    BY <2>1, <2>2
<1> QED
  BY <1>1, <1>2, <1>7 DEF Begins, first

Dll  == [file : Nat \ {0}, bits : {0, Unspecified, 32, 64}]
Dlls == Seq(Dll)

\* The name of a DLL is never taken for the end of the table.
LEMMA NameIsNoEnd ==
    ASSUME NEW list \in Dlls, NEW bits \in {32, 64}, NEW n \in DOMAIN list
    PROVE  NameWord(list[n], bits) \in Nat \ {0}
<1>1. list[n] \in Dll
  BY DEF Dlls
<1>2. list[n].file \in Nat \ {0} /\ ReplaceOptionalSize(list[n], bits) \in {0, 32, 64}
  BY <1>1 DEF Dll, ReplaceOptionalSize
<1> QED
  BY <1>2 DEF NameWord

\* The descriptors of the DLLs lie five words apart.
LEMMA DescriptorsOfDlls ==
    ASSUME NEW list \in Dlls, NEW bits \in {32, 64}
    PROVE  /\ NewDescriptors(list, bits) \in Seq(Nat)
           /\ Len(NewDescriptors(list, bits)) = 5 * Len(list)
           /\ \A n \in 0 .. Len(list) - 1 :
                  /\ NewDescriptors(list, bits)[5 * n + 4] = NameWord(list[n + 1], bits)
                  /\ NewDescriptors(list, bits)[5 * n + 5] = SomeRva
<1> DEFINE k == Len(list)
           rows == [n \in DOMAIN list |-> Descriptor(list[n], bits)]
           name == [n \in 1 .. k |-> NameWord(list[n], bits)]
<1>1. k \in Nat /\ DOMAIN list = 1 .. k
  BY DEF Dlls
<1>2. \A n \in 1 .. k : name[n] \in Nat /\ name[n] = NameWord(list[n], bits)
  BY <1>1, NameIsNoEnd
<1>3. NewDescriptors(list, bits) = FlattenSeq(rows)
  BY DEF NewDescriptors
<1>4. \A n \in 1 .. k : rows[n] = <<SomeRva, 0, 0, name[n], SomeRva>>
  BY <1>1, <1>2 DEF Descriptor
<1>5. rows = [n \in 1 .. k |-> rows[n]]
  BY <1>1
<1> HIDE DEF rows, name, k
<1>6. \A n \in 1 .. k : rows[n] \in Seq(Nat)
  <2> SUFFICES ASSUME NEW n \in 1 .. k PROVE rows[n] \in Seq(Nat)
    OBVIOUS
  <2> DEFINE w == name[n]
  <2>1. w \in Nat /\ rows[n] = <<SomeRva, 0, 0, w, SomeRva>> /\ SomeRva \in Nat
    BY <1>2, <1>4 DEF SomeRva
  <2> HIDE DEF w
  <2> QED
    BY <2>1
<1>7. rows \in Seq(Seq(Nat)) /\ Len(rows) = k
  BY <1>1, <1>5, <1>6
<1>8. CASE k = 0
  <2>1. rows = <<>> /\ FlattenSeq(rows) = <<>>
    BY <1>7, <1>8 DEF FlattenSeq
  <2>2. 0 .. k - 1 = {} /\ 5 * k = 0
    BY <1>8
  <2> DEFINE d == NewDescriptors(list, bits)
  <2>3. d = <<>>
    BY <1>3, <2>1
  <2> HIDE DEF d
  <2>4. d \in Seq(Nat) /\ Len(d) = 5 * k
    BY <2>2, <2>3
  <2> QED
    BY <2>2, <2>4 DEF d, k
<1>9. CASE k # 0
  <2>1. PICK f \in [1 .. k -> Seq(Nat)] :
            /\ f[1] = rows[1]
            /\ \A i \in 2 .. k : f[i] = f[i - 1] \o rows[i]
            /\ FlattenSeq(rows) = f[k]
    <3>1. rows # <<>>
      BY <1>7, <1>9
    <3> DEFINE X == Nat
    <3> HIDE DEF X
    <3>2. rows \in Seq(Seq(X)) 
      BY <1>7 DEF X
    <3>3. \E f \in [1 .. Len(rows) -> Seq(X)] :
              /\ f[1] = rows[1]
              /\ \A i \in 2 .. Len(rows) : f[i] = f[i - 1] \o rows[i]
              /\ FlattenSeq(rows) = f[Len(rows)]
      BY <3>1, <3>2, FlattenIs
    <3> QED
      BY <1>7, <3>3 DEF X
  <2> DEFINE Laid(s, i) == /\ Len(s) = 5 * i
                           /\ \A n \in 0 .. i - 1 : /\ s[5 * n + 4] = name[n + 1]
                                                    /\ s[5 * n + 5] = SomeRva
             T == {i \in 0 .. k : i = 0 \/ Laid(f[i], i)}
  <2>2. ASSUME NEW i \in Nat, i + 1 \in 1 .. k, NEW s \in Seq(Nat), Laid(s, i)
        PROVE  Laid(s \o rows[i + 1], i + 1)
    <3>1. PICK row \in Seq(Nat) : /\ row = rows[i + 1] /\ Len(row) = 5
                                  /\ row[4] = name[i + 1] /\ row[5] = SomeRva
      <4> DEFINE w == name[i + 1]
      <4>1. rows[i + 1] = <<SomeRva, 0, 0, w, SomeRva>> /\ rows[i + 1] \in Seq(Nat)
        BY <1>4, <1>6, <2>2
      <4> HIDE DEF w
      <4>2. Len(rows[i + 1]) = 5 /\ rows[i + 1][4] = w /\ rows[i + 1][5] = SomeRva
        BY <4>1
      <4> QED
        BY <4>1, <4>2 DEF w
    <3>2. Len(s) = 5 * i
      BY <2>2
    <3>3. \A n \in 0 .. i - 1 : s[5 * n + 4] = name[n + 1] /\ s[5 * n + 5] = SomeRva
      BY <2>2
    <3> HIDE DEF Laid
    <3>4. /\ Len(s \o row) = Len(s) + 5
          /\ \A j \in 1 .. Len(s) : (s \o row)[j] = s[j]
          /\ \A j \in 1 .. 5 : (s \o row)[5 * i + j] = row[j]
      <4>1. /\ Len(s \o row) = Len(s) + Len(row)
            /\ \A j \in 1 .. Len(s) : (s \o row)[j] = s[j]
            /\ \A j \in 1 .. Len(row) : (s \o row)[Len(s) + j] = row[j]
        OBVIOUS
      <4> QED
        BY <3>1, <3>2, <4>1
    <3> DEFINE t == s \o row
    <3> HIDE DEF t
    <3>5. Len(t) = 5 * (i + 1)
      BY <3>2, <3>4 DEF t
    <3>6. ASSUME NEW n \in 0 .. (i + 1) - 1
          PROVE  t[5 * n + 4] = name[n + 1] /\ t[5 * n + 5] = SomeRva
      <4>1. CASE n = i
        <5>1. t[5 * i + 4] = row[4] /\ t[5 * i + 5] = row[5]
          BY <3>4, 4 \in 1 .. 5, 5 \in 1 .. 5 DEF t
        <5> QED
          BY <3>1, <4>1, <5>1
      <4>2. CASE n # i
        <5>1. n \in 0 .. i - 1 /\ 5 * n + 4 \in 1 .. Len(s) /\ 5 * n + 5 \in 1 .. Len(s)
          BY <3>2, <4>2
        <5> QED
          BY <3>3, <3>4, <5>1 DEF t
      <4> QED
        BY <4>1, <4>2
    <3>7. Laid(t, i + 1)
      BY <3>5, <3>6 DEF Laid
    <3> QED
      BY <3>1, <3>7 DEF t
  <2>3. Laid(<<>>, 0)
    OBVIOUS
  <2>4. <<>> \o rows[1] = rows[1] /\ <<>> \in Seq(Nat)
    BY <1>1, <1>6, <1>9
  <2>5. 1 \in 1 .. k
    BY <1>1, <1>9
  <2> HIDE DEF Laid
  <2>6. Laid(rows[1], 1)
    <3>1. 0 \in Nat /\ 0 + 1 = 1 /\ <<>> \in Seq(Nat)
      OBVIOUS
    <3>2. Laid(<<>> \o rows[0 + 1], 0 + 1)
      BY ONLY <2>2, <2>3, <2>5, <3>1, 0 + 1 \in 1 .. k
    <3> QED
      BY <2>4, <3>1, <3>2
  <2>7. 0 \in T
    BY <1>1
  <2>8. ASSUME NEW i \in 0 .. k - 1, i \in T PROVE i + 1 \in T
    <3>1. CASE i = 0
      BY <2>1, <2>5, <2>6, <3>1
    <3>2. CASE i # 0
      <4>1. i + 1 \in 2 .. k /\ (i + 1) - 1 = i /\ i + 1 \in 1 .. k /\ i \in 1 .. k
        BY <1>1, <3>2
      <4>2. f[i + 1] = f[i] \o rows[i + 1]
        BY <2>1, <4>1
      <4>3. Laid(f[i + 1], i + 1)
        BY <2>1, <2>2, <2>8, <3>2, <4>1, <4>2
      <4> QED
        BY <4>1, <4>3
    <3> QED
      BY <3>1, <3>2
  <2>9. k \in T
    <3> HIDE DEF T
    <3>1. k \in Nat /\ k \in 0 .. k
      BY <1>1
    <3>2. \A i \in 0 .. k : i \in T
      BY <3>1, <2>7, <2>8, IntervalInduction
    <3> QED
      BY <3>1, <3>2
  <2>10. Laid(FlattenSeq(rows), k) /\ FlattenSeq(rows) \in Seq(Nat)
    BY <1>9, <2>1, <2>5, <2>9
  <2>11. \A n \in 0 .. k - 1 : name[n + 1] = NameWord(list[n + 1], bits)
    BY <1>1, <1>2
  <2> QED
    BY <1>3, <2>10, <2>11 DEF Laid, k
<1> QED
  BY <1>8, <1>9

\* The fourth of the words that follow two other parts.
LEMMA FourthWithin ==
    ASSUME NEW n \in Nat, NEW p \in Nat, NEW l \in Nat, 4 <= l, NEW s \in Nat
    PROVE  n + p + 4 \in 1 .. n + p + l /\ n + p + 4 \in 1 .. n + p + l + s
OBVIOUS

\* Two runs of words, one behind the other.
LEMMA WordsJoined ==
    ASSUME NEW s \in Seq(Nat), NEW t \in Seq(Nat)
    PROVE  /\ s \o t \in Seq(Nat) /\ Len(s \o t) = Len(s) + Len(t)
           /\ \A j \in 1 .. Len(s) : (s \o t)[j] = s[j]
           /\ \A j \in 1 .. Len(t) : (s \o t)[Len(s) + j] = t[j]
OBVIOUS

\* What is rounded up to an even number.
LEMMA Padding ==
    ASSUME NEW n \in Nat PROVE PadToDwordPtr(n) - n \in {0, 1}
BY DEF PadToDwordPtr

\* The fourth word of the thunks is zero in both bitnesses.
LEMMA ThunksEnd ==
    ASSUME NEW list \in Dlls, list # <<>>, NEW bits \in {32, 64}
    PROVE  /\ NewThunks(list, bits) \in Seq(Nat) /\ Len(NewThunks(list, bits)) >= 4
           /\ NewThunks(list, bits)[4] = 0
<1> DEFINE k == Len(list)
           rows == [n \in DOMAIN list |-> Thunks(bits) \o Thunks(bits)]
           row == Thunks(bits) \o Thunks(bits)
<1>1. k \in Nat /\ k # 0 /\ DOMAIN list = 1 .. k
  BY DEF Dlls
<1>2. row \in Seq(Nat) /\ Len(row) >= 4 /\ row[4] = 0
  <2>1. /\ Zeros(1) \in Seq(Nat) /\ Len(Zeros(1)) = 1 /\ Zeros(1)[1] = 0
        /\ Zeros(2) \in Seq(Nat) /\ Len(Zeros(2)) = 2 /\ Zeros(2)[1] = 0 /\ Zeros(2)[2] = 0
    BY DEF Zeros
  <2>2. CASE bits = 32
    <3> DEFINE z == Zeros(1)
    <3>a. PICK ordinal \in Nat : Thunks(bits) = <<ordinal>> \o z
      BY <2>2, SMT DEF Thunks, OrdinalOne, ThunkWords
    <3> DEFINE t == <<ordinal>> \o z
    <3>1. Thunks(bits) = t
      BY <3>a
    <3>2. z \in Seq(Nat) /\ Len(z) = 1 /\ z[1] = 0
      BY <2>1
    <3> HIDE DEF z
    <3> DEFINE u == <<ordinal>>
    <3>b. u \in Seq(Nat) /\ Len(u) = 1
      OBVIOUS
    <3> HIDE DEF u
    <3>c. t = u \o z
      BY DEF u
    <3>3. t \in Seq(Nat) /\ Len(t) = 2 /\ t[2] = 0
      BY <3>2, <3>b, <3>c, WordsJoined
    <3> HIDE DEF t
    <3>4. t \o t \in Seq(Nat) /\ Len(t \o t) = 4 /\ (t \o t)[4] = 0
      <4>1. /\ t \o t \in Seq(Nat) /\ Len(t \o t) = Len(t) + Len(t)
            /\ \A j \in 1 .. Len(t) : (t \o t)[Len(t) + j] = t[j]
        BY <3>3, WordsJoined
      <4>2. 2 \in 1 .. Len(t) /\ Len(t) + 2 = 4
        BY <3>3
      <4> QED
        BY <3>3, <4>1, <4>2
    <3> QED
      BY <3>1, <3>4
  <2>3. CASE bits = 64
    <3> DEFINE z == Zeros(2)
    <3>a. PICK ordinal \in Nat : Thunks(bits) = <<1, ordinal>> \o z
      BY <2>3, SMT DEF Thunks, OrdinalOne, ThunkWords
    <3> DEFINE t == <<1, ordinal>> \o z
    <3>1. Thunks(bits) = t
      BY <3>a
    <3>2. z \in Seq(Nat) /\ Len(z) = 2 /\ z[2] = 0
      BY <2>1
    <3> HIDE DEF z
    <3> DEFINE u == <<1, ordinal>>
    <3>b. u \in Seq(Nat) /\ Len(u) = 2
      OBVIOUS
    <3> HIDE DEF u
    <3>c. t = u \o z
      BY DEF u
    <3>3. t \in Seq(Nat) /\ Len(t) = 4 /\ t[4] = 0
      BY <3>2, <3>b, <3>c, WordsJoined
    <3> HIDE DEF t
    <3>4. t \o t \in Seq(Nat) /\ Len(t \o t) = 8 /\ (t \o t)[4] = 0
      <4>1. /\ t \o t \in Seq(Nat) /\ Len(t \o t) = Len(t) + Len(t)
            /\ \A j \in 1 .. Len(t) : (t \o t)[j] = t[j]
        BY <3>3, WordsJoined
      <4>2. 4 \in 1 .. Len(t)
        BY <3>3
      <4> QED
        BY <3>3, <4>1, <4>2
    <3> QED
      BY <3>1, <3>4
  <2> QED
    BY <2>2, <2>3
<1>3. NewThunks(list, bits) = FlattenSeq(rows)
  BY DEF NewThunks
<1>4. rows = [n \in 1 .. k |-> row]
  BY <1>1
<1> DEFINE t == FlattenSeq(rows)
<1> HIDE DEF row, rows, k
<1>5. rows \in Seq(Seq(Nat)) /\ rows # <<>> /\ rows[1] = row
  BY <1>1, <1>2, <1>4
<1>6. /\ t \in Seq(Nat) /\ Len(t) >= Len(row)
      /\ \A j \in 1 .. Len(row) : t[j] = row[j]
  <2> DEFINE X == Nat
  <2> HIDE DEF X
  <2>1. rows \in Seq(Seq(X))
    BY <1>5 DEF X
  <2> QED
    BY <1>5, <2>1, FlattenBegins DEF X
<1> HIDE DEF t
<1>7. t \in Seq(Nat) /\ Len(t) >= 4 /\ t[4] = 0
  BY <1>2, <1>6
<1> QED
  BY <1>3, <1>7 DEF t

\* The old descriptors, as far as they are whole; zeros where there was no table.
LEMMA OldWords ==
    ASSUME NEW import, import.words \in Seq(Nat)
    PROVE  LET m == Len(import.words) \div DescriptorWords
               old == ReadOldTable(import)
           IN  /\ m \in Nat /\ 5 * m <= Len(import.words) /\ Len(import.words) < 5 * m + 5
               /\ old \in Seq(Nat) /\ Len(old) = 5 * m
               /\ \A j \in 1 .. 5 * m :
                      old[j] = IF import.va # 0 THEN import.words[j] ELSE 0
<1> DEFINE words == import.words
           m == Len(words) \div 5
           n == 5 * m
<1>1. m \in Nat /\ n \in Nat /\ n <= Len(words) /\ Len(words) < n + 5
  <2> DEFINE l == Len(words)
  <2>1. l \in Nat
    OBVIOUS
  <2> HIDE DEF l
  <2>2. l \div 5 \in Nat /\ 5 * (l \div 5) <= l /\ l < 5 * (l \div 5) + 5
    BY <2>1
  <2>3. m = l \div 5 /\ n = 5 * (l \div 5)
    BY DEF l
  <2>4. m \in Nat /\ n \in Nat /\ n <= l /\ l < n + 5
    <3> HIDE DEF m, n
    <3> QED
      BY <2>1, <2>2, <2>3
  <2> QED
    BY <2>4 DEF l
<1>2. words \in Seq(Nat)
  OBVIOUS
<1>3. ReadOldTable(import) = IF import.va # 0 THEN SubSeq(words, 1, n) ELSE Zeros(n)
  BY DEF ReadOldTable, OldDescriptors, DescriptorWords
<1> HIDE DEF words, n
<1>4. /\ SubSeq(words, 1, n) \in Seq(Nat) /\ Len(SubSeq(words, 1, n)) = n
      /\ \A j \in 1 .. n : SubSeq(words, 1, n)[j] = words[j]
  BY <1>1, <1>2
<1>5. Zeros(n) \in Seq(Nat) /\ Len(Zeros(n)) = n /\ \A j \in 1 .. n : Zeros(n)[j] = 0
  BY <1>1 DEF Zeros
<1> DEFINE old == ReadOldTable(import)
<1>6. /\ old \in Seq(Nat) /\ Len(old) = n
      /\ \A j \in 1 .. n : old[j] = IF import.va # 0 THEN words[j] ELSE 0
  BY <1>3, <1>4, <1>5
<1> HIDE DEF old
<1> QED
  BY <1>1, <1>6 DEF old, n, words, DescriptorWords

\* The descriptors of a new table are the new ones and the old ones; behind
\* them follows an end, which nobody has written: the alignment and the thunks
\* of the first DLL make it.
LEMMA TableWords ==
    ASSUME NEW list \in Dlls, NEW bits \in {32, 64}, NEW import, import.words \in Seq(Nat)
    PROVE  LET k == Len(list)
               m == Len(import.words) \div DescriptorWords
               t == NewTable(list, import, bits)
           IN  /\ t \in Seq(Nat) /\ Len(t) >= 5 * (k + m)
               /\ \A n \in 0 .. k - 1 : /\ t[5 * n + 4] = NameWord(list[n + 1], bits)
                                        /\ t[5 * n + 5] = SomeRva
               /\ \A j \in 1 .. 5 * m :
                      t[5 * k + j] = IF import.va # 0 THEN import.words[j] ELSE 0
               /\ \/ Word(t, 5 * (k + m) + 4) = 0
                  \/ Word(t, 5 * (k + m) + 5) = 0
<1> DEFINE k == Len(list)
           m == Len(import.words) \div DescriptorWords
           new == NewDescriptors(list, bits)
           old == ReadOldTable(import)
           iids == new \o old
           pad == PadToDwordPtr(Len(iids)) - Len(iids)
           zeros == Zeros(pad)
           thunks == NewThunks(list, bits)
           strings == Strings(list)
           t == NewTable(list, import, bits)
<1>1. k \in Nat /\ m \in Nat
  BY OldWords DEF Dlls
<1>2. t = iids \o zeros \o thunks \o strings
  BY DEF NewTable
<1>3. /\ new \in Seq(Nat) /\ Len(new) = 5 * k
      /\ \A n \in 0 .. k - 1 : /\ new[5 * n + 4] = NameWord(list[n + 1], bits)
                               /\ new[5 * n + 5] = SomeRva
  BY DescriptorsOfDlls
<1>4. /\ old \in Seq(Nat) /\ Len(old) = 5 * m
      /\ \A j \in 1 .. 5 * m : old[j] = IF import.va # 0 THEN import.words[j] ELSE 0
  BY OldWords
<1> HIDE DEF new, old, k, m
<1>5. /\ iids \in Seq(Nat) /\ Len(iids) = 5 * (k + m)
      /\ \A j \in 1 .. 5 * k : iids[j] = new[j]
      /\ \A j \in 1 .. 5 * m : iids[5 * k + j] = old[j]
  <2>1. /\ iids \in Seq(Nat) /\ Len(iids) = Len(new) + Len(old)
        /\ \A j \in 1 .. Len(new) : iids[j] = new[j]
        /\ \A j \in 1 .. Len(old) : iids[Len(new) + j] = old[j]
    BY <1>3, <1>4, WordsJoined DEF iids
  <2> QED
    BY <1>1, <1>3, <1>4, <2>1
<1> HIDE DEF iids
<1>6. pad \in {0, 1}
  <2>1. Len(iids) \in Nat
    BY <1>1, <1>5
  <2> QED
    BY <2>1, Padding
<1> HIDE DEF pad
<1>7. zeros \in Seq(Nat) /\ Len(zeros) = pad /\ \A j \in 1 .. pad : zeros[j] = 0
  BY <1>6 DEF Zeros
<1>8. /\ thunks \in Seq(Nat) /\ strings \in Seq(Nat)
      /\ k = 0 => Len(thunks) = 0 /\ Len(strings) = 0
      /\ k # 0 => Len(thunks) >= 4 /\ thunks[4] = 0
  <2>1. strings \in Seq(Nat) /\ Len(strings) = k
    <3>1. strings = [n \in 1 .. k |-> 25185]
      BY DEF Strings, Dlls, k
    <3> QED
      BY <1>1, <3>1
  <2>2. CASE k = 0
    <3>1. list = <<>>
      BY <2>2 DEF Dlls, k
    <3> DEFINE rows == [n \in DOMAIN list |-> Thunks(bits) \o Thunks(bits)]
    <3>2. rows = <<>> /\ thunks = FlattenSeq(rows)
      BY <3>1 DEF NewThunks
    <3> HIDE DEF rows
    <3>3. thunks = <<>>
      BY <3>2 DEF FlattenSeq
    <3> QED
      BY <2>1, <2>2, <3>3
  <2>3. CASE k # 0
    <3>1. list # <<>>
      BY <2>3 DEF k
    <3> QED
      BY <2>1, <2>3, <3>1, ThunksEnd
  <2> QED
    BY <2>2, <2>3
<1> HIDE DEF zeros, thunks, strings
<1> DEFINE s1 == iids \o zeros
           s2 == s1 \o thunks
           N == 5 * (k + m)
<1>9. N \in Nat /\ Len(iids) = N
  BY <1>1, <1>5
<1> HIDE DEF N
<1>10. /\ s1 \in Seq(Nat) /\ Len(s1) = N + pad
       /\ \A j \in 1 .. N : s1[j] = iids[j]
  BY <1>5, <1>6, <1>7, <1>9, WordsJoined
<1> HIDE DEF s1
<1>11. /\ s2 \in Seq(Nat) /\ Len(s2) = N + pad + Len(thunks)
       /\ \A j \in 1 .. N + pad : s2[j] = s1[j]
       /\ \A j \in 1 .. Len(thunks) : s2[N + pad + j] = thunks[j]
  <2>1. /\ s2 \in Seq(Nat) /\ Len(s2) = Len(s1) + Len(thunks)
        /\ \A j \in 1 .. Len(s1) : s2[j] = s1[j]
        /\ \A j \in 1 .. Len(thunks) : s2[Len(s1) + j] = thunks[j]
    BY <1>8, <1>10, WordsJoined DEF s2
  <2> HIDE DEF s2
  <2> QED
    BY <1>10, <2>1
<1> HIDE DEF s2
<1>12. /\ t \in Seq(Nat) /\ Len(t) = N + pad + Len(thunks) + Len(strings)
       /\ \A j \in 1 .. N + pad + Len(thunks) : t[j] = s2[j]
  <2>1. t = s2 \o strings
    BY <1>2 DEF s2, s1
  <2> HIDE DEF t
  <2>2. /\ t \in Seq(Nat) /\ Len(t) = Len(s2) + Len(strings)
        /\ \A j \in 1 .. Len(s2) : t[j] = s2[j]
    BY <1>8, <1>11, <2>1, WordsJoined
  <2> QED
    BY <1>11, <2>2
<1> HIDE DEF t
<1>13. \A j \in 1 .. N : t[j] = iids[j]
  BY <1>6, <1>8, <1>9, <1>10, <1>11, <1>12
<1>14. \A n \in 0 .. k - 1 : /\ t[5 * n + 4] = NameWord(list[n + 1], bits)
                             /\ t[5 * n + 5] = SomeRva
  <2> SUFFICES ASSUME NEW n \in 0 .. k - 1
               PROVE  t[5 * n + 4] = new[5 * n + 4] /\ t[5 * n + 5] = new[5 * n + 5]
    BY <1>3
  <2>1. /\ 5 * n + 4 \in 1 .. 5 * k /\ 5 * n + 5 \in 1 .. 5 * k
        /\ 5 * n + 4 \in 1 .. N /\ 5 * n + 5 \in 1 .. N
    BY <1>1 DEF N
  <2> QED
    BY <1>5, <1>13, <2>1
<1>15. \A j \in 1 .. 5 * m : t[5 * k + j] = IF import.va # 0 THEN import.words[j] ELSE 0
  <2> SUFFICES ASSUME NEW j \in 1 .. 5 * m PROVE t[5 * k + j] = old[j]
    BY <1>4
  <2>1. 5 * k + j \in 1 .. N
    BY <1>1 DEF N
  <2> QED
    BY <1>5, <1>13, <2>1
<1>16. Word(t, N + 4) = 0 \/ Word(t, N + 5) = 0
  <2>1. DOMAIN t = 1 .. Len(t)
    BY <1>12
  <2>2. CASE k = 0
    <3>1. N + 4 \notin DOMAIN t
      BY <1>6, <1>8, <1>9, <1>12, <2>1, <2>2
    <3> QED
      BY <3>1 DEF Word
  <2>3. CASE k # 0
    <3>1. Len(thunks) \in Nat /\ Len(strings) \in Nat /\ 4 \in 1 .. Len(thunks)
      BY <1>8, <2>3
    <3>2. /\ N + pad + 4 \in 1 .. N + pad + Len(thunks)
          /\ N + pad + 4 \in 1 .. Len(t)
      <4>1. pad \in Nat /\ 4 <= Len(thunks)
        BY <1>6, <3>1
      <4>2. /\ N + pad + 4 \in 1 .. N + pad + Len(thunks)
            /\ N + pad + 4 \in 1 .. N + pad + Len(thunks) + Len(strings)
        BY <1>9, <3>1, <4>1, FourthWithin
      <4> QED
        BY <1>12, <4>2
    <3>3. N + pad + 4 \in DOMAIN t /\ t[N + pad + 4] = 0
      BY <1>8, <1>11, <1>12, <2>1, <2>3, <3>1, <3>2
    <3> QED
      BY <1>6, <1>9, <3>3 DEF Word
  <2> QED
    BY <2>2, <2>3
<1>17. Len(t) >= N
  BY <1>6, <1>8, <1>9, <1>12
<1> QED
  BY <1>12, <1>14, <1>15, <1>16, <1>17 DEF N, k, m, t

EndsAt(words, n) == Name(words, n) = 0 \/ FirstThunk(words, n) = 0

\* The loader stops at the first end.
LEMMA LoadsUpTo ==
    ASSUME NEW words \in Seq(Nat), NEW last \in 0 .. Len(words), EndsAt(words, last),
           \A n \in 0 .. last - 1 : ~EndsAt(words, n)
    PROVE  Loads(words) = [n \in 1 .. last |-> Name(words, n - 1)]
<1> DEFINE ends == {n \in 0 .. Len(words) : EndsAt(words, n)}
<1>1. Len(words) \in Nat
  OBVIOUS
<1>2. last \in ends /\ \A k \in ends : last <= k
  BY <1>1
<1>3. \A n \in ends : (\A k \in ends : n <= k) => n = last
  BY <1>1, <1>2
<1>4. Loads(words) = LET l == CHOOSE n \in ends : \A k \in ends : n <= k
                     IN  [n \in 1 .. l |-> Name(words, n - 1)]
  BY DEF Loads, EndsAt
<1> HIDE DEF ends
<1>5. (CHOOSE n \in ends : \A k \in ends : n <= k) = last
  BY <1>2, <1>3
<1> QED
  BY <1>4, <1>5

\* A table has an end where its words have no whole descriptor left.
LEMMA HasEnd ==
    ASSUME NEW words \in Seq(Nat)
    PROVE  \E last \in 0 .. Len(words) \div DescriptorWords :
               EndsAt(words, last) /\ \A n \in 0 .. last - 1 : ~EndsAt(words, n)
<1> DEFINE len == Len(words)
           m == len \div DescriptorWords
           ends == {n \in Nat : n <= m /\ EndsAt(words, n)}
<1>1. m \in Nat /\ len < 5 * m + 5 /\ len \in Nat
  <2> HIDE DEF len
  <2>1. len \in Nat
    BY DEF len
  <2> QED
    BY <2>1 DEF DescriptorWords
<1>2. DOMAIN words = 1 .. len
  OBVIOUS
<1> HIDE DEF len, m
<1>3. 5 * m + 5 \notin DOMAIN words
  BY <1>1, <1>2
<1>4. m \in ends
  BY <1>1, <1>3 DEF EndsAt, FirstThunk, Word, DescriptorWords
<1> HIDE DEF EndsAt
<1>5. PICK last \in ends : \A n \in ends : last <= n
  <2>1. ends \in SUBSET Nat /\ ends # {}
    BY <1>4
  <2> HIDE DEF ends
  <2> QED
    BY <2>1, LeastMember
<1>6. \A n \in 0 .. last - 1 : n \notin ends /\ n \in Nat /\ n <= m
  BY <1>1, <1>5
<1>7. last \in 0 .. m /\ EndsAt(words, last)
  BY <1>1, <1>5
<1>8. \A n \in 0 .. last - 1 : ~EndsAt(words, n)
  BY <1>6
<1> QED
  BY <1>7, <1>8 DEF m, len

NamesOf(list, bits) == [n \in DOMAIN list |-> NameWord(list[n], bits)]
HasWords(import) == import.words \in Seq(Nat)
NamesOld(import) == IF import.va = 0 THEN <<>> ELSE Loads(import.words)
AllNames(list, bits, import) == NamesOf(list, bits) \o NamesOld(import)

\* What the loader finds in a new table: the DLLs, and then what it would have
\* found in the old one.
LEMMA LoadsOfNewTable ==
    ASSUME NEW list \in Dlls, NEW bits \in {32, 64}, NEW import, HasWords(import)
    PROVE  Loads(NewTable(list, import, bits)) = AllNames(list, bits, import)
<1>0. import.words \in Seq(Nat)
  BY DEF HasWords
<1> DEFINE k == Len(list)
           words == import.words
           m == Len(words) \div DescriptorWords
           t == NewTable(list, import, bits)
           old == IF import.va = 0 THEN <<>> ELSE Loads(words)
           name == [n \in 1 .. k |-> NameWord(list[n], bits)]
<1>1. /\ t \in Seq(Nat) /\ Len(t) >= 5 * (k + m)
      /\ \A n \in 0 .. k - 1 : /\ t[5 * n + 4] = NameWord(list[n + 1], bits)
                               /\ t[5 * n + 5] = SomeRva
      /\ \A j \in 1 .. 5 * m : t[5 * k + j] = IF import.va # 0 THEN words[j] ELSE 0
      /\ Word(t, 5 * (k + m) + 4) = 0 \/ Word(t, 5 * (k + m) + 5) = 0
  BY <1>0, TableWords
<1>2. k \in Nat /\ DOMAIN list = 1 .. k /\ words \in Seq(Nat)
  BY <1>0 DEF Dlls
<1>3. /\ m \in Nat /\ 5 * m <= Len(words) /\ DOMAIN words = 1 .. Len(words)
      /\ DOMAIN t = 1 .. Len(t) /\ Len(t) \in Nat /\ Len(words) \in Nat
  BY <1>0, <1>1, <1>2, OldWords
<1>4. \A n \in 1 .. k : name[n] = NameWord(list[n], bits) /\ name[n] \in Nat \ {0}
  BY <1>2, NameIsNoEnd
<1> HIDE DEF k, words, m, t, name
<1>5. ASSUME NEW n \in 0 .. k - 1
      PROVE  Name(t, n) = name[n + 1] /\ ~EndsAt(t, n)
  <2>1. 5 * n + 4 \in 1 .. Len(t) /\ 5 * n + 5 \in 1 .. Len(t)
    BY <1>1, <1>2, <1>3
  <2>2. Name(t, n) = t[5 * n + 4] /\ FirstThunk(t, n) = t[5 * n + 5]
    BY <1>3, <2>1 DEF Name, FirstThunk, Word, DescriptorWords
  <2>3. n + 1 \in 1 .. k
    BY <1>2
  <2> QED
    BY <1>1, <1>4, <2>2, <2>3 DEF EndsAt, SomeRva
<1>6. ASSUME NEW n \in 0 .. m - 1
      PROVE  /\ Name(t, k + n) = IF import.va # 0 THEN Name(words, n) ELSE 0
             /\ FirstThunk(t, k + n) = IF import.va # 0 THEN FirstThunk(words, n) ELSE 0
  <2>1. /\ 5 * n + 4 \in 1 .. 5 * m /\ 5 * n + 5 \in 1 .. 5 * m
        /\ 5 * n + 4 \in 1 .. Len(words) /\ 5 * n + 5 \in 1 .. Len(words)
        /\ 5 * (k + n) + 4 \in 1 .. Len(t) /\ 5 * (k + n) + 5 \in 1 .. Len(t)
        /\ 5 * (k + n) + 4 = 5 * k + (5 * n + 4)
        /\ 5 * (k + n) + 5 = 5 * k + (5 * n + 5)
    BY <1>1, <1>2, <1>3
  <2>2. /\ Name(t, k + n) = t[5 * k + (5 * n + 4)]
        /\ FirstThunk(t, k + n) = t[5 * k + (5 * n + 5)]
        /\ Name(words, n) = words[5 * n + 4]
        /\ FirstThunk(words, n) = words[5 * n + 5]
    BY <1>3, <2>1 DEF Name, FirstThunk, Word, DescriptorWords
  <2> QED
    BY <1>1, <2>1, <2>2
<1>7. EndsAt(t, k + m)
  BY <1>1 DEF EndsAt, Name, FirstThunk, DescriptorWords
<1>8. PICK l \in 0 .. m : /\ EndsAt(t, k + l)
                          /\ \A n \in 0 .. l - 1 : ~EndsAt(t, k + n)
                          /\ old = [n \in 1 .. l |-> Name(t, k + n - 1)]
  <2>1. CASE import.va = 0
    <3>1. EndsAt(t, k + 0)
      <4>1. CASE m = 0
        BY <1>7, <4>1
      <4>2. CASE m # 0
        <5>1. 0 \in 0 .. m - 1
          BY <1>3, <4>2
        <5> QED
          BY <1>6, <2>1, <5>1 DEF EndsAt
      <4> QED
        BY <4>1, <4>2
    <3>2. 0 \in 0 .. m /\ \A n \in 0 .. 0 - 1 : ~EndsAt(t, k + n)
      BY <1>3
    <3>3. old = [n \in 1 .. 0 |-> Name(t, k + n - 1)]
      BY <2>1
    <3> QED
      BY <3>1, <3>2, <3>3
  <2>2. CASE import.va # 0
    <3>1. PICK l \in 0 .. m : EndsAt(words, l) /\ \A n \in 0 .. l - 1 : ~EndsAt(words, n)
      BY <1>2, HasEnd DEF m
    <3>2. l \in 0 .. Len(words)
      BY <1>3
    <3>3. Loads(words) = [n \in 1 .. l |-> Name(words, n - 1)]
      BY <1>2, <3>1, <3>2, LoadsUpTo
    <3>4. \A n \in 0 .. m - 1 : /\ Name(t, k + n) = Name(words, n)
                                /\ EndsAt(t, k + n) <=> EndsAt(words, n)
      BY <1>6, <2>2 DEF EndsAt
    <3>5. EndsAt(t, k + l)
      <4>1. CASE l = m
        BY <1>7, <4>1
      <4>2. CASE l # m
        BY <1>3, <3>1, <3>4, <4>2
      <4> QED
        BY <4>1, <4>2
    <3>6. \A n \in 0 .. l - 1 : ~EndsAt(t, k + n)
      BY <1>3, <3>1, <3>4
    <3>7. \A n \in 1 .. l : Name(words, n - 1) = Name(t, k + n - 1)
      <4> SUFFICES ASSUME NEW n \in 1 .. l PROVE Name(words, n - 1) = Name(t, k + n - 1)
        OBVIOUS
      <4>1. n - 1 \in 0 .. m - 1 /\ k + n - 1 = k + (n - 1)
        BY <1>2, <1>3
      <4> QED
        BY <3>4, <4>1
    <3>8. old = [n \in 1 .. l |-> Name(t, k + n - 1)]
      BY <2>2, <3>3, <3>7
    <3> QED
      BY <3>5, <3>6, <3>8
  <2> QED
    BY <2>1, <2>2
<1> DEFINE last == k + l
<1>9. last \in 0 .. Len(t) /\ last \in Nat
  BY <1>1, <1>2, <1>3
<1>10. \A n \in 0 .. last - 1 : ~EndsAt(t, n)
  <2> SUFFICES ASSUME NEW n \in 0 .. last - 1 PROVE ~EndsAt(t, n)
    OBVIOUS
  <2>1. CASE n < k
    BY <1>2, <1>5, <2>1
  <2>2. CASE n >= k
    <3>1. n - k \in 0 .. l - 1 /\ k + (n - k) = n
      BY <1>2, <1>3, <2>2
    <3> QED
      BY <1>8, <3>1
  <2> QED
    BY <1>2, <2>1, <2>2
<1>11. Loads(t) = [n \in 1 .. last |-> Name(t, n - 1)]
  BY <1>1, <1>8, <1>9, <1>10, LoadsUpTo
<1>12. \A n \in 1 .. k : Name(t, n - 1) = name[n]
  <2> SUFFICES ASSUME NEW n \in 1 .. k PROVE Name(t, n - 1) = name[n]
    OBVIOUS
  <2>1. n - 1 \in 0 .. k - 1 /\ (n - 1) + 1 = n
    BY <1>2
  <2> QED
    BY <1>5, <2>1
<1> DEFINE val == [n \in 1 .. last |-> Name(t, n - 1)]
<1>13. name \o old = val
  <2>1. name = [n \in 1 .. k |-> val[n]]
    <3>1. name = [n \in 1 .. k |-> name[n]]
      BY DEF name
    <3>2. \A n \in 1 .. k : n \in 1 .. last
      BY <1>2, <1>3
    <3> QED
      BY <1>12, <3>1, <3>2
  <2>2. old = [n \in 1 .. l |-> val[k + n]]
    <3>1. \A n \in 1 .. l : k + n \in 1 .. last
      BY <1>2, <1>3
    <3>2. ASSUME NEW n \in 1 .. l PROVE val[k + n] = Name(t, k + n - 1)
      <4>1. \A j \in 1 .. last : val[j] = Name(t, j - 1)
        OBVIOUS
      <4> HIDE DEF val, last
      <4>2. PICK j \in 1 .. last : j = k + n
        BY <3>1
      <4>3. val[j] = Name(t, j - 1)
        BY <4>1
      <4>4. j - 1 = k + n - 1
        BY <1>2, <1>3, <4>2
      <4> QED
        BY <4>2, <4>3, <4>4
    <3> HIDE DEF old, val
    <3> QED
      BY <1>8, <3>2
  <2>3. val = [n \in 1 .. k + l |-> val[n]]
    OBVIOUS
  <2> HIDE DEF val, old, name
  <2>4. k \in Nat /\ l \in Nat
    BY <1>2, <1>3
  <2>5. [n \in 1 .. k |-> val[n]] \o [n \in 1 .. l |-> val[k + n]] = [n \in 1 .. k + l |-> val[n]]
    BY <2>4
  <2> QED
    BY <2>1, <2>2, <2>3, <2>5
<1>14. name = NamesOf(list, bits)
  BY <1>2 DEF name, NamesOf
<1>15. old = NamesOld(import)
  BY DEF words, NamesOld
<1> QED
  BY <1>11, <1>13, <1>14, <1>15 DEF t, AllNames

-----------------------------------------------------------------------------
(* What the loader finds where the headers point to.                       *)

\* The imports the executable had when its table was read.
ImportNow == IF target.magic # image.magic THEN NoImports ELSE image.import

\* An updater that comes to the imports finds the executable's own, and a table
\* that one of them has placed was laid out from those.
TableInv ==
    /\ dlls \in DllLists
    /\ \A p \in Both : update[p] = "convert" => image.magic = 32
    /\ \A p \in Both : update[p] = "imports" => target.import = ImportNow
    /\ target.import.va \in Free =>
           \E p \in Both : target.import.words = NewTable(DllsOf(p), ImportNow, Bits(p))

LEMMA InitTable == Init => TableInv
<1> SUFFICES ASSUME Init PROVE TableInv
    OBVIOUS
<1>1. image.import.va \notin Free
  BY ImagesAssumption DEF Init
<1> QED
  BY <1>1, Names DEF Init, TableInv

\* A step that leaves the table alone, and no updater comes to it.
LEMMA TableKept ==
    ASSUME TableInv, UNCHANGED given, target'.magic = target.magic,
           target'.import = target.import,
           \A p \in Both : update'[p] \in {"convert", "imports"} => update'[p] = update[p]
    PROVE  TableInv'
<1>1. ImportNow' = ImportNow /\ UNCHANGED <<dlls, image>>
  BY DEF ImportNow, given
<1>2. \A p \in Both : DllsOf(p)' = DllsOf(p) /\ Bits(p)' = Bits(p)
  BY DEF DllsOf, Bits, Renamed, given
<1> QED
  BY <1>1, <1>2 DEF TableInv

LEMMA ScanTable ==
    ASSUME CreationInv, TableInv, NEW p \in Both, Scan(p) PROVE TableInv'
<1> USE Names
<1>1. update[p] = "scan" /\ UNCHANGED <<given, target, pc, helper, handles, result>>
  BY DEF Scan
<1>2. update \in [Both -> Steps]
  BY DEF CreationInv, TypeOK
<1>3. CASE Refused(p)
  <2>1. update' = [update EXCEPT ![p] = "failed"]
    BY <1>3 DEF Scan, Go
  <2> QED
    BY <1>1, <1>2, <2>1, TableKept
<1>4. CASE ~Refused(p)
  <2>1. PICK step \in {"convert", "imports"} :
            /\ update' = [update EXCEPT ![p] = step]
            /\ step = "convert" => Bits(p) = 64 /\ Has32BitExe
    BY <1>4 DEF Scan, Go
  <2>2. TypeOK /\ target.magic \in {image.magic, ProcessBits}
    BY DEF CreationInv, HeaderInv
  <2>3. Bits(p) = ProcessBits /\ (step = "convert" => target.magic = 32)
    BY <1>4, <2>1, <2>2, OwnBits
  <2>4. Pristine
    BY <1>1, <2>3 DEF CreationInv, UpdaterInv
  <2>5. target.import = ImportNow /\ image.import.va \notin Free
        /\ (step = "convert" => image.magic = 32)
    BY <2>2, <2>3, <2>4, Bitness DEF Pristine, ImportNow
  <2>6. \A q \in Both : q # p => update'[q] = update[q]
    BY <1>2, <2>1
  <2>7. update'[p] = step
    BY <1>2, <2>1
  <2>8. ImportNow' = ImportNow /\ UNCHANGED <<dlls, image, target>>
    BY <1>1 DEF ImportNow, given
  <2>9. target.import.va \notin Free
    BY <2>4, <2>5 DEF Pristine
  <2> QED
    BY <2>5, <2>6, <2>7, <2>8, <2>9 DEF TableInv
<1> QED
  BY <1>3, <1>4

LEMMA ConvertTable ==
    ASSUME CreationInv, TableInv, NEW p \in Both, Convert(p) PROVE TableInv'
<1> USE Names
<1>1. update[p] = "convert" /\ UNCHANGED given /\ update \in [Both -> Steps]
      /\ IsTarget(target)
  BY DEF Convert, CreationInv, TypeOK
<1>2. Pristine /\ ProcessBits = 64 /\ Bits(p) = ProcessBits /\ image.magic = 32
  BY <1>1 DEF CreationInv, UpdaterInv, TableInv
<1>3. PICK step \in {"imports", "failed"} : update' = [update EXCEPT ![p] = step]
  BY DEF Convert, Go
<1>4. /\ target'.magic = 64
      /\ target'.import \in {image.import, NoImports}
      /\ step = "imports" => target'.import = NoImports
  <2>1. Converted(target).magic = 64 /\ Converted(target).import = image.import
    BY <1>1, <1>2 DEF Converted, IsTarget, Pristine
  <2>2. [Converted(target) EXCEPT !.import = NoImports].magic = 64
        /\ [Converted(target) EXCEPT !.import = NoImports].import = NoImports
    BY <1>1 DEF Converted, IsTarget
  <2>3. CASE target' = Converted(target) /\ Go(p, "failed")
    <3>1. step = "failed"
      BY <1>1, <1>3, <2>3 DEF Go
    <3> QED
      BY <2>1, <2>3, <3>1
  <2>4. CASE target' = [Converted(target) EXCEPT !.import = NoImports]
    BY <2>2, <2>4
  <2> QED
    BY <2>3, <2>4 DEF Convert
<1>5. image.import.va \notin Free /\ NoImports.va \notin Free
  BY Bitness, FreeAssumption DEF CreationInv, NoImports
<1>6. \A q \in Both : q # p => Bits(q) # ProcessBits
  BY <1>2, Bitness DEF CreationInv
<1>7. \A q \in Both : q # p => update'[q] \notin {"convert", "imports"}
  BY <1>1, <1>3, <1>6 DEF CreationInv, UpdaterInv
<1>8. update'[p] = step
  BY <1>1, <1>3
<1>9. UNCHANGED <<dlls, image>>
  BY <1>1 DEF given
<1>10. step = "imports" => target'.import = ImportNow'
  BY <1>2, <1>4, <1>9 DEF ImportNow
<1> QED
  BY <1>4, <1>5, <1>7, <1>8, <1>9, <1>10 DEF TableInv

LEMMA UpdateImportsTable ==
    ASSUME CreationInv, TableInv, NEW p \in Both, UpdateImports(p) PROVE TableInv'
<1> USE Names
<1>1. update[p] = "imports" /\ UNCHANGED given /\ update \in [Both -> Steps]
      /\ IsTarget(target)
  BY DEF UpdateImports, CreationInv, TypeOK
<1>2. PICK at :
          \/ Go(p, "failed") /\ UNCHANGED target
          \/ /\ target' = WithTable(p, target, at)
             /\ Go(p, "clr") \/ Go(p, "failed")
  BY DEF UpdateImports
<1>3. CASE Go(p, "failed") /\ UNCHANGED target
  BY <1>1, <1>3, TableKept DEF Go
<1>4. CASE target' = WithTable(p, target, at) /\ (Go(p, "clr") \/ Go(p, "failed"))
  <2>1. PICK step \in {"clr", "failed"} : update' = [update EXCEPT ![p] = step]
    BY <1>4 DEF Go
  <2> DEFINE words == NewTable(DllsOf(p), target.import, Bits(p))
             iat == IF target.iat # 0 THEN target.iat
                    ELSE IF target.import.va # 0 THEN Module ELSE at
  <2>2. target' = [target EXCEPT !.import = [va |-> at, words |-> words], !.bound = 0,
                                 !.iat = iat]
    BY <1>4 DEF WithTable
  <2> HIDE DEF words, iat
  <2>3. target'.magic = target.magic /\ target'.import = [va |-> at, words |-> words]
    BY <1>1, <2>2 DEF IsTarget
  <2>4. target.import = ImportNow
    BY <1>1 DEF TableInv
  <2>5. ImportNow' = ImportNow /\ UNCHANGED <<dlls, image>>
    BY <1>1, <2>3 DEF ImportNow, given
  <2>6. \A q \in Both : DllsOf(q)' = DllsOf(q) /\ Bits(q)' = Bits(q)
    BY <1>1 DEF DllsOf, Bits, Renamed, given
  <2>7. \A q \in Both : q # p => Bits(q) # Bits(p)
    BY Bitness DEF CreationInv
  <2>8. \A q \in Both : update'[q] \notin {"convert", "imports"}
    BY <1>1, <2>1, <2>7 DEF CreationInv, UpdaterInv
  <2>9. target'.import.words = NewTable(DllsOf(p)', ImportNow', Bits(p)')
    BY <2>3, <2>4, <2>5, <2>6 DEF words
  <2> QED
    BY <2>5, <2>8, <2>9 DEF TableInv
<1> QED
  BY <1>2, <1>3, <1>4

LEMMA TableStep ==
    ASSUME CreationInv, TableInv, [Next]_vars PROVE TableInv'
<1> USE Names
<1>1. update \in [Both -> Steps] /\ IsTarget(target)
  BY DEF CreationInv, TypeOK
<1>2. ASSUME NEW p \in Both, UpdateClr(p) \/ CopyRestorePayload(p) \/ UpdateFails(p)
      PROVE  TableInv'
  <2>1. UNCHANGED given /\ target'.magic = target.magic /\ target'.import = target.import
    BY <1>1, <1>2 DEF UpdateClr, CopyRestorePayload, UpdateFails, IsTarget
  <2>2. PICK step \in {"clr", "payload", "done", "failed"} :
            update' = [update EXCEPT ![p] = step]
    BY <1>2 DEF UpdateClr, CopyRestorePayload, UpdateFails, Go
  <2> QED
    BY <1>1, <2>1, <2>2, TableKept
<1>3. ASSUME \/ CreateFails \/ CreateSuspended \/ CreatorUpdated \/ CreatorFailed
             \/ HelperNotStarted \/ StartHelper \/ WaitForHelper
             \/ HelperUpdates \/ HelperExits \/ CallerResumes
      PROVE  TableInv'
  <2>1. /\ UNCHANGED given /\ target'.magic = target.magic
        /\ target'.import = target.import
    BY <1>1, <1>3
    DEF CreateFails, CreateSuspended, CreatorUpdated, CreatorFailed, HelperNotStarted,
        StartHelper, WaitForHelper, HelperUpdates, HelperExits, CallerResumes,
        Succeeds, Gives, OnFailure, TerminatedState, IsTarget
  <2>2. \/ update' = update
        \/ \E p \in Both : update' = [update EXCEPT ![p] = "scan"]
    BY <1>3
    DEF CreateFails, CreateSuspended, CreatorUpdated, CreatorFailed, HelperNotStarted,
        StartHelper, WaitForHelper, HelperUpdates, HelperExits, CallerResumes, Go
  <2> QED
    BY <1>1, <2>1, <2>2, TableKept
<1>4. ASSUME RestoreAfterWith PROVE TableInv'
  <2>1. /\ UNCHANGED <<given, update>> /\ target.state = "running"
        /\ target' = Restored(target, target.payload) /\ target.payload # NoHeaders
    BY <1>4 DEF RestoreAfterWith, FindPayload, HasPayload
  <2>2. target.payload = OfProcess
    BY <2>1 DEF CreationInv, HeaderInv
  <2>3. target'.import = image.import
    BY <1>1, <2>1, <2>2 DEF Restored, OfProcess, IsTarget
  <2>4. image.import.va \notin Free /\ UNCHANGED <<image, dlls>>
    BY <2>1, Bitness DEF CreationInv, given
  <2>5. \A p \in Both : update[p] \notin {"convert", "imports"}
    BY <2>1, AtWork
  <2> QED
    BY <2>1, <2>3, <2>4, <2>5 DEF TableInv
<1>5. ASSUME UNCHANGED vars PROVE TableInv'
  <2>1. UNCHANGED <<given, target, update>>
    BY <1>5 DEF vars, given
  <2> QED
    BY <2>1, TableKept
<1> QED
  BY <1>2, <1>3, <1>4, <1>5, ScanTable, ConvertTable, UpdateImportsTable
  DEF Next, Update, Both

\* The names, as either updater has them.
LEMMA DllsTyped ==
    ASSUME TypeOK, TableInv, NEW p \in Both
    PROVE  DllsOf(p) \in Dlls /\ DOMAIN DllsOf(p) = DOMAIN dlls
<1>1. dlls \in Dlls
  BY DllListsAssumption DEF TableInv, Dlls, Dll
<1>2. call.bits \in {32, 64}
  BY DEF TypeOK
<1>3. \A dll \in Dll : Renamed(dll) \in Dll
  BY <1>2 DEF Dll, Renamed
<1> DEFINE k == Len(dlls)
<1>4. k \in Nat /\ DOMAIN dlls = 1 .. k /\ \A n \in 1 .. k : dlls[n] \in Dll
  BY <1>1 DEF Dlls
<1> HIDE DEF k
<1>5. [n \in 1 .. k |-> Renamed(dlls[n])] \in Seq(Dll)
  BY <1>3, <1>4
<1> QED
  BY <1>1, <1>4, <1>5 DEF DllsOf, Dlls

-----------------------------------------------------------------------------
(* The theorems.                                                           *)

LEMMA CreationInvariant == Spec => []CreationInv
<1>1. CreationInv /\ [Next]_vars => CreationInv'
  <2> SUFFICES ASSUME CreationInv, [Next]_vars PROVE CreationInv'
    OBVIOUS
  <2>1. CASE Next
    BY <2>1, CreatorStep, UpdateStep, RestoreStep DEF Next, Both
  <2>2. CASE UNCHANGED vars
    <3>1. UNCHANGED given
      BY <2>2 DEF vars, given
    <3> QED
      BY <2>2, <3>1, GivenStays
      DEF vars, CreationInv, TypeOK, CallInv, UpdaterInv, HeaderInv, Pristine, RecordExeRestore
  <2> QED
    BY <2>1, <2>2
<1> QED
  BY InitCreation, <1>1, PTL DEF Spec

\* A process that runs, or that the caller may resume, was prepared to the last
\* step by one updater of its own bitness, whatever failed before
\* (DetourUpdateProcessWithDll, in the creator or in the helper).
THEOREM PreparedBeforeItRuns == Spec => []RunsOnlyPrepared
<1>1. CreationInv => RunsOnlyPrepared
  <2> SUFFICES ASSUME CreationInv, target.state = "running" \/ result = "TRUE"
               PROVE  /\ \E p \in Both : Updaters = {p} /\ Bits(p) = ProcessBits
                      /\ target.payload # NoHeaders
                      /\ target.restored \/ target.import.va \in Free
                      /\ target.magic = ProcessBits
    BY DEF RunsOnlyPrepared, Both
  <2> USE Names DEF CreationInv
  <2>1. PICK p \in Both : update[p] = "done"
    BY DEF CallInv
  <2>2. Bits(p) = ProcessBits /\ target.payload # NoHeaders /\ target.magic = ProcessBits
        /\ (target.restored \/ target.import.va \in Free)
    BY <2>1 DEF UpdaterInv, HeaderInv
  <2>3. \A q \in Both : update[q] = "done" => q = p
    BY <2>2, Bitness DEF UpdaterInv
  <2>4. Updaters = {p}
    BY <2>1, <2>3 DEF Updaters, Both
  <2> QED
    BY <2>2, <2>4
<1> QED
  BY <1>1, CreationInvariant, PTL

\* When a call has failed, the process is gone, no helper works on it, and the
\* routines that own the handles have closed them (DetourCreateProcessWithDll,
\* ...Ex and ...Dlls).
THEOREM FailureIsComplete == Spec => []FailureLeavesNothing
<1>1. CreationInv => FailureLeavesNothing
  BY DEF CreationInv, CallInv, FailureLeavesNothing
<1> QED
  BY <1>1, CreationInvariant, PTL

\* The flags of the CLR header once an updater has been there: without IL_ONLY.
ClrInv == \A p \in Both : update[p] \in {"payload", "done"} => target.clr = Cleared(image.clr)

\* An updater's step leaves the CLR header alone, or clears the flag in what it
\* has recorded, which is the executable's own.
LEMMA ClrUpdate ==
    ASSUME CreationInv, ClrInv, NEW p \in Both, Update(p) PROVE ClrInv'
<1>1. image' = image /\ update \in [Both -> Steps]
  BY DEF Update, Scan, Convert, UpdateImports, UpdateClr, CopyRestorePayload, UpdateFails,
         given, CreationInv, TypeOK
<1>2. IsTarget(target)
  BY DEF CreationInv, TypeOK
<1>3. CASE Scan(p) \/ UpdateFails(p)
  <2>1. target' = target /\ \E step \in {"failed", "convert", "imports"} : Go(p, step)
    BY <1>3 DEF Scan, UpdateFails
  <2> QED
    BY <1>1, <2>1 DEF ClrInv, Go
<1>4. CASE Convert(p)
  <2>1. target'.clr = target.clr /\ \E step \in {"failed", "imports"} : Go(p, step)
    BY <1>2, <1>4 DEF Convert, Converted, IsTarget
  <2> QED
    BY <1>1, <2>1 DEF ClrInv, Go
<1>5. CASE UpdateImports(p)
  <2>1. PICK at : \/ target' = target
                  \/ target' = WithTable(p, target, at)
    BY <1>5 DEF UpdateImports
  <2>2. target'.clr = target.clr
    BY <1>2, <2>1 DEF WithTable, IsTarget
  <2>3. \E step \in {"failed", "clr"} : Go(p, step)
    BY <1>5 DEF UpdateImports
  <2> QED
    BY <1>1, <2>2, <2>3 DEF ClrInv, Go
<1>6. CASE UpdateClr(p)
  <2>1. der[p] = OfProcess
    BY <1>6 DEF UpdateClr, CreationInv, UpdaterInv
  <2>2. target'.clr = Cleared(image.clr)
    BY <1>2, <1>6, <2>1 DEF UpdateClr, OfProcess, IsTarget
  <2> QED
    BY <1>1, <2>2 DEF ClrInv
<1>7. CASE CopyRestorePayload(p)
  <2>1. target'.clr = target.clr /\ update[p] = "payload" /\ Go(p, "done")
    BY <1>2, <1>7 DEF CopyRestorePayload, IsTarget
  <2> QED
    BY <1>1, <2>1 DEF ClrInv, Go
<1> QED
  BY <1>3, <1>4, <1>5, <1>6, <1>7 DEF Update

\* DetourRestoreAfterWith writes the CLR header only where that changes nothing.
LEMMA ClrRestore ==
    ASSUME CreationInv, ClrInv, RestoreAfterWith PROVE ClrInv'
<1>1. IsTarget(target) /\ UNCHANGED <<image, update>>
  BY DEF RestoreAfterWith, given, CreationInv, TypeOK
<1>2. \E found : target' = Restored(target, found)
  BY DEF RestoreAfterWith
<1>3. target'.clr = target.clr
  BY <1>1, <1>2 DEF Restored, RestoresClr, IsTarget
<1> QED
  BY <1>1, <1>3 DEF ClrInv

\* Every other step changes at most the state of the process, and begins an
\* update.
LEMMA ClrCall ==
    ASSUME CreationInv, ClrInv,
           \/ CreateFails \/ CreateSuspended \/ CreatorUpdated \/ CreatorFailed
           \/ HelperNotStarted \/ StartHelper \/ WaitForHelper
           \/ HelperUpdates \/ HelperExits \/ CallerResumes
    PROVE  ClrInv'
<1>1. IsTarget(target) /\ update \in [Both -> Steps]
  BY DEF CreationInv, TypeOK
<1>2. \A state : [target EXCEPT !.state = state].clr = target.clr
  BY <1>1 DEF IsTarget
<1>3. image' = image
  BY DEF CreateFails, CreateSuspended, CreatorUpdated, CreatorFailed, HelperNotStarted,
         StartHelper, WaitForHelper, HelperUpdates, HelperExits, CallerResumes, given
<1>4. target' = target \/ \E state : target' = [target EXCEPT !.state = state]
  BY DEF CreateFails, CreateSuspended, CreatorUpdated, CreatorFailed, HelperNotStarted,
         StartHelper, WaitForHelper, HelperUpdates, HelperExits, CallerResumes,
         Succeeds, Gives, OnFailure, TerminatedState
<1>5. target'.clr = target.clr
  BY <1>2, <1>4
<1>6. update' = update \/ \E p \in Both : Go(p, "scan")
  BY Names
  DEF CreateFails, CreateSuspended, CreatorUpdated, CreatorFailed, HelperNotStarted,
      StartHelper, WaitForHelper, HelperUpdates, HelperExits, CallerResumes
<1> QED
  BY <1>1, <1>3, <1>5, <1>6 DEF ClrInv, Go

\* However the call ends, the flags are the executable's or those without IL_ONLY.
LEMMA ClrInvariant == Spec => []ClrInv
<1>1. Init => ClrInv
  BY Names DEF Init, ClrInv
<1>2. CreationInv /\ ClrInv /\ [Next]_vars => ClrInv'
  <2> SUFFICES ASSUME CreationInv, ClrInv, [Next]_vars PROVE ClrInv'
    OBVIOUS
  <2>1. CASE UNCHANGED vars
    BY <2>1 DEF vars, ClrInv
  <2> QED
    BY <2>1, ClrUpdate, ClrRestore, ClrCall DEF Next, Both
<1> QED
  BY <1>1, <1>2, CreationInvariant, PTL DEF Spec

\* DetourRestoreAfterWith gives back the import table, the bound imports and the
\* IAT that the system had loaded, although two updaters may have begun and a
\* conversion recorded them twice; a neutral executable stays one of 64 bits, and
\* IL_ONLY code stays without that flag.
THEOREM HeadersComeBack == Spec => []RestoreGivesOriginal
<1>1. CreationInv /\ ClrInv => RestoreGivesOriginal
  <2> SUFFICES ASSUME CreationInv, ClrInv, target.restored PROVE RestoreGivesOriginal
    BY DEF RestoreGivesOriginal
  <2>1. /\ target.import = image.import /\ target.bound = image.bound
        /\ target.iat = image.iat /\ target.payload # NoHeaders
    BY DEF CreationInv, HeaderInv
  <2>2. PICK p \in Both : update[p] = "done"
    BY <2>1 DEF CreationInv, HeaderInv
  <2>3. target.magic = ProcessBits /\ (image.clr = 1 \/ image.magic = ProcessBits)
    BY <2>2 DEF CreationInv, UpdaterInv
  <2>4. target.clr = Cleared(image.clr)
    BY <2>2 DEF ClrInv
  <2> QED
    BY <2>1, <2>3, <2>4 DEF RestoreGivesOriginal, Cleared
<1> QED
  BY <1>1, ClrInvariant, CreationInvariant, PTL

\* An RVA of 32 bits reaches the new table from the module, whatever of the
\* address space is free and is granted (FindAndAllocateNearBase).
THEOREM TableStaysInReach == Spec => []TableInReach
<1>1. CreationInv => TableInReach
  <2> SUFFICES ASSUME CreationInv, target.import.va \in Free, target.magic = 64
               PROVE  target.import.va - Module <= Reach
    BY DEF TableInReach
  <2>1. ProcessBits = 64
    BY Bitness DEF CreationInv, HeaderInv
  <2> QED
    BY <2>1 DEF CreationInv, HeaderInv
<1> QED
  BY <1>1, CreationInvariant, PTL

\* Wherever the headers point to a table of ours, the loader finds the DLLs, then
\* the imports the executable had, and then the end, for any DLLs and any table
\* (UpdateImports32 and UpdateImports64).
THEOREM LoaderFindsAll == Spec => []LoaderSees
<1>1. CreationInv /\ TableInv => LoaderSees
  <2> SUFFICES ASSUME CreationInv, TableInv, target.import.va \in Free
               PROVE  \E p \in {Creator, Helper} :
                          Loads(target.import.words) =
                              [n \in DOMAIN dlls |-> NameWord(DllsOf(p)[n], Bits(p))]
                                  \o IF image.magic # target.magic THEN <<>>
                                     ELSE OldNames(image.import)
    BY DEF LoaderSees
  <2>1. PICK p \in Both : target.import.words = NewTable(DllsOf(p), ImportNow, Bits(p))
    BY DEF TableInv
  <2>2. /\ DllsOf(p) \in Dlls /\ DOMAIN DllsOf(p) = DOMAIN dlls
        /\ Bits(p) \in {32, 64}
    BY DllsTyped, Bitness DEF CreationInv
  <2>3. image.import.words \in Seq(Nat)
    BY ImagesAssumption DEF CreationInv, TypeOK
  <2>4. ImportNow.words \in Seq(Nat)
    BY <2>3 DEF ImportNow, NoImports
  <2>5. Loads(target.import.words) = NamesOf(DllsOf(p), Bits(p)) \o NamesOld(ImportNow)
    <3> DEFINE list == DllsOf(p)
               bits == Bits(p)
               import == ImportNow
    <3>1. list \in Dlls /\ bits \in {32, 64} /\ HasWords(import)
      BY <2>2, <2>4 DEF HasWords
    <3> HIDE DEF list, bits, import
    <3>2. Loads(NewTable(list, import, bits)) = AllNames(list, bits, import)
      BY <3>1, LoadsOfNewTable
    <3> QED
      BY <2>1, <3>2 DEF list, bits, import, AllNames
  <2>6. NamesOld(ImportNow) = IF image.magic # target.magic THEN <<>>
                              ELSE OldNames(image.import)
    BY DEF ImportNow, NoImports, NamesOld, OldNames
  <2>7. NamesOf(DllsOf(p), Bits(p)) = [n \in DOMAIN dlls |-> NameWord(DllsOf(p)[n], Bits(p))]
    BY <2>2 DEF NamesOf
  <2> QED
    BY <2>5, <2>6, <2>7 DEF Both
<1>2. Init => TableInv
  BY InitTable
<1>3. CreationInv /\ TableInv /\ [Next]_vars => TableInv'
  BY TableStep
<1> QED
  BY <1>1, <1>2, <1>3, CreationInvariant, PTL DEF Spec

================================================================================
