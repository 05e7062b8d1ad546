------------------------------ MODULE MCImageFile ------------------------------
(***************************************************************************)
(* ImageFile on small files: one imported file, a symbol by name or by    *)
(* ordinal, and the data a linker may leave behind the sections.        *)
(***************************************************************************)
EXTENDS ImageFile

CONSTANTS a, b, g1, g2

\* Lengths of either parity, so that the names need their padding.
Lengths == (a :> 5) @@ (b :> 8)

File(lfanew, raw, ptr, symbols, rest, size) ==
    [lfanew |-> lfanew, peAt |-> lfanew, ilonly |-> TRUE, detour |-> NULL,
     imports |-> <<[byway |-> FALSE, name |-> a,
                    names |-> symbols]>>,
     hdr |-> [import |-> "own", bound |-> 1, size |-> size, symbols |-> ptr,
              secs |-> <<[raw |-> 512, size |-> raw - 512, va |-> 4096, vsize |-> 6000]>>
                           \o rest],
     debug |-> raw + 100, tailAt |-> raw]

\* The symbols lie inside the data behind the sections; or there are none.  The
\* second file has a section that takes no room on disk.
ByName == [name |-> a, ord |-> 0]
ByNumber == [name |-> NULL, ord |-> 7]
Bss == [raw |-> 0, size |-> 0, va |-> 12288, vsize |-> 300]
Files == {File(128, 1024, 1536, <<ByName>>, <<>>, 12288),
          File(248, 1536, 0, <<ByNumber>>, <<Bss>>, 16384)}
================================================================================
