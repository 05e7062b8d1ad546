--------------------------- MODULE MCProcessCreation ---------------------------
(***************************************************************************)
(* ProcessCreation with native and managed executables of both sizes, with *)
(* no, one and two imports, and lists of none to three DLLs.               *)
(***************************************************************************)
EXTENDS ProcessCreation

Table(n) == FlattenSeq([i \in 1 .. n |-> <<SomeRva, 0, 0, i, SomeRva>>]) \o Zeros(5)
Import(n) == IF n = 0 THEN NoImports ELSE [va |-> Module, words |-> Table(n)]
Image(magic, clr, n, iat) ==
    [magic |-> magic, clr |-> clr, import |-> Import(n), bound |-> 1, iat |-> iat]

\* clr is -1 for native code; 1 is IL_ONLY, 2 32BITREQUIRED.
Executables ==
    {Image(magic, -1, n, iat) : magic \in {32, 64}, n \in 0 .. 2, iat \in {0, 1}}
        \cup {Image(32, 1, 1, 1), Image(32, 3, 1, 1), Image(32, 0, 1, 1),
              Image(64, 1, 1, 1), Image(64, 0, 0, 0)}

Dll(n, bits) == [file |-> n, bits |-> bits]
Lists == {<<>>} \cup {<<Dll(1, b)>> : b \in {0, -1, 32, 64}}
                \cup {<<Dll(1, b), Dll(2, 0)>> : b \in {32, 64}}
                \cup {<<Dll(1, b), Dll(2, b), Dll(3, -1)>> : b \in {32, 64}}
================================================================================
