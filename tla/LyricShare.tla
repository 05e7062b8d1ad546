------------------------------- MODULE LyricShare -------------------------------
(***************************************************************************)
(* The shared memory LyricShareMem and the viewer that paints what lies in *)
(* it ten times a second.  (test/show_lyric_demo/show_lyric_demo.cpp)      *)
(*                                                                         *)
(* A frame is a number, and 0 stands for memory nobody has written.  There *)
(* is no lock: the header (the size and bmi) and the pixels are written    *)
(* and read one after the other.  The memory lives as long as a process    *)
(* holds a handle or a view of it, and its name finds it as long.          *)
(***************************************************************************)
EXTENDS Integers, FiniteSets

CONSTANTS
    MaxStarts,          \* how often the viewer is started
    TheViewer           \* it, among the holders of the memory

VARIABLES
    section,            \* who holds the memory, and what lies in it
    viewer              \* where the viewer is, and what its window shows

shareVars == <<section, viewer>>

EmptySection == [holders |-> {}, header |-> 0, pixels |-> 0]

Hold(x)    == [section EXCEPT !.holders = @ \cup {x}]
\* The last to leave takes the memory along.
Leave(xs)  == IF section.holders \subseteq xs THEN EmptySection
              ELSE [section EXCEPT !.holders = @ \ xs]

ShareInit ==
    /\ section = EmptySection
    /\ viewer = [pc |-> "closed", header |-> 0, shown |-> [header |-> 0, pixels |-> 0],
                 starts |-> 0]

\* The first message creates the memory, or opens what the hooked process kept.
ViewerStarts ==
    /\ viewer.pc = "closed" /\ viewer.starts < MaxStarts
    /\ section' = Hold(TheViewer)
    /\ viewer' = [viewer EXCEPT !.pc = "idle", !.starts = @ + 1,
                                !.shown = [header |-> 0, pixels |-> 0]]

\* WM_TIMER: the window is invalid, and paints itself at once.
TimerOnce == viewer.pc = "idle" /\ viewer.shown.header = 0   \* a mutant of the next
TimerRings == viewer.pc = "idle"
WmTimer ==
    /\ TimerRings
    /\ viewer' = [viewer EXCEPT !.pc = "painting", !.header = section.header]
    /\ UNCHANGED section
\* WM_PAINT took the size for its bitmap, and now reads the pixels.
WmPaint ==
    /\ viewer.pc = "painting"
    /\ viewer' = [viewer EXCEPT !.pc = "idle",
                      !.shown = [header |-> viewer.header, pixels |-> section.pixels]]
    /\ UNCHANGED section

\* WM_DESTROY between two messages, or the end of the process within one.
ViewerCloses ==
    /\ viewer.pc # "closed"
    /\ section' = Leave({TheViewer})
    /\ viewer' = [viewer EXCEPT !.pc = "closed", !.header = 0,
                                !.shown = [header |-> 0, pixels |-> 0]]

ViewerNext == ViewerStarts \/ WmTimer \/ WmPaint \/ ViewerCloses
=================================================================================
