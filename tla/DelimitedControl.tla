-------------------------- MODULE DelimitedControl --------------------------
(***************************************************************************)
(* dynamic-wind, call/cc and the delimited control operators shift and     *)
(* reset of one thread (library.scm), with continuation-return of          *)
(* continuation.scm.                                                       *)
(*                                                                         *)
(* winds is ##sys#dynamic-winds and meta is ##sys#dc-stack, both with the  *)
(* innermost element last, so that a tail of the list in the code is a     *)
(* prefix here.  A cell of winds has the identity of the pair in the code: *)
(* two lists are eq? exactly when their cells are the same.                *)
(*                                                                         *)
(* path is what the code has only as continuations: the dynamic-winds and  *)
(* the delimiters (Mark) the running program is in, outermost first.       *)
(***************************************************************************)
EXTENDS Integers, Sequences, FiniteSets, SequencesExt

CONSTANTS
    Frame,          \* the dynamic-winds (before . after) of the program
    Mark,           \* a delimiter in the path
    MaxPath,        \* bound on the depth of dynamic-winds and delimiters
    MaxFull,        \* bound on the full continuations kept
    MaxSegments,    \* bound on the delimited continuations kept
    Returns         \* the continuations it gives to continuation-return: "any",
                    \* or those with the dynamic-winds it is in ("level")

ASSUME BoundsAssumption == {MaxPath, MaxFull, MaxSegments} \subseteq Nat
ASSUME MarkAssumption == Mark \notin Frame
ASSUME ReturnsAssumption == Returns \in {"any", "level"}

VARIABLES
    winds,          \* ##sys#dynamic-winds
    meta,           \* ##sys#dc-stack
    path,           \* the dynamic-winds and delimiters the control is in
    full,           \* continuations of call/cc and continuation-capture
    segments,       \* continuations of shift
    mode,           \* what runs: the program, or thunks on the way elsewhere
    failed          \* has an error of the winding code been raised?

vars == <<winds, meta, path, full, segments, mode, failed>>

Run == [op |-> "run"]

Init ==
    /\ winds = <<>>
    /\ meta = <<>>
    /\ path = <<>>
    /\ full = {}
    /\ segments = {}
    /\ mode = Run
    /\ failed = FALSE

-----------------------------------------------------------------------------
\* Fresh pairs: an identity that no live list uses.
Ids(list) == { list[i].id : i \in DOMAIN list }
IdsOf(w, m) == Ids(w) \cup UNION { Ids(m[i].winds) : i \in DOMAIN m }
LiveIds ==
    IdsOf(winds, meta)
        \cup UNION { IdsOf(k.winds, k.meta) :
                     k \in full \cup (IF mode.op = "unwind" THEN {mode.k} ELSE {}) }
FreshId == CHOOSE i \in 0..Cardinality(LiveIds) : i \notin LiveIds
Wound(f) == Append(winds, [frame |-> f, id |-> FreshId])

Frames(list) == [i \in DOMAIN list |-> list[i].frame]
Drop(s, n) == SubSeq(s, n + 1, Len(s))

\* Where the delimiters are in the path, and the position of the innermost one.
MarksIn(p) == { i \in DOMAIN p : p[i] = Mark }
Marks == MarksIn(path)
Depth == Max(Marks \cup {0})
Delimiter == Last(meta)

-----------------------------------------------------------------------------
\* dynamic-wind: the before thunk runs, then the frame is pushed.
Enter(f) ==
    /\ mode = Run
    /\ Len(path) < MaxPath
    /\ winds' = Wound(f)
    /\ path' = Append(path, f)
    /\ UNCHANGED <<meta, full, segments, mode, failed>>

\* The thunk returns: whatever is the innermost frame is popped.
Leave ==
    /\ mode = Run
    /\ Len(path) > Depth
    /\ winds' = Front(winds)
    /\ path' = Front(path)
    /\ UNCHANGED <<meta, full, segments, mode, failed>>

-----------------------------------------------------------------------------
\* call/cc and continuation-capture.
Capture ==
    /\ mode = Run
    /\ \E kept \in SUBSET full :
          /\ Cardinality(kept) < MaxFull
          /\ full' = kept \cup {[winds |-> winds, meta |-> meta, path |-> path]}
    /\ UNCHANGED <<winds, meta, path, segments, mode, failed>>

\* A continuation is called, by the program or by a before or after thunk.
Throw(k) ==
    /\ mode' = [op |-> "unwind", k |-> k]
    /\ UNCHANGED <<winds, meta, path, full, segments, failed>>

\* ##sys#dynamic-unwind leaves the frames that the continuation is not in ...
UnwindAfter ==
    /\ mode.op = "unwind"
    /\ ~IsPrefix(winds, mode.k.winds)
    /\ winds' = Front(winds)
    /\ UNCHANGED <<meta, path, full, segments, mode, failed>>

\* ... and enters those that it is in.
UnwindBefore ==
    /\ mode.op = "unwind"
    /\ IsStrictPrefix(winds, mode.k.winds)
    /\ winds' = SubSeq(mode.k.winds, 1, Len(winds) + 1)
    /\ UNCHANGED <<meta, path, full, segments, mode, failed>>

Unwound ==
    /\ mode.op = "unwind"
    /\ winds = mode.k.winds
    /\ meta' = mode.k.meta
    /\ path' = mode.k.path
    /\ mode' = Run
    /\ UNCHANGED <<winds, full, segments, failed>>

\* continuation-return, and a compiled call of continuation-graft: the primitive
\* restores the metacontinuation.
ContinuationReturn(k) ==
    /\ Returns = "any" \/ k.winds = winds
    /\ meta' = k.meta
    /\ path' = k.path
    /\ mode' = Run
    /\ UNCHANGED <<winds, full, segments, failed>>

-----------------------------------------------------------------------------
\* Mutant of Pushed: a delimiter does not remember the winds it was made in.
PushedBare == Append(meta, [winds |-> <<>>, path |-> path])

\* ##sys#dc-push!: path is that of the continuation pushed.
Pushed == Append(meta, [winds |-> winds, path |-> path])

Reset ==
    /\ mode = Run
    /\ Len(path) < MaxPath
    /\ meta' = Pushed
    /\ path' = Append(path, Mark)
    /\ UNCHANGED <<winds, full, segments, mode, failed>>

\* ##sys#dc-unwind-to runs the after thunks above base, then it goes on at p.
UnwindTo(base, p) == mode' = [op |-> "leave", base |-> base, path |-> p]

LeaveSegment ==
    /\ mode.op = "leave"
    /\ winds # mode.base
    /\ winds' = Front(winds)
    /\ failed' = (failed \/ winds = <<>>)
    /\ mode' = IF winds = <<>> THEN Run ELSE mode
    /\ UNCHANGED <<meta, path, full, segments>>

LeftSegment ==
    /\ mode.op = "leave"
    /\ winds = mode.base
    /\ path' = mode.path
    /\ mode' = Run
    /\ UNCHANGED <<winds, meta, full, segments, failed>>

\* ##sys#dc-abort: the body of the delimiter, or of a shift, has a value.
DcAbort ==
    /\ mode = Run
    /\ meta # <<>> /\ path # <<>> /\ Last(path) = Mark
    /\ meta' = Front(meta)
    /\ UnwindTo(Delimiter.winds, Delimiter.path)
    /\ UNCHANGED <<winds, path, full, segments, failed>>

\* ##sys#dc-segment, when base is a tail of the winds.
DcSegment(base) == Drop(Frames(winds), Len(base))

\* shift: the segment is captured and left; its body returns to the delimiter.
Shift ==
    /\ mode = Run
    /\ meta # <<>>
    /\ LET base == Delimiter.winds
       IN IF IsPrefix(base, winds)
          THEN /\ \E kept \in SUBSET segments :
                     /\ Cardinality(kept) < MaxSegments
                     /\ segments' = kept \cup {[path |-> Drop(path, Depth),
                                                seg |-> DcSegment(base)]}
               /\ UnwindTo(base, Append(Delimiter.path, Mark))
               /\ UNCHANGED failed
          ELSE failed' = TRUE /\ UNCHANGED <<segments, mode>>
    /\ UNCHANGED <<winds, meta, path, full>>

\* ##sys#dc-resume: the continuation of the call becomes a delimiter, then
\* ##sys#dc-rewind enters the frames of the segment, outermost first.
DcResume(d) ==
    /\ mode = Run
    /\ Len(path) + Len(d.path) < MaxPath
    /\ meta' = Pushed
    /\ mode' = [op |-> "enter", seg |-> d.seg, path |-> d.path]
    /\ UNCHANGED <<winds, path, full, segments, failed>>

Rewind ==
    /\ mode.op = "enter"
    /\ mode.seg # <<>>
    /\ winds' = Wound(Head(mode.seg))
    /\ mode' = [mode EXCEPT !.seg = Tail(@)]
    /\ UNCHANGED <<meta, path, full, segments, failed>>

Rewound ==
    /\ mode.op = "enter"
    /\ mode.seg = <<>>
    /\ path' = path \o <<Mark>> \o mode.path
    /\ mode' = Run
    /\ UNCHANGED <<winds, meta, full, segments, failed>>

-----------------------------------------------------------------------------
Next ==
    \/ (\E f \in Frame : Enter(f)) \/ Leave
    \/ Capture
    \/ \E k \in full : Throw(k) \/ ContinuationReturn(k)
    \/ UnwindAfter \/ UnwindBefore \/ Unwound
    \/ Reset \/ DcAbort \/ Shift
    \/ \E d \in segments : DcResume(d)
    \/ LeaveSegment \/ LeftSegment \/ Rewind \/ Rewound

Spec == Init /\ [][Next]_vars
-----------------------------------------------------------------------------
(***************************************************************************)
(* Properties.                                                             *)
(***************************************************************************)
Cells == [frame : Frame, id : Nat]
Paths == Seq(Frame \cup {Mark})

\* Every variable has its type; the winds are no deeper than the program goes.
TypeOK ==
    /\ winds \in Seq(Cells) /\ Len(winds) <= MaxPath
    /\ Len(meta) <= MaxPath
    /\ \A i \in DOMAIN meta : meta[i].winds \in Seq(Cells) /\ meta[i].path \in Paths
    /\ path \in Paths /\ Len(path) <= MaxPath
    /\ \A k \in full : k.winds \in Seq(Cells) /\ k.path \in Paths
    /\ \A d \in segments : d.path \in Seq(Frame) /\ d.seg \in Seq(Frame)
    /\ mode.op \in {"run", "unwind", "leave", "enter"}
    /\ failed \in BOOLEAN

\* The sequence frames is p without the delimiters: a frame of p has as many
\* frames before it as p has, the delimiters not counted.
FramesOf(p, frames) ==
    /\ Len(frames) + Cardinality(MarksIn(p)) = Len(p)
    /\ \A i \in DOMAIN p \ MarksIn(p) :
          frames[i - Cardinality({ m \in MarksIn(p) : m < i })] = p[i]

\* However continuations are captured, left, resumed and composed: when the
\* program runs, ##sys#dynamic-winds holds the dynamic-winds its continuation
\* is in, each once and in their order; the thunks have run accordingly.
WindsMatchControl == mode = Run => FramesOf(path, Frames(winds))

\* ##sys#dc-stack holds the delimiters the control is in, each with the
\* continuation that receives the value of its body.
MetaMatchesControl ==
    mode = Run =>
        /\ Len(meta) = Cardinality(Marks)
        /\ \A i \in DOMAIN meta :
              LET at == Len(meta[i].path) + 1
              IN /\ at \in Marks /\ meta[i].path = SubSeq(path, 1, at - 1)
                 /\ Cardinality({ m \in Marks : m < at }) = i - 1

\* The winds of a delimiter are a tail of the winds while it is in force: what
\* ##sys#dc-unwind-to and ##sys#dc-segment need.
BaseIsTail ==
    mode = Run => \A i \in DOMAIN meta : IsPrefix(meta[i].winds, winds)

\* "delimited continuation left the dynamic extent of its delimiter" and "shift
\* is not inside the extent of its delimiter" are never raised.
NoExtentError == ~failed

\* When the program runs, ##sys#dynamic-winds holds the dynamic-winds its
\* continuation is in and ##sys#dc-stack its delimiters, each once and in their
\* order, however continuations are captured, left, resumed and composed; and
\* "delimited continuation left the dynamic extent of its delimiter" and "shift
\* is not inside the extent of its delimiter" are never raised by a program that
\* returns to the continuations of the dynamic-winds it is in.
ListsMatchControl ==
    TypeOK /\ WindsMatchControl /\ MetaMatchesControl /\ BaseIsTail /\ NoExtentError
=============================================================================
