------------------------------- MODULE LogFile ------------------------------
(***************************************************************************)
(* A log file with rotation (LogFile.cpp) as operators on a record: base,  *)
(* the lines of the base file; old, the rotated files under their names;   *)
(* seq, rotationSeq_.  A name is the second and the sequence number it was *)
(* made with; the names sort as these pairs do.  Sizes count lines.        *)
(***************************************************************************)
EXTENDS Naturals, Sequences, FiniteSets, SequencesExt

CONSTANTS MaxFileSize, MaxFiles     \* opts_

NewDisk == [base |-> <<>>, old |-> {}, seq |-> 0]

Older(a, b) == a.sec < b.sec \/ (a.sec = b.sec /\ a.seq < b.seq)

\* The oldest names beyond maxFiles are removed.
cleanOldFiles(files) == {a \in files : Cardinality({b \in files : Older(a, b)}) < MaxFiles}

\* rename() replaces a file of that name; when it fails (moved is FALSE) the
\* base file stays and is opened again at its end.
rotateTruncates(d, now, moved) ==
    LET file == [sec |-> now, seq |-> d.seq, lines |-> d.base]
    IN [base |-> <<>>, old |-> cleanOldFiles(IF moved THEN d.old \cup {file} ELSE d.old), seq |-> d.seq + 1]
rotate(d, now, moved) ==
    LET file == [sec |-> now, seq |-> d.seq, lines |-> d.base]
        rest == {a \in d.old : a.sec # now \/ a.seq # d.seq}
    IN [base |-> IF moved THEN <<>> ELSE d.base,
        old  |-> cleanOldFiles(IF moved THEN rest \cup {file} ELSE d.old),
        seq  |-> d.seq + 1]

append(d, lines, now, moved) ==
    LET e == IF Len(d.base) + Len(lines) > MaxFileSize THEN rotate(d, now, moved) ELSE d
    IN [e EXCEPT !.base = @ \o lines]

\* What a reader finds: the rotated files by name, then the base file.
Content(d) == FlattenSeq([i \in 1..Cardinality(d.old) |-> SetToSortSeq(d.old, Older)[i].lines]) \o d.base
=============================================================================
