------------------------------ MODULE DiffLines -------------------------------
(***************************************************************************)
(* Which lines of a diff a comment of the model may anchor to: the review  *)
(* pipeline reads a unified diff line by line (validRightLines and         *)
(* extractChangedFiles of review/pipeline.go) and drops the comments on    *)
(* other lines, since one of them makes the code host refuse them all.     *)
(*                                                                         *)
(* Every action is a line of the diff, as git writes it and as the parser, *)
(* which goes by its first characters alone, takes it.                     *)
(***************************************************************************)
EXTENDS Naturals

CONSTANTS
  DiffFiles,    \* files of the repository
  Deleted,      \* /dev/null: the diff deletes the file
  MaxRight,     \* bound on the line numbers of the new version of a file
  MaxDiffLines  \* bound on the lines of a diff

ASSUME DiffAssumption ==
  Deleted \notin DiffFiles /\ MaxRight \in Nat /\ MaxDiffLines \in Nat

VARIABLES
  file,     \* the file the diff is in, Deleted also before the first
  right,    \* the number of its next line in the new version, 0 outside a hunk
  inDiff,   \* inDiff[f]: lines of f the diff shows; a partial function
  oddText,  \* which added lines so far look like something else
  path,     \* path, Deleted when it is ""
  line,     \* line
  valid,    \* out[f], a partial function
  paths,    \* what extractChangedFiles has found
  length    \* lines so far

diffVars == <<file, right, inDiff, oddText, path, line, valid, paths, length>>

-----------------------------------------------------------------------------
Rights == 1..MaxRight

DiffTypeOK ==
  /\ file \in DiffFiles \cup {Deleted} /\ path \in DiffFiles \cup {Deleted}
  /\ right \in 0..(MaxRight + 1) /\ line \in 0..(MaxRight + 1)
  /\ DOMAIN inDiff \subseteq DiffFiles /\ \A f \in DOMAIN inDiff : inDiff[f] \subseteq Rights
  /\ DOMAIN valid \subseteq DiffFiles /\ \A f \in DOMAIN valid : valid[f] \subseteq Rights
  /\ oddText \subseteq {"plus", "header"} /\ paths \subseteq DiffFiles /\ length \in 0..MaxDiffLines

DiffInit ==
  /\ file = Deleted /\ right = 0 /\ inDiff = <<>> /\ oddText = {}
  /\ path = Deleted /\ line = 0 /\ valid = <<>> /\ paths = {} /\ length = 0

Emptied(lines, f) == [g \in DOMAIN lines \cup {f} |-> IF g = f THEN {} ELSE lines[g]]
WithLine(lines, f, n) == [g \in DOMAIN lines |-> IF g = f THEN lines[g] \cup {n} ELSE lines[g]]

OneLineMore == length < MaxDiffLines /\ length' = length + 1

(* extractChangedFiles.                                                    *)
TakesPath(f) == paths' = IF f = Deleted THEN paths ELSE paths \cup {f}

(* The parser takes a line that starts with "+++ " for a file's header.    *)
ParsesHeader(f) ==
  /\ path' = f
  /\ valid' = IF f = Deleted THEN valid ELSE Emptied(valid, f)
  /\ TakesPath(f)

Header(f) ==
  /\ OneLineMore
  /\ f \notin DOMAIN inDiff
  /\ file' = f /\ right' = 0
  /\ inDiff' = IF f = Deleted THEN inDiff ELSE Emptied(inDiff, f)
  /\ ParsesHeader(f)
  /\ UNCHANGED <<oddText, line>>

(* "@@ -a,b +n,c @@"; the hunks of a file follow one another.              *)
Hunk(n) ==
  /\ OneLineMore
  /\ IF file = Deleted THEN n = 0 ELSE n \in Rights /\ n >= right
  /\ right' = n /\ line' = n
  /\ UNCHANGED <<file, inDiff, oddText, path, valid, paths>>

InHunk == OneLineMore /\ file # Deleted /\ right \in Rights

ShownOnRight == inDiff' = WithLine(inDiff, file, right) /\ right' = right + 1

TakesRightLine ==
  /\ valid' = IF path = Deleted THEN valid ELSE WithLine(valid, path, line)
  /\ line' = line + 1

ContextLine ==
  /\ InHunk /\ ShownOnRight /\ TakesRightLine
  /\ UNCHANGED <<file, oddText, path, paths>>

AddedLine ==
  /\ InHunk /\ ShownOnRight /\ TakesRightLine
  /\ UNCHANGED <<file, oddText, path, paths>>

(* An added line such as "++i" gives "+++i", which matches no case.        *)
AddedPlusPlus ==
  /\ InHunk /\ ShownOnRight
  /\ oddText' = oddText \cup {"plus"}
  /\ UNCHANGED <<file, path, line, valid, paths>>

(* One that reads "++ path" looks like a header.                           *)
AddedHeaderText(f) ==
  /\ InHunk /\ ShownOnRight /\ ParsesHeader(f)
  /\ oddText' = oddText \cup {"header"}
  /\ UNCHANGED <<file, line>>

(* Mutant: a deleted line moves the cursor.                                *)
DeletedAdvances ==
  /\ InHunk /\ line \in Rights
  /\ line' = line + 1
  /\ UNCHANGED <<file, right, inDiff, oddText, path, valid, paths>>

(* A deleted line, "\ No newline at end of file", and the lines between    *)
(* two files.                                                              *)
LeftLine ==
  /\ OneLineMore
  /\ UNCHANGED <<file, right, inDiff, oddText, path, line, valid, paths>>

DiffNext ==
  \/ \E f \in DiffFiles \cup {Deleted} : Header(f) \/ AddedHeaderText(f)
  \/ \E n \in 0..MaxRight : Hunk(n)
  \/ ContextLine \/ AddedLine \/ AddedPlusPlus \/ LeftLine

DiffSpec == DiffInit /\ [][DiffNext]_diffVars

-----------------------------------------------------------------------------
(* commentLinesValid.                                                      *)
CommentLinesValid(f, start, end) ==
  /\ f \in DOMAIN valid /\ end \in valid[f]
  /\ start = 0 \/ start = end \/ start \in valid[f]

OnDiff(f, n) == f \in DOMAIN inDiff /\ n \in inDiff[f]

(* A comment that is kept is on lines of the diff, and one on a line of the*)
(* diff is kept, at every point of any sequence of files and hunks; but    *)
(* not after an added line whose text starts with "++": "++i" costs the    *)
(* hunk a line, "++ path" may let comments on lines through that the diff  *)
(* does not show.                                                          *)
AnchorsAreInDiff ==
  \A f \in DiffFiles, start \in 0..MaxRight, end \in Rights :
    /\ "header" \notin oddText /\ CommentLinesValid(f, start, end) =>
         OnDiff(f, end) /\ (start = 0 \/ OnDiff(f, start))
    /\ oddText = {} /\ OnDiff(f, end) => CommentLinesValid(f, 0, end) /\ f \in paths
=============================================================================
