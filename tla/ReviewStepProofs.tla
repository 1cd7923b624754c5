-------------------------- MODULE ReviewStepProofs --------------------------
(***************************************************************************)
(* What a review sends the model and what it takes back, for prompts and   *)
(* diffs of any size: which comments are let through, what the prompt      *)
(* drops, and how many calls a cancelled job still makes; that the access  *)
(* token outlives the calls made with it, that the ids of posted comments  *)
(* are mispaired only as far as losses explain it, and that a paged listing*)
(* misses and repeats only what changed under it.                          *)
(***************************************************************************)
EXTENDS DiffLines, ReviewPrompt, HostToken, ReviewPosting, HostListing,
        SequenceTheorems, FiniteSetTheorems, TLAPS

(* The parser's cursor in a hunk: it never runs ahead of the diff, and what*)
(* lies between the two is shown.                                          *)
CursorInHunk ==
  right > 0 =>
    /\ line > 0 /\ line <= right
    /\ "header" \notin oddText /\ file # Deleted => line .. (right - 1) \subseteq inDiff[file]

(* While no text has been taken for a header the parser knows the file and *)
(* has let through only lines the diff shows.                              *)
ParserFollows ==
  "header" \notin oddText =>
    /\ path = file /\ DOMAIN valid = DOMAIN inDiff
    /\ \A f \in DOMAIN valid : valid[f] \subseteq inDiff[f]

(* As long as nothing odd was added it has let through all of them.        *)
NothingMissed ==
  oddText = {} =>
    /\ right > 0 => line = right
    /\ \A f \in DOMAIN inDiff : f \in DOMAIN valid /\ inDiff[f] \subseteq valid[f] /\ f \in paths

FileIsShown == file # Deleted => file \in DOMAIN inDiff

DiffInv == DiffTypeOK /\ FileIsShown /\ CursorInHunk /\ ParserFollows /\ NothingMissed

LEMMA DiffInitial == DiffInit => DiffInv
BY DiffAssumption
   DEF DiffInit, DiffInv, DiffTypeOK, FileIsShown, CursorInHunk, ParserFollows, NothingMissed

(* A line of the new version: the diff shows its number.                   *)
LEMMA LineShown ==
  ASSUME DiffInv, InHunk, ShownOnRight
  PROVE  /\ right \in Rights /\ right' = right + 1 /\ right' \in 1..(MaxRight + 1)
         /\ file \in DiffFiles /\ file \in DOMAIN inDiff
         /\ DOMAIN inDiff' = DOMAIN inDiff
         /\ inDiff'[file] = inDiff[file] \cup {right}
         /\ \A f \in DOMAIN inDiff : f # file => inDiff'[f] = inDiff[f]
         /\ \A f \in DOMAIN inDiff : inDiff'[f] \subseteq Rights
         /\ length' \in 0..MaxDiffLines
<1>1. /\ right \in Rights /\ right' = right + 1 /\ file # Deleted /\ file \in DiffFiles
      /\ file \in DOMAIN inDiff
  BY DiffAssumption DEF DiffInv, DiffTypeOK, FileIsShown, InHunk, ShownOnRight
<1>2. right' \in 1..(MaxRight + 1)
  BY <1>1, DiffAssumption DEF Rights
<1>3. length' \in 0..MaxDiffLines
  BY DiffAssumption DEF DiffInv, DiffTypeOK, InHunk, OneLineMore
<1>4. inDiff' = [g \in DOMAIN inDiff |-> IF g = file THEN inDiff[g] \cup {right} ELSE inDiff[g]]
  BY DEF ShownOnRight, WithLine
<1>5. \A f \in DOMAIN inDiff : inDiff[f] \subseteq Rights
  BY DEF DiffInv, DiffTypeOK
<1> QED  BY <1>1, <1>2, <1>3, <1>4, <1>5

(* The parser takes a line and lets its number through.                    *)
LEMMA LineTaken ==
  ASSUME DiffInv, InHunk, TakesRightLine
  PROVE  /\ line \in Rights /\ line <= right /\ line' = line + 1 /\ line' \in 1..(MaxRight + 1)
         /\ DOMAIN valid' = DOMAIN valid
         /\ path \in DOMAIN valid => valid'[path] = valid[path] \cup {line}
         /\ \A f \in DOMAIN valid : f # path => valid'[f] = valid[f]
         /\ \A f \in DOMAIN valid : valid'[f] \subseteq Rights
<1>1. right \in Rights /\ line \in 0..(MaxRight + 1) /\ line > 0 /\ line <= right
  BY DiffAssumption DEF DiffInv, DiffTypeOK, CursorInHunk, InHunk, Rights
<1>2. line \in Rights /\ line' = line + 1 /\ line' \in 1..(MaxRight + 1)
  BY <1>1, DiffAssumption DEF Rights, TakesRightLine
<1>3. /\ \A f \in DOMAIN valid : valid[f] \subseteq Rights
      /\ Deleted \notin DOMAIN valid
  BY DiffAssumption DEF DiffInv, DiffTypeOK
<1>4. CASE path = Deleted
  BY <1>1, <1>2, <1>3, <1>4 DEF TakesRightLine
<1>5. CASE path # Deleted
  <2>1. valid' = [g \in DOMAIN valid |-> IF g = path THEN valid[g] \cup {line} ELSE valid[g]]
    BY <1>5 DEF TakesRightLine, WithLine
  <2> QED  BY <1>1, <1>2, <1>3, <2>1
<1> QED  BY <1>4, <1>5

(* What a context line and an added line have in common.                   *)
LEMMA RightLine ==
  ASSUME DiffInv, InHunk, ShownOnRight, TakesRightLine, UNCHANGED <<file, oddText, path, paths>>
  PROVE  DiffInv'
<1>1. DiffTypeOK'
  BY LineShown, LineTaken, DiffAssumption DEF DiffInv, DiffTypeOK
<1>2. FileIsShown'
  BY LineShown DEF FileIsShown
<1>3. CursorInHunk'
  <2>1. line' > 0 /\ line' <= right'
    BY LineShown, LineTaken DEF Rights
  <2>2. ASSUME "header" \notin oddText, NEW n \in line' .. (right' - 1)
        PROVE  n \in inDiff'[file]
    <3>1. n = right \/ n \in line .. (right - 1)
      BY <2>2, LineShown, LineTaken DEF Rights
    <3>2. right > 0 /\ file # Deleted
      BY LineShown, DiffAssumption DEF Rights
    <3>3. line .. (right - 1) \subseteq inDiff[file]
      BY <2>2, <3>2 DEF DiffInv, CursorInHunk
    <3> QED  BY <3>1, <3>3, LineShown
  <2> QED  BY <2>1, <2>2 DEF CursorInHunk
<1>4. ParserFollows'
  <2> SUFFICES ASSUME "header" \notin oddText
               PROVE  /\ path' = file' /\ DOMAIN valid' = DOMAIN inDiff'
                      /\ \A f \in DOMAIN valid' : valid'[f] \subseteq inDiff'[f]
    BY DEF ParserFollows
  <2>1. /\ path = file /\ DOMAIN valid = DOMAIN inDiff
        /\ \A f \in DOMAIN valid : valid[f] \subseteq inDiff[f]
    BY DEF DiffInv, ParserFollows
  <2>2. line \in inDiff'[file]
    <3>1. right > 0 /\ file # Deleted
      BY LineShown, DiffAssumption DEF Rights
    <3>2. line .. (right - 1) \subseteq inDiff[file]
      BY <3>1 DEF DiffInv, CursorInHunk
    <3>3. line = right \/ line \in line .. (right - 1)
      BY LineShown, LineTaken DEF Rights
    <3> QED  BY <3>2, <3>3, LineShown
  <2>3. ASSUME NEW f \in DOMAIN valid PROVE valid'[f] \subseteq inDiff'[f]
    BY <2>1, <2>2, LineShown, LineTaken
  <2> QED  BY <2>1, <2>3, LineShown, LineTaken
<1>5. NothingMissed'
  <2> SUFFICES ASSUME oddText = {}
               PROVE  /\ line' = right'
                      /\ \A f \in DOMAIN inDiff : f \in DOMAIN valid /\ inDiff'[f] \subseteq valid'[f] /\ f \in paths
    BY LineShown, LineTaken DEF NothingMissed
  <2>1. /\ line = right
        /\ \A f \in DOMAIN inDiff : f \in DOMAIN valid /\ inDiff[f] \subseteq valid[f] /\ f \in paths
    BY LineShown DEF DiffInv, NothingMissed, Rights
  <2>2. path = file
    BY DEF DiffInv, ParserFollows
  <2> QED  BY <2>1, <2>2, LineShown, LineTaken
<1> QED  BY <1>1, <1>2, <1>3, <1>4, <1>5 DEF DiffInv

LEMMA DiffStep == DiffInv /\ [DiffNext]_diffVars => DiffInv'
<1> SUFFICES ASSUME DiffInv, [DiffNext]_diffVars PROVE DiffInv'
  OBVIOUS
<1>0. DiffTypeOK
  BY DEF DiffInv
<1>1. ASSUME NEW f \in DiffFiles \cup {Deleted}, Header(f) PROVE DiffInv'
  <2>1. /\ file' = f /\ path' = f /\ right' = 0 /\ length' \in 0..MaxDiffLines /\ UNCHANGED <<oddText, line>>
        /\ paths' = IF f = Deleted THEN paths ELSE paths \cup {f}
    BY <1>0, <1>1, DiffAssumption DEF DiffTypeOK, Header, OneLineMore, ParsesHeader, TakesPath
  <2>2. CASE f = Deleted
    <3>1. UNCHANGED <<inDiff, valid, paths>>
      BY <1>1, <2>2 DEF Header, ParsesHeader, TakesPath
    <3>2. DiffTypeOK'
      BY <1>0, <2>1, <3>1, DiffAssumption DEF DiffTypeOK
    <3> QED  BY <2>1, <2>2, <3>1, <3>2 DEF DiffInv, FileIsShown, CursorInHunk, ParserFollows, NothingMissed
  <2>3. CASE f # Deleted
    <3>1. /\ inDiff' = [g \in DOMAIN inDiff \cup {f} |-> IF g = f THEN {} ELSE inDiff[g]]
          /\ valid' = [g \in DOMAIN valid \cup {f} |-> IF g = f THEN {} ELSE valid[g]]
          /\ f \in DiffFiles
      BY <1>1, <2>3 DEF Header, ParsesHeader, Emptied
    <3>3. DiffTypeOK'
      BY <1>0, <2>1, <3>1, DiffAssumption DEF DiffTypeOK
    <3>4. FileIsShown' /\ CursorInHunk'
      BY <2>1, <3>1 DEF FileIsShown, CursorInHunk
    <3>5. ParserFollows'
      BY <2>1, <3>1 DEF DiffInv, ParserFollows
    <3>6. NothingMissed'
      BY <2>1, <2>3, <3>1 DEF DiffInv, NothingMissed
    <3> QED  BY <3>3, <3>4, <3>5, <3>6 DEF DiffInv
  <2> QED  BY <2>2, <2>3
<1>2. ASSUME NEW f \in DiffFiles \cup {Deleted}, AddedHeaderText(f) PROVE DiffInv'
  <2>1. InHunk /\ ShownOnRight /\ "header" \in oddText' /\ oddText' # {} /\ path' = f /\ UNCHANGED <<file, line>>
    BY <1>2 DEF AddedHeaderText, ParsesHeader
  <2>2. /\ oddText' \subseteq {"plus", "header"} /\ paths' \subseteq DiffFiles
        /\ DOMAIN valid' \subseteq DiffFiles /\ \A g \in DOMAIN valid' : valid'[g] \subseteq Rights
    BY <1>0, <1>2, DiffAssumption DEF AddedHeaderText, ParsesHeader, TakesPath, Emptied, DiffTypeOK
  <2>3. DiffTypeOK'
    BY <1>0, <2>1, <2>2, LineShown, DiffAssumption DEF DiffTypeOK
  <2>4. FileIsShown'
    BY <2>1, LineShown DEF FileIsShown
  <2>5. CursorInHunk'
    <3>1. line > 0 /\ line <= right
      BY <2>1, LineShown DEF DiffInv, CursorInHunk, Rights
    <3>2. line <= right' /\ right' = right + 1 /\ right \in Rights /\ line \in 0..(MaxRight + 1)
      BY <1>0, <2>1, <3>1, LineShown, DiffAssumption DEF DiffTypeOK, Rights
    <3> QED  BY <2>1, <3>1, <3>2 DEF CursorInHunk
  <2>6. ParserFollows' /\ NothingMissed'
    BY <2>1 DEF ParserFollows, NothingMissed
  <2> QED  BY <2>3, <2>4, <2>5, <2>6 DEF DiffInv
<1>3. ASSUME NEW n \in 0..MaxRight, Hunk(n) PROVE DiffInv'
  <2>1. /\ right' = n /\ line' = n /\ length' \in 0..MaxDiffLines
        /\ UNCHANGED <<file, inDiff, oddText, path, valid, paths>>
    BY <1>0, <1>3, DiffAssumption DEF DiffTypeOK, Hunk, OneLineMore
  <2>2. DiffTypeOK'
    BY <1>0, <2>1, DiffAssumption DEF DiffTypeOK
  <2>3. CursorInHunk'
    BY <2>1 DEF CursorInHunk
  <2> QED  BY <2>1, <2>2, <2>3 DEF DiffInv, FileIsShown, ParserFollows, NothingMissed
<1>4. CASE ContextLine
  BY <1>4, RightLine DEF ContextLine
<1>5. CASE AddedLine
  BY <1>5, RightLine DEF AddedLine
<1>6. CASE AddedPlusPlus
  <2>1. /\ InHunk /\ ShownOnRight /\ oddText' = oddText \cup {"plus"}
        /\ UNCHANGED <<file, path, line, valid, paths>>
    BY <1>6 DEF AddedPlusPlus
  <2>2. DiffTypeOK'
    BY <1>0, <2>1, LineShown, DiffAssumption DEF DiffTypeOK
  <2>3. FileIsShown'
    BY <2>1, LineShown DEF FileIsShown
  <2>4. CursorInHunk'
    <3>1. right > 0 /\ line > 0 /\ line <= right
      BY <2>1, LineShown DEF DiffInv, CursorInHunk, Rights
    <3>2. line <= right'
      BY <1>0, <2>1, <3>1, LineShown DEF DiffTypeOK, Rights
    <3>3. ASSUME "header" \notin oddText, NEW n \in line .. (right' - 1)
          PROVE  n \in inDiff'[file]
      <4>1. n = right \/ n \in line .. (right - 1)
        BY <1>0, <2>1, <3>3, LineShown DEF DiffTypeOK, Rights
      <4>2. line .. (right - 1) \subseteq inDiff[file]
        BY <2>1, <3>1, <3>3, LineShown, DiffAssumption DEF DiffInv, CursorInHunk
      <4> QED  BY <2>1, <4>1, <4>2, LineShown
    <3> QED  BY <2>1, <3>1, <3>2, <3>3 DEF CursorInHunk
  <2>5. ParserFollows'
    <3> SUFFICES ASSUME "header" \notin oddText
                 PROVE  /\ path = file /\ DOMAIN valid = DOMAIN inDiff'
                        /\ \A f \in DOMAIN valid : valid[f] \subseteq inDiff'[f]
      BY <2>1 DEF ParserFollows
    <3>1. /\ path = file /\ DOMAIN valid = DOMAIN inDiff
          /\ \A f \in DOMAIN valid : valid[f] \subseteq inDiff[f]
      BY DEF DiffInv, ParserFollows
    <3> QED  BY <2>1, <3>1, LineShown
  <2>6. NothingMissed'
    BY <2>1 DEF NothingMissed
  <2> QED  BY <2>2, <2>3, <2>4, <2>5, <2>6 DEF DiffInv
<1>7. CASE LeftLine
  <2>1. length' \in 0..MaxDiffLines /\ UNCHANGED <<file, right, inDiff, oddText, path, line, valid, paths>>
    BY <1>0, <1>7, DiffAssumption DEF DiffTypeOK, LeftLine, OneLineMore
  <2>2. DiffTypeOK'
    BY <1>0, <2>1, DiffAssumption DEF DiffTypeOK
  <2> QED  BY <2>1, <2>2 DEF DiffInv, FileIsShown, CursorInHunk, ParserFollows, NothingMissed
<1>8. CASE UNCHANGED diffVars
  BY <1>8 DEF diffVars, DiffInv, DiffTypeOK, FileIsShown, CursorInHunk, ParserFollows, NothingMissed
<1> QED  BY <1>1, <1>2, <1>3, <1>4, <1>5, <1>6, <1>7, <1>8 DEF DiffNext

(* For diffs of any number of files, hunks and lines, a comment that is    *)
(* kept is on lines of the diff and one on a line of the diff is kept, but *)
(* for the added lines the property names (validRightLines,                *)
(* commentLinesValid and extractChangedFiles of review/pipeline.go).       *)
THEOREM KeptCommentsAreOnDiff == DiffSpec => [](DiffTypeOK /\ AnchorsAreInDiff)
<1>1. DiffInv => AnchorsAreInDiff
  <2> SUFFICES ASSUME DiffInv, NEW f \in DiffFiles, NEW start \in 0..MaxRight, NEW end \in Rights
               PROVE  /\ "header" \notin oddText /\ CommentLinesValid(f, start, end) =>
                           OnDiff(f, end) /\ (start = 0 \/ OnDiff(f, start))
                      /\ oddText = {} /\ OnDiff(f, end) => CommentLinesValid(f, 0, end) /\ f \in paths
    BY DEF AnchorsAreInDiff
  <2>1. "header" \notin oddText /\ CommentLinesValid(f, start, end) =>
          OnDiff(f, end) /\ (start = 0 \/ OnDiff(f, start))
    BY DEF DiffInv, ParserFollows, CommentLinesValid, OnDiff
  <2>2. oddText = {} /\ OnDiff(f, end) => CommentLinesValid(f, 0, end) /\ f \in paths
    BY DEF DiffInv, NothingMissed, CommentLinesValid, OnDiff
  <2> QED  BY <2>1, <2>2
<1>2. DiffInv => DiffTypeOK
  BY DEF DiffInv
<1> QED  BY DiffInitial, DiffStep, <1>1, <1>2, PTL DEF DiffSpec

-----------------------------------------------------------------------------
Early == {"retrieve", "context", "sort"}

(* The calls a cancelled job has made, by where the retry loop stands.     *)
CallsInv ==
  /\ lateCalls \in Nat /\ lateCalls <= 2 /\ tier \in Tiers
  /\ ~ctxDone => lateCalls = 0
  /\ step \in Early \cup {"assemble"} => tier = "primary"
  /\ tier = "primary" => lateCalls <= 1
  /\ tier = "primary" /\ step \in Early \cup {"assemble", "ready"} => lateCalls = 0
  /\ step = "ready" => lateCalls <= 1

LEMMA CallsInitial == PromptInit => CallsInv
BY DEF PromptInit, CallsInv, Tiers, Early

LEMMA CallsStep == CallsInv /\ [PromptNext]_promptVars => CallsInv'
<1> SUFFICES ASSUME CallsInv, [PromptNext]_promptVars PROVE CallsInv'
  OBVIOUS
<1> USE DEF CallsInv, Tiers, Early
<1>1. CASE Retrieve
  BY <1>1 DEF Retrieve, chatVars
<1>2. ASSUME NEW p \in ProviderSet, NEW ref \in Refs, FetchFrom(p, ref) PROVE CallsInv'
  BY <1>2 DEF FetchFrom, chatVars
<1>3. CASE AllAsked
  BY <1>3 DEF AllAsked, chatVars
<1>4. ASSUME NEW n \in 0 .. Len(context), SortItem(n) PROVE CallsInv'
  BY <1>4 DEF SortItem, chatVars
<1>5. ASSUME NEW n \in TokenCaps, BeginAssembly(n) PROVE CallsInv'
  BY <1>5 DEF BeginAssembly, chatVars
<1>6. ASSUME NEW i \in DOMAIN Optional, DropSection(i) PROVE CallsInv'
  BY <1>6 DEF DropSection, chatVars
<1>7. CASE Send
  BY <1>7 DEF Send, chatVars
<1>8. CASE StartCall
  BY <1>8 DEF StartCall
<1>9. CASE Answered \/ CallFails \/ WaitIsCut \/ WaitIsOver
  BY <1>9 DEF Answered, CallFails, WaitIsCut, WaitIsOver, chatVars
<1>10. CASE NextTier
  BY <1>10 DEF NextTier
<1>11. CASE Cancel
  BY <1>11 DEF Cancel
<1>12. CASE UNCHANGED promptVars
  BY <1>12 DEF promptVars
<1> QED  BY <1>1, <1>2, <1>3, <1>4, <1>5, <1>6, <1>7, <1>8, <1>9, <1>10, <1>11, <1>12 DEF PromptNext

(* However often a tier may try, a cancelled job calls the model at most   *)
(* twice more (ChatWithRetry and tryTier of core/llm/retry.go).            *)
THEOREM CancelledJobCallsTwice == PromptSpec => []CancelStopsTheCalls
<1>1. CallsInv => CancelStopsTheCalls
  BY DEF CallsInv, CancelStopsTheCalls
<1> QED  BY CallsInitial, CallsStep, <1>1, PTL DEF PromptSpec

-----------------------------------------------------------------------------
LEMMA SectionNames ==
  /\ Optional = <<"reviews", "related", "context", "rules">> /\ DOMAIN Optional = 1 .. 4
  /\ Sections = {"reviews", "related", "context", "rules", "diff"}
<1>1. Optional = <<"reviews", "related", "context", "rules">> /\ DOMAIN Optional = 1 .. 4
  BY DEF Optional
<1> QED  BY <1>1 DEF Sections, ToSet

LEMMA WorthMoreValues ==
  /\ WorthMore("reviews") = {"reviews", "related", "context", "rules", "diff"}
  /\ WorthMore("related") = {"related", "context", "rules", "diff"}
  /\ WorthMore("context") = {"context", "rules", "diff"}
  /\ WorthMore("rules") = {"rules", "diff"}
<1>1. \A s : WorthMore(s) = {Optional[i] : i \in {j \in 1 .. 4 : \E n \in 1 .. j : Optional[n] = s}} \cup {"diff"}
  BY SectionNames DEF WorthMore
<1>2. {j \in 1 .. 4 : \E n \in 1 .. j : Optional[n] = "reviews"} = {1, 2, 3, 4}
  BY SectionNames
<1>3. {j \in 1 .. 4 : \E n \in 1 .. j : Optional[n] = "related"} = {2, 3, 4}
  BY SectionNames
<1>4. {j \in 1 .. 4 : \E n \in 1 .. j : Optional[n] = "context"} = {3, 4}
  BY SectionNames
<1>5. {j \in 1 .. 4 : \E n \in 1 .. j : Optional[n] = "rules"} = {4}
  BY SectionNames
<1> QED  BY <1>1, <1>2, <1>3, <1>4, <1>5, SectionNames

(* What Assemble has dropped so far did not fit, and what it sends does,   *)
(* unless nothing is left to drop.                                         *)
DroppedToFit ==
  /\ cap \in Nat
  /\ \A s \in Sections \ kept : Tokens(WorthMore(s)) > cap

SectionsInv ==
  /\ sections \in [Sections -> Nat] /\ kept \subseteq Sections /\ "diff" \in kept
  /\ IF step \in Early THEN kept = Sections ELSE DroppedToFit
  /\ step \notin Early \cup {"assemble"} /\ Tokens(kept) > cap => Tokens(kept) = sections["diff"]

(* The items, as the context holds them before, during and after the sort. *)
ContextHeld ==
  /\ context \in Seq(ProviderSet \X Refs) /\ fetched \in [ProviderSet -> SUBSET Refs]
  /\ \A p \in ProviderSet, ref \in Refs :
       ref \in fetched[p] <=> \E k \in 1 .. Len(context) : context[k] = <<p, ref>>

(* What the sort has not reached stands in the order it was gathered in,   *)
(* also relative to what it has sorted.                                    *)
ContextSortedSoFar ==
  /\ sorted \in 0 .. Len(context)
  /\ step \in {"retrieve", "context"} => sorted = 0
  /\ step \notin Early => sorted = Len(context)
  /\ \A i, j \in 1 .. Len(context) : i < j =>
       IF j <= sorted THEN Before(context[i], context[j]) ELSE Earlier(context[i], context[j])

PromptInv == SectionsInv /\ ContextHeld /\ ContextSortedSoFar

LEMMA PromptInitial == PromptInit => PromptInv
<1> SUFFICES ASSUME PromptInit PROVE PromptInv
  OBVIOUS
<1>1. SectionsInv
  BY DEF PromptInit, SectionsInv, Early, Sections
<1>2. Len(context) = 0 /\ context \in Seq(ProviderSet \X Refs)
  BY DEF PromptInit
<1>3. ContextHeld
  BY <1>2 DEF PromptInit, ContextHeld
<1>4. ContextSortedSoFar
  BY <1>2 DEF PromptInit, ContextSortedSoFar, Early
<1> QED  BY <1>1, <1>3, <1>4 DEF PromptInv

(* Assemble drops one section: what it keeps was too much together with it.*)
LEMMA DropKeepsSections ==
  ASSUME SectionsInv, NEW i \in DOMAIN Optional, DropSection(i)
  PROVE  SectionsInv'
<1>1. /\ step = "assemble" /\ step' = "assemble" /\ Tokens(kept) > cap
      /\ kept' = kept \ {Optional[i]} /\ UNCHANGED <<sections, cap>>
  BY DEF DropSection
<1>2. /\ sections \in [Sections -> Nat] /\ kept \subseteq Sections /\ "diff" \in kept /\ DroppedToFit
  BY <1>1 DEF SectionsInv, Early
<1>3. \A j \in 1 .. 4 : j < i => Optional[j] \notin kept \/ sections[Optional[j]] = 0
  BY <1>2, SectionNames DEF DropSection, NextToDrop, Droppable
<1>4. Tokens(kept) <= Tokens(WorthMore(Optional[i]))
  <2>1. i \in 1 .. 4
    BY SectionNames
  <2>2. \A s \in Sections : sections[s] \in Nat
    BY <1>2
  <2>3. CASE i = 1
    BY <2>2, <2>3, <1>2, SectionNames, WorthMoreValues DEF Tokens
  <2>4. CASE i = 2
    <3>1. "reviews" \notin kept \/ sections["reviews"] = 0
      BY <2>4, <1>3, SectionNames
    <3> QED  BY <2>2, <2>4, <3>1, SectionNames, WorthMoreValues DEF Tokens
  <2>5. CASE i = 3
    <3>1. /\ "reviews" \notin kept \/ sections["reviews"] = 0
          /\ "related" \notin kept \/ sections["related"] = 0
      BY <2>5, <1>3, SectionNames
    <3> QED  BY <2>2, <2>5, <3>1, SectionNames, WorthMoreValues DEF Tokens
  <2>6. CASE i = 4
    <3>1. /\ "reviews" \notin kept \/ sections["reviews"] = 0
          /\ "related" \notin kept \/ sections["related"] = 0
          /\ "context" \notin kept \/ sections["context"] = 0
      BY <2>6, <1>3, SectionNames
    <3> QED  BY <2>2, <2>6, <3>1, SectionNames, WorthMoreValues DEF Tokens
  <2> QED  BY <2>1, <2>3, <2>4, <2>5, <2>6
<1>5. /\ \A s \in Sections : sections[s] \in Nat
      /\ \A included : Tokens(included) \in Nat
  BY <1>2, SectionNames DEF Tokens
<1>6. Tokens(WorthMore(Optional[i])) > cap
  BY <1>1, <1>2, <1>4, <1>5 DEF DroppedToFit
<1>7. \A s \in Sections \ kept' : Tokens(WorthMore(s)) > cap
  BY <1>1, <1>2, <1>6 DEF DroppedToFit
<1>8. \A included : Tokens(included)' = Tokens(included)
  BY <1>1 DEF Tokens
<1>9. DroppedToFit'
  BY <1>1, <1>2, <1>7 DEF DroppedToFit, Tokens
<1>10. Optional[i] # "diff"
  BY SectionNames
<1> QED  BY <1>1, <1>2, <1>9, <1>10 DEF SectionsInv, Early

LEMMA SectionsStep == PromptInv /\ [PromptNext]_promptVars => SectionsInv'
<1> SUFFICES ASSUME SectionsInv, ContextHeld, [PromptNext]_promptVars PROVE SectionsInv'
  BY DEF PromptInv
<1>1. CASE Retrieve
  <2>1. PICK vector \in BOOLEAN, rules \in 0 .. 1, diff \in DiffSizes :
          \E related, reviews \in Neighbours(vector) :
            sections' = [sections EXCEPT !["related"] = related, !["reviews"] = reviews,
                                         !["rules"] = rules, !["diff"] = diff]
    BY <1>1 DEF Retrieve
  <2>2. sections' \in [Sections -> Nat]
    BY <2>1, PromptAssumption DEF SectionsInv, Neighbours
  <2> QED  BY <1>1, <2>2 DEF Retrieve, SectionsInv, Early
<1>2. ASSUME NEW p \in ProviderSet, NEW ref \in Refs, FetchFrom(p, ref) PROVE SectionsInv'
  BY <1>2 DEF FetchFrom, SectionsInv, Early
<1>3. CASE AllAsked
  BY <1>3 DEF AllAsked, inputVars, SectionsInv, Early
<1>4. ASSUME NEW n \in 0 .. Len(context), SortItem(n) PROVE SectionsInv'
  BY <1>4 DEF SortItem, SectionsInv, Early
<1>5. ASSUME NEW n \in TokenCaps, BeginAssembly(n) PROVE SectionsInv'
  <2>1. Len(context) \in Nat
    BY DEF ContextHeld
  <2>2. sections' \in [Sections -> Nat]
    BY <1>5, <2>1 DEF BeginAssembly, SectionsInv
  <2> QED  BY <1>5, <2>2, PromptAssumption DEF BeginAssembly, SectionsInv, DroppedToFit, Early
<1>6. ASSUME NEW i \in DOMAIN Optional, DropSection(i) PROVE SectionsInv'
  BY <1>6, DropKeepsSections
<1>7. CASE Send
  <2>1. /\ step = "assemble" /\ step' = "ready" /\ UNCHANGED <<sections, kept, cap>>
        /\ Tokens(kept) <= cap \/ Droppable = {}
    BY <1>7 DEF Send, inputVars
  <2>2. sections \in [Sections -> Nat] /\ "diff" \in kept /\ DroppedToFit
    BY <2>1 DEF SectionsInv, Early
  <2>3. Tokens(kept) > cap => Tokens(kept) = sections["diff"]
    <3>1. CASE Tokens(kept) <= cap
      <4>1. cap \in Nat /\ Tokens(kept) \in Nat
        BY <2>2, SectionNames DEF DroppedToFit, Tokens
      <4> QED  BY <3>1, <4>1
    <3>2. CASE Droppable = {}
      <4>1. \A j \in 1 .. 4 : Optional[j] \notin kept \/ sections[Optional[j]] = 0
        BY <2>2, <3>2, SectionNames DEF Droppable
      <4>2. /\ "reviews" \notin kept \/ sections["reviews"] = 0
            /\ "related" \notin kept \/ sections["related"] = 0
            /\ "context" \notin kept \/ sections["context"] = 0
            /\ "rules" \notin kept \/ sections["rules"] = 0
        BY <4>1, SectionNames
      <4> QED  BY <2>2, <4>2, SectionNames DEF Tokens
    <3> QED  BY <2>1, <3>1, <3>2
  <2>4. (Tokens(kept))' = Tokens(kept)
    BY <2>1 DEF Tokens
  <2> QED  BY <2>1, <2>2, <2>3, <2>4 DEF SectionsInv, DroppedToFit, Tokens, Early
<1>8. CASE StartCall \/ Answered \/ CallFails \/ WaitIsCut \/ WaitIsOver \/ NextTier
  <2>1. /\ step \notin Early \cup {"assemble"} /\ step' \notin Early \cup {"assemble"}
        /\ UNCHANGED <<sections, kept, cap>>
    BY <1>8 DEF StartCall, Answered, CallFails, WaitIsCut, WaitIsOver, NextTier, inputVars, Early
  <2> QED  BY <2>1 DEF SectionsInv, DroppedToFit, Tokens
<1>9. CASE Cancel \/ UNCHANGED promptVars
  <2>1. UNCHANGED <<step, sections, kept, cap>>
    BY <1>9 DEF Cancel, promptVars, inputVars
  <2> QED  BY <2>1 DEF SectionsInv, DroppedToFit, Tokens
<1> QED  BY <1>1, <1>2, <1>3, <1>4, <1>5, <1>6, <1>7, <1>8, <1>9 DEF PromptNext

(* The provider of an item has a priority and a place.                     *)
LEMMA ProvidersRanked ==
  /\ \A p \in ProviderSet : PriorityOf[p] \in Nat
  /\ \A i \in DOMAIN Providers : Providers[i] \in ProviderSet
  /\ DOMAIN Providers = 1 .. Len(Providers) /\ Len(Providers) \in Nat
<1>1. /\ Providers \in Seq(DOMAIN PriorityOf)
      /\ DOMAIN Providers = 1 .. Len(Providers) /\ Len(Providers) \in Nat
  BY PromptAssumption
<1>2. \A i \in DOMAIN Providers : Providers[i] \in DOMAIN PriorityOf
  BY <1>1
<1>3. ProviderSet = {Providers[i] : i \in DOMAIN Providers}
  BY DEF ProviderSet, ToSet
<1>4. \A p \in DOMAIN PriorityOf : PriorityOf[p] \in Nat
  BY DEF PriorityOf
<1> QED  BY <1>1, <1>2, <1>3, <1>4

(* A provider yields one more item, behind those there are.                *)
LEMMA FetchKeepsContext ==
  ASSUME ContextHeld, ContextSortedSoFar, NEW p \in ProviderSet, NEW ref \in Refs, FetchFrom(p, ref)
  PROVE  ContextHeld' /\ ContextSortedSoFar'
<1>1. /\ context \in Seq(ProviderSet \X Refs) /\ <<p, ref>> \in ProviderSet \X Refs
      /\ context' = Append(context, <<p, ref>>)
  BY DEF ContextHeld, FetchFrom
<1>2. /\ context' \in Seq(ProviderSet \X Refs) /\ Len(context) \in Nat
      /\ Len(context') = Len(context) + 1
      /\ \A k \in 1 .. Len(context) : context'[k] = context[k]
      /\ context'[Len(context) + 1] = <<p, ref>>
      /\ DOMAIN context = 1 .. Len(context)
  BY <1>1, AppendProperties, LenProperties
<1>3. ContextHeld'
  <2>1. /\ fetched' \in [ProviderSet -> SUBSET Refs]
        /\ \A q \in ProviderSet, r \in Refs : r \in fetched'[q] <=> r \in fetched[q] \/ (q = p /\ r = ref)
    BY DEF ContextHeld, FetchFrom
  <2>2. ASSUME NEW q \in ProviderSet, NEW r \in Refs
        PROVE  (\E k \in 1 .. Len(context') : context'[k] = <<q, r>>)
                 <=> (\E k \in 1 .. Len(context) : context[k] = <<q, r>>) \/ (q = p /\ r = ref)
    <3>1. ASSUME NEW k \in 1 .. Len(context'), context'[k] = <<q, r>>
          PROVE  (\E m \in 1 .. Len(context) : context[m] = <<q, r>>) \/ (q = p /\ r = ref)
      <4>1. k \in 1 .. Len(context) \/ k = Len(context) + 1
        BY <1>2
      <4>2. CASE k = Len(context) + 1
        <5>1. <<q, r>> = <<p, ref>>
          BY <1>2, <3>1, <4>2
        <5> QED  BY <5>1
      <4> QED  BY <1>2, <3>1, <4>1, <4>2
    <3>2. ASSUME NEW k \in 1 .. Len(context), context[k] = <<q, r>>
          PROVE  \E m \in 1 .. Len(context') : context'[m] = <<q, r>>
      <4>1. k \in 1 .. Len(context')
        BY <1>2
      <4> QED  BY <1>2, <3>2, <4>1
    <3>3. (q = p /\ r = ref) => \E m \in 1 .. Len(context') : context'[m] = <<q, r>>
      <4>1. Len(context) + 1 \in 1 .. Len(context')
        BY <1>2
      <4> QED  BY <1>2, <4>1
    <3> QED  BY <3>1, <3>2, <3>3
  <2>3. \A q \in ProviderSet, r \in Refs :
          r \in fetched[q] <=> \E k \in 1 .. Len(context) : context[k] = <<q, r>>
    BY DEF ContextHeld
  <2> QED  BY <1>2, <2>1, <2>2, <2>3 DEF ContextHeld
<1>4. sorted = 0 /\ sorted' = 0 /\ step = "context" /\ step' = "context"
  BY DEF FetchFrom, ContextSortedSoFar
<1>5. ASSUME NEW i \in 1 .. Len(context'), NEW j \in 1 .. Len(context'), i < j
      PROVE  Earlier(context'[i], context'[j])
  <2>1. CASE j \in 1 .. Len(context)
    <3>1. i \in 1 .. Len(context) /\ ~(j <= sorted)
      BY <1>2, <1>4, <1>5, <2>1
    <3>2. Earlier(context[i], context[j])
      BY <1>5, <2>1, <3>1 DEF ContextSortedSoFar
    <3> QED  BY <1>2, <2>1, <3>1, <3>2
  <2>2. CASE j = Len(context) + 1
    <3>1. i \in DOMAIN context
      BY <1>2, <1>5, <2>2
    <3>2. Earlier(context[i], <<p, ref>>)
      BY <3>1 DEF FetchFrom
    <3> QED  BY <1>2, <2>2, <3>1, <3>2
  <2> QED  BY <1>2, <2>1, <2>2
<1>6. \A i, j \in 1 .. Len(context') : i < j => ~(j <= sorted')
  BY <1>2, <1>4
<1>7. ContextSortedSoFar'
  <2>1. sorted' \in 0 .. Len(context')
    BY <1>2, <1>4
  <2> QED  BY <1>4, <1>5, <1>6, <2>1 DEF ContextSortedSoFar, Early, Before, Earlier, Outranks
<1> QED  BY <1>3, <1>7

(* The next item of the sort moves up to its place.                        *)
LEMMA SortKeepsContext ==
  ASSUME ContextHeld, ContextSortedSoFar, NEW n \in 0 .. Len(context), SortItem(n)
  PROVE  ContextHeld' /\ ContextSortedSoFar'
<1> DEFINE new == sorted + 1
           From(k) == IF k \in (n + 2) .. new THEN k - 1 ELSE IF k = n + 1 THEN new ELSE k
<1>1. /\ Len(context) \in Nat /\ DOMAIN context = 1 .. Len(context)
      /\ \A k \in 1 .. Len(context) : context[k] \in ProviderSet \X Refs
      /\ sorted \in Nat /\ n \in 0 .. sorted /\ new \in 1 .. Len(context) /\ sorted' = new
      /\ step = "sort" /\ step' = "sort" /\ fetched' = fetched
  BY DEF ContextHeld, ContextSortedSoFar, SortItem
<1>2. \A k \in 1 .. Len(context) : From(k) \in 1 .. Len(context)
  BY <1>1
<1>3. context' = [k \in 1 .. Len(context) |-> context[From(k)]]
  <2>1. context' = [k \in DOMAIN context |-> IF k \in (n + 2) .. new THEN context[k - 1]
                                             ELSE IF k = n + 1 THEN context[new] ELSE context[k]]
    BY DEF SortItem, MovedUp
  <2> QED  BY <1>1, <2>1
<1>4. /\ context' \in Seq(ProviderSet \X Refs) /\ Len(context') = Len(context)
      /\ \A k \in 1 .. Len(context) : context'[k] = context[From(k)]
  BY <1>1, <1>2, <1>3
<1>5. \A m \in 1 .. Len(context) : \E k \in 1 .. Len(context) : From(k) = m
  <2> SUFFICES ASSUME NEW m \in 1 .. Len(context) PROVE \E k \in 1 .. Len(context) : From(k) = m
    OBVIOUS
  <2>1. CASE m = new
    <3>1. n + 1 \in 1 .. Len(context) /\ From(n + 1) = m
      BY <1>1, <2>1
    <3> QED  BY <3>1
  <2>2. CASE m \in (n + 1) .. sorted
    <3>1. m + 1 \in 1 .. Len(context) /\ From(m + 1) = m
      BY <1>1, <2>2
    <3> QED  BY <3>1
  <2>3. CASE m <= n \/ m > new
    <3>1. From(m) = m
      BY <1>1, <2>3
    <3> QED  BY <3>1
  <2> QED  BY <1>1, <2>1, <2>2, <2>3
<1> HIDE DEF From, new
<1>6. ContextHeld'
  <2>1. ASSUME NEW p \in ProviderSet, NEW ref \in Refs
        PROVE  (\E k \in 1 .. Len(context') : context'[k] = <<p, ref>>)
                 <=> \E k \in 1 .. Len(context) : context[k] = <<p, ref>>
    BY <1>2, <1>4, <1>5
  <2> QED  BY <1>1, <1>4, <2>1 DEF ContextHeld
<1>7. \A a, b \in ProviderSet \X Refs :
        PriorityOf[a[1]] \in Nat /\ PriorityOf[b[1]] \in Nat
  BY ProvidersRanked
<1>8. ASSUME NEW i \in 1 .. Len(context), NEW j \in 1 .. Len(context), i < j
      PROVE  IF j <= new THEN Before(context'[i], context'[j]) ELSE Earlier(context'[i], context'[j])
  <2>1. \A k, m \in 1 .. Len(context) : k < m =>
          IF m <= sorted THEN Before(context[k], context[m]) ELSE Earlier(context[k], context[m])
    BY DEF ContextSortedSoFar
  <2>2. CASE j > new
    <3>1. From(j) = j /\ From(i) < j /\ From(i) \in 1 .. Len(context) /\ ~(j <= sorted) /\ ~(j <= new)
      BY <1>1, <1>8, <2>2 DEF From, new
    <3> QED  BY <1>4, <2>1, <3>1
  <2>3. CASE j <= new /\ j = n + 1
    <3>1. From(j) = new /\ From(i) = i /\ i \in 1 .. n /\ n \in 1 .. sorted /\ ~(new <= sorted) /\ i < new
      BY <1>1, <1>8, <2>3 DEF From, new
    <3>2. Earlier(context[i], context[new])
      BY <1>1, <2>1, <3>1
    <3>3. ~Outranks(context[new], context[n])
      BY <3>1 DEF SortItem, StopsAfter, new
    <3>4. ~Outranks(context[n], context[i])
      <4>1. CASE i = n
        BY <1>1, <1>7, <3>1, <4>1 DEF Outranks
      <4>2. CASE i < n
        <5>1. Before(context[i], context[n])
          BY <1>1, <2>1, <3>1, <4>2
        <5> QED  BY <1>1, <1>7, <3>1, <5>1 DEF Before, Outranks
      <4> QED  BY <1>1, <3>1, <4>1, <4>2
    <3>5. ~Outranks(context[new], context[i])
      BY <1>1, <1>7, <3>1, <3>3, <3>4 DEF Outranks
    <3> QED  BY <1>4, <2>3, <3>1, <3>2, <3>5 DEF Before
  <2>4. CASE j <= new /\ i = n + 1
    <3>1. From(i) = new /\ From(j) = j - 1 /\ j - 1 \in (n + 1) .. sorted
      BY <1>1, <1>8, <2>4 DEF From, new
    <3>2. Outranks(context[new], context[j - 1])
      BY <3>1 DEF SortItem, StopsAfter, new
    <3> QED  BY <1>4, <2>4, <3>1, <3>2 DEF Before
  <2>5. CASE j <= new /\ j # n + 1 /\ i # n + 1
    <3>1. From(i) \in 1 .. sorted /\ From(j) \in 1 .. sorted /\ From(i) < From(j)
      BY <1>1, <1>8, <2>5 DEF From, new
    <3> QED  BY <1>1, <1>2, <1>4, <2>1, <2>5, <3>1
  <2> QED  BY <1>1, <2>2, <2>3, <2>4, <2>5
<1>9. ContextSortedSoFar'
  <2>1. sorted' \in 0 .. Len(context')
    BY <1>1, <1>4 DEF new
  <2> QED  BY <1>1, <1>4, <1>8, <2>1 DEF ContextSortedSoFar, Early, Before, Earlier, Outranks
<1> QED  BY <1>6, <1>9

LEMMA ContextStep == PromptInv /\ [PromptNext]_promptVars => ContextHeld' /\ ContextSortedSoFar'
<1> SUFFICES ASSUME ContextHeld, ContextSortedSoFar, [PromptNext]_promptVars
             PROVE  ContextHeld' /\ ContextSortedSoFar'
  BY DEF PromptInv
<1>1. ASSUME NEW p \in ProviderSet, NEW ref \in Refs, FetchFrom(p, ref)
      PROVE  ContextHeld' /\ ContextSortedSoFar'
  BY <1>1, FetchKeepsContext
<1>2. ASSUME NEW n \in 0 .. Len(context), SortItem(n) PROVE ContextHeld' /\ ContextSortedSoFar'
  BY <1>2, SortKeepsContext
<1>3. ASSUME UNCHANGED <<fetched, context, sorted>>,
             step' = step \/ (step \in {"retrieve", "context"} /\ step' \in {"context", "sort"})
                          \/ (sorted = Len(context) /\ step' \notin {"retrieve", "context"})
      PROVE  ContextHeld' /\ ContextSortedSoFar'
  <2>1. ContextHeld'  BY <1>3 DEF ContextHeld
  <2>2. /\ step' \in {"retrieve", "context"} => sorted' = 0
        /\ step' \notin Early => sorted' = Len(context')
    BY <1>3 DEF ContextSortedSoFar, Early
  <2>3. \A i, j \in 1 .. Len(context') : i < j =>
          IF j <= sorted' THEN Before(context'[i], context'[j]) ELSE Earlier(context'[i], context'[j])
    BY <1>3 DEF ContextSortedSoFar
  <2>4. sorted' \in 0 .. Len(context')  BY <1>3 DEF ContextSortedSoFar
  <2> QED  BY <2>1, <2>2, <2>3, <2>4 DEF ContextSortedSoFar, Before, Earlier, Outranks, Early
<1>4. CASE Retrieve \/ AllAsked
  BY <1>3, <1>4 DEF Retrieve, AllAsked, inputVars
<1>5. ASSUME NEW n \in TokenCaps, BeginAssembly(n) PROVE ContextHeld' /\ ContextSortedSoFar'
  BY <1>3, <1>5 DEF BeginAssembly
<1>6. ASSUME NEW i \in DOMAIN Optional, DropSection(i) PROVE ContextHeld' /\ ContextSortedSoFar'
  BY <1>3, <1>6 DEF DropSection
<1>7. CASE Send \/ StartCall \/ Answered \/ CallFails \/ WaitIsCut \/ WaitIsOver \/ NextTier
  <2>1. step \notin Early /\ step' \notin Early /\ UNCHANGED <<fetched, context, sorted>>
    BY <1>7 DEF Send, StartCall, Answered, CallFails, WaitIsCut, WaitIsOver, NextTier, inputVars, Early
  <2>2. sorted = Len(context) /\ step' \notin {"retrieve", "context"}
    BY <2>1 DEF ContextSortedSoFar, Early
  <2> QED  BY <1>3, <2>1, <2>2
<1>8. CASE Cancel \/ UNCHANGED promptVars
  BY <1>3, <1>8 DEF Cancel, promptVars, inputVars
<1> QED  BY <1>1, <1>2, <1>4, <1>5, <1>6, <1>7, <1>8 DEF PromptNext

(* For any providers, references, caps and sizes: the prompt's context is  *)
(* whole and ranked, what was dropped did not fit beside what is worth     *)
(* more, and the prompt fits whenever the diff alone does (fetchContext of *)
(* review/pipeline.go, Assemble of core/prompt/budget.go).                 *)
THEOREM PromptHoldsWhatFits == PromptSpec => []PromptKeepsWhatFits
<1>1. PromptInv /\ [PromptNext]_promptVars => PromptInv'
  BY SectionsStep, ContextStep DEF PromptInv
<1>2. PromptInv => PromptKeepsWhatFits
  <2> SUFFICES ASSUME PromptInv, step = "ready" PROVE PromptKeepsWhatFits
    BY DEF PromptKeepsWhatFits
  <2>1. /\ context \in Seq(ProviderSet \X Refs) /\ DOMAIN context = 1 .. Len(context)
        /\ sorted = Len(context) /\ Len(context) \in Nat
    BY DEF PromptInv, ContextHeld, ContextSortedSoFar, Early
  <2>2. ToSet(context) = UNION {{p} \X fetched[p] : p \in ProviderSet}
    <3>1. \A item \in ToSet(context) : item \in UNION {{p} \X fetched[p] : p \in ProviderSet}
      <4> SUFFICES ASSUME NEW k \in 1 .. Len(context)
                   PROVE  \E p \in ProviderSet : context[k] \in {p} \X fetched[p]
        BY <2>1 DEF ToSet
      <4>1. PICK p \in ProviderSet, ref \in Refs : context[k] = <<p, ref>>
        <5>1. context[k] \in ProviderSet \X Refs
          BY <2>1, ElementOfSeq
        <5> QED  BY <5>1
      <4>2. ref \in fetched[p]
        BY <4>1 DEF PromptInv, ContextHeld
      <4> QED  BY <4>1, <4>2
    <3>2. \A p \in ProviderSet : \A item \in {p} \X fetched[p] : item \in ToSet(context)
      <4> SUFFICES ASSUME NEW p \in ProviderSet, NEW ref \in fetched[p]
                   PROVE  <<p, ref>> \in ToSet(context)
        OBVIOUS
      <4>1. ref \in Refs
        BY DEF PromptInv, ContextHeld
      <4>2. \E k \in 1 .. Len(context) : context[k] = <<p, ref>>
        BY <4>1 DEF PromptInv, ContextHeld
      <4> QED  BY <2>1, <4>2 DEF ToSet
    <3> QED  BY <3>1, <3>2
  <2>3. \A i, j \in DOMAIN context : i < j => Before(context[i], context[j])
    BY <2>1 DEF PromptInv, ContextSortedSoFar
  <2>4. DroppedToFit /\ (~DiffOverflow => Tokens(kept) <= cap)
    <3>1. DroppedToFit /\ (Tokens(kept) > cap => Tokens(kept) = sections["diff"])
      BY DEF PromptInv, SectionsInv, Early
    <3>2. cap \in Nat /\ Tokens(kept) \in Nat
      BY SectionNames DEF PromptInv, SectionsInv, Early, DroppedToFit, Tokens
    <3> QED  BY <3>1, <3>2 DEF DiffOverflow
  <2> QED  BY <2>2, <2>3, <2>4 DEF PromptKeepsWhatFits, ContextIsWholeAndRanked, DroppedToFit
<1> QED  BY PromptInitial, <1>1, <1>2, PTL DEF PromptSpec

-----------------------------------------------------------------------------
(* The code host adapters.                                                 *)

(* What the margin of two steps pays for: the step the exchange took, which*)
(* the cache does not count, and the one the call may take.                *)
TokenInv ==
  /\ TokenTypeOK
  /\ tok.counted <= tok.left + 1
  /\ holder # Free /\ issued > 0 => \/ issued = TokenLife
                                    \/ waited[holder] = TRUE /\ issued = TokenLife - 1
  /\ \A c \in Callers : calls[c] # NoCall => \/ calls[c] >= 2
                                             \/ waited[c] = TRUE /\ calls[c] = 1

(* The entries of calls are numbers, whatever they stand for.              *)
LEMMA CallsAreNumbers ==
  ASSUME TokenTypeOK
  PROVE  /\ calls \in [Callers -> Nat] /\ NoCall \in Nat
         /\ \A c \in Callers : calls[c] # NoCall => calls[c] \in 0..TokenLife
<1>1. Lives \cup {NoCall} \subseteq Nat
  BY TokenAssumption DEF Lives, NoCall
<1> QED  BY <1>1 DEF TokenTypeOK, Lives

LEMMA TokenInitial == TokenInit => TokenInv
BY TokenAssumption DEF TokenInit, TokenInv, TokenTypeOK, NoCall, Lives

LEMMA TokenStep == TokenInv /\ [TokenNext]_tokenVars => TokenInv'
<1> SUFFICES ASSUME TokenInv, [TokenNext]_tokenVars PROVE TokenInv'
  OBVIOUS
<1> USE TokenAssumption DEF TokenInv, TokenTypeOK, NoCall, Lives
<1>1. ASSUME NEW c \in Callers, UseCached(c) PROVE TokenInv'
  BY <1>1 DEF UseCached, StillGood
<1>2. ASSUME NEW c \in Callers, StartExchange(c) PROVE TokenInv'
  BY <1>2 DEF StartExchange
<1>3. ASSUME NEW c \in Callers, EndCall(c) PROVE TokenInv'
  BY <1>3 DEF EndCall
<1>4. CASE HostIssues
  BY <1>4 DEF HostIssues
<1>5. CASE EndExchange
  <2>1. CASE UNCHANGED <<tok, calls, waited>>
    BY <1>5, <2>1 DEF EndExchange
  <2>2. CASE /\ issued > 0 /\ \E life \in {TokenLife, DefaultLife} : tok' = [left |-> issued, counted |-> life]
             /\ calls' = [calls EXCEPT ![holder] = issued]
             /\ waited' = [waited EXCEPT ![holder] = FALSE]
    <3>1. holder \in Callers /\ holder' = Free /\ issued' = 0 /\ issued \in 2..TokenLife
      BY <1>5, <2>2 DEF EndExchange
    <3>2. tok' \in [left: Lives, counted: Lives] /\ tok'.counted <= tok'.left + 1
      <4>1. TokenLife - 1 <= issued
        BY <2>2, <3>1, TokenAssumption
      <4>2. PICK life \in {TokenLife, DefaultLife} : tok' = [left |-> issued, counted |-> life]
        BY <2>2
      <4>3. life \in Lives /\ life <= issued + 1 /\ issued \in Lives
        BY <3>1, <4>1, <4>2, TokenAssumption DEF Lives
      <4> QED  BY <4>2, <4>3
    <3>3. \A c \in Callers : calls'[c] # NoCall =>
            calls'[c] >= 2 \/ (waited'[c] = TRUE /\ calls'[c] = 1)
      BY <2>2, <3>1
    <3> QED  BY <2>2, <3>1, <3>2, <3>3
  <2> QED  BY <1>5, <2>1, <2>2 DEF EndExchange
<1>6. CASE PassTime
  <2>1. /\ tok' \in [left: Lives, counted: Lives] /\ tok'.counted <= tok'.left + 1
        /\ issued' \in Lives /\ holder' = holder
    BY <1>6 DEF PassTime, Sooner
  <2>2. /\ calls' \in [Callers -> Lives \cup {NoCall}] /\ waited' \in [Callers -> BOOLEAN]
        /\ holder # Free => calls'[holder] = NoCall
    BY <1>6 DEF PassTime, Sooner
  <2>3. ASSUME NEW c \in Callers, calls'[c] # NoCall
        PROVE  calls'[c] >= 2 \/ (waited'[c] = TRUE /\ calls'[c] = 1)
    <3>1. calls[c] # NoCall /\ calls[c] \in Lives /\ waited[c] = FALSE /\ calls[c] >= 2
      BY <1>6, <2>3 DEF PassTime, Sooner
    <3>2. calls'[c] = calls[c] - 1
      BY <1>6, <3>1 DEF PassTime, Sooner
    <3>3. waited'[c] = TRUE
      BY <1>6, <3>1, Zenon DEF PassTime
    <3> QED  BY <3>1, <3>2, <3>3
  <2>4. ASSUME holder # Free, issued' > 0
        PROVE  issued' = TokenLife \/ (waited'[holder] = TRUE /\ issued' = TokenLife - 1)
    <3>1. holder \in Callers /\ waited[holder] = FALSE
      BY <1>6, <2>4 DEF PassTime
    <3>2. issued = TokenLife
      BY <1>6, <2>4, <3>1 DEF PassTime, Sooner
    <3>3. issued' = TokenLife - 1
      BY <1>6, <3>2 DEF PassTime, Sooner
    <3>4. waited'[holder] = TRUE
      BY <1>6, <2>4, <3>1 DEF PassTime
    <3> QED  BY <3>3, <3>4
  <2> QED  BY <2>1, <2>2, <2>3, <2>4
<1>7. CASE UNCHANGED tokenVars
  BY <1>7 DEF tokenVars
<1> QED  BY <1>1, <1>2, <1>3, <1>4, <1>5, <1>6, <1>7 DEF TokenNext

(* No call reaches the host with an expired token, for any number of       *)
(* callers and any lifetime of more than the margin (auth.go, Token).      *)
THEOREM TokenSuffices == TokenSpec => [](TokenTypeOK /\ TokenOutlivesCall)
<1>1. TokenInv => TokenOutlivesCall
  <2> SUFFICES ASSUME TokenInv, NEW c \in Callers PROVE calls[c] # 0
    BY DEF TokenOutlivesCall
  <2>1. CASE calls[c] = NoCall
    BY <2>1, TokenAssumption DEF NoCall
  <2>2. CASE calls[c] # NoCall
    BY <2>2, CallsAreNumbers DEF TokenInv
  <2> QED  BY <2>1, <2>2
<1>2. TokenInv => TokenTypeOK
  BY DEF TokenInv
<1> QED  BY TokenInitial, TokenStep, <1>1, <1>2, PTL DEF TokenSpec

-----------------------------------------------------------------------------
Paired(i) ==
  /\ returned[i] \in 1..Len(onHost)
  /\ i <= onHost[returned[i]]
  /\ onHost[returned[i]] # i => \E d \in lost : d < onHost[returned[i]]

RowsFromIds ==
  /\ \A c \in DOMAIN rows : c \in Nat /\ c > 0 /\ rows[c] = IdFor(c)
  /\ next < Inline + 3 => DOMAIN rows = {}

(* The ids are returned in the order of the posts and never overtake them; *)
(* as long as nothing is lost, the i-th of them is the i-th comment's.     *)
PostingInv ==
  /\ Inline \in Nat
  /\ next \in Nat /\ next > 0
  /\ onHost \in Seq(Nat) /\ lost \subseteq Nat
  /\ returned \in Seq(Nat) /\ Len(returned) < next
  /\ \A d \in lost : d < next
  /\ \A i \in 1..Len(returned) : Paired(i)
  /\ \A i, j \in 1..Len(returned) : returned[i] = returned[j] => i = j
  /\ next <= Inline /\ lost = {} => Len(returned) = next - 1
  /\ RowsFromIds

LEMMA PostingInitial == PostingInit => PostingInv
BY PostingAssumption DEF PostingInit, PostingInv, RowsFromIds

(* One more comment on the host, whose id is returned.                     *)
LEMMA OneMorePosted ==
  ASSUME PostingInv, next <= Inline, next' = next + 1, onHost' = Append(onHost, next),
         returned' = Append(returned, Len(onHost')), UNCHANGED <<lost, rows>>
  PROVE  PostingInv'
<1> DEFINE n == Len(returned)
           m == Len(onHost)
<1>1. /\ n \in Nat /\ m \in Nat /\ n < next /\ next \in Nat /\ Inline \in Nat /\ next > 0
      /\ onHost \in Seq(Nat) /\ returned \in Seq(Nat)
  BY DEF PostingInv
<1>2. /\ onHost' \in Seq(Nat) /\ Len(onHost') = m + 1 /\ onHost'[m + 1] = next
      /\ \A i \in 1..m : onHost'[i] = onHost[i]
  BY <1>1
<1>3. /\ returned' \in Seq(Nat) /\ Len(returned') = n + 1 /\ returned'[n + 1] = m + 1
      /\ \A i \in 1..n : returned'[i] = returned[i]
  BY <1>1, <1>2
<1>4. ASSUME NEW i \in 1..Len(returned')
      PROVE  Paired(i)'
  <2>1. CASE i \in 1..n
    <3>1. Paired(i)
      BY <2>1 DEF PostingInv, Paired
    <3>2. returned'[i] = returned[i] /\ onHost'[returned[i]] = onHost[returned[i]]
      BY <2>1, <3>1, <1>2, <1>3 DEF Paired
    <3> QED  BY <3>1, <3>2, <1>1, <1>2 DEF Paired
  <2>2. CASE i = n + 1
    <3>1. returned'[i] = m + 1 /\ onHost'[returned'[i]] = next
      BY <2>2, <1>2, <1>3
    <3>2. next # i => \E d \in lost : d < next
      BY <2>2, <1>1 DEF PostingInv
    <3> QED  BY <3>1, <3>2, <2>2, <1>1, <1>2 DEF Paired
  <2> QED  BY <2>1, <2>2, <1>1, <1>3
<1>5. ASSUME NEW i \in 1..Len(returned'), NEW j \in 1..Len(returned'), returned'[i] = returned'[j]
      PROVE  i = j
  <2>1. \A k \in 1..n : returned'[k] # m + 1
    BY <1>1, <1>3 DEF PostingInv, Paired
  <2>2. i \in 1..n \/ i = n + 1
    BY <1>1, <1>3
  <2>3. j \in 1..n \/ j = n + 1
    BY <1>1, <1>3
  <2>4. CASE i \in 1..n /\ j \in 1..n
    BY <1>3, <1>5, <2>4 DEF PostingInv
  <2> QED  BY <1>3, <1>5, <2>1, <2>2, <2>3, <2>4
<1>6. lost' = lost /\ lost \subseteq Nat /\ next' \in Nat /\ next' > 0 /\ Len(returned') < next'
  BY <1>1, <1>3 DEF PostingInv
<1>9. RowsFromIds'
  BY <1>1 DEF PostingInv, RowsFromIds
<1>7. \A d \in lost : d < next'
  BY <1>1 DEF PostingInv
<1>8. next' <= Inline /\ lost = {} => Len(returned') = next' - 1
  BY <1>1, <1>3 DEF PostingInv
<1> QED  BY <1>1, <1>2, <1>3, <1>4, <1>5, <1>6, <1>7, <1>8, <1>9 DEF PostingInv

(* A post that ends in an error, with or without effect.                   *)
LEMMA OneLost ==
  ASSUME PostingInv, next <= Inline, next' = next + 1, lost' = lost \cup {next},
         onHost' = Append(onHost, next) \/ onHost' = onHost, UNCHANGED <<returned, rows>>
  PROVE  PostingInv'
<1>1. /\ next \in Nat /\ Inline \in Nat /\ next > 0 /\ onHost \in Seq(Nat)
      /\ returned \in Seq(Nat) /\ Len(returned) < next
  BY DEF PostingInv
<1>2. /\ onHost' \in Seq(Nat) /\ Len(onHost') \in Nat /\ Len(onHost') >= Len(onHost)
      /\ \A i \in 1..Len(onHost) : onHost'[i] = onHost[i]
  <2>1. CASE onHost' = Append(onHost, next)
    BY <1>1, <2>1
  <2>2. CASE onHost' = onHost
    BY <1>1, <2>2
  <2> QED  BY <2>1, <2>2
<1>3. ASSUME NEW i \in 1..Len(returned')
      PROVE  Paired(i)'
  <2>1. Paired(i) /\ returned' = returned
    BY DEF PostingInv
  <2>2. returned[i] \in 1..Len(onHost') /\ onHost'[returned[i]] = onHost[returned[i]]
    BY <2>1, <1>1, <1>2 DEF Paired
  <2> QED  BY <2>1, <2>2 DEF Paired
<1>4. /\ lost' \subseteq Nat /\ lost' # {} /\ \A d \in lost' : d < next'
  BY <1>1 DEF PostingInv
<1>5. RowsFromIds'
  BY <1>1 DEF PostingInv, RowsFromIds
<1> QED  BY <1>1, <1>2, <1>3, <1>4, <1>5 DEF PostingInv

LEMMA PostingStep == PostingInv /\ [PostingNext]_postingVars => PostingInv'
<1> SUFFICES ASSUME PostingInv, [PostingNext]_postingVars PROVE PostingInv'
  OBVIOUS
<1>1. CASE PostInline
  BY <1>1, OneMorePosted, OneLost DEF PostInline
<1>2. CASE PostSummary
  <2>1. RowsFromIds'
    BY <1>2 DEF PostSummary, PostingInv, RowsFromIds
  <2>2. CASE next' = Inline + 2 /\ UNCHANGED returned
    BY <1>2, <2>1, <2>2 DEF PostSummary, PostingInv, Paired
  <2>3. CASE next' = Inline + 3 /\ returned' = <<>>
    BY <1>2, <2>1, <2>3 DEF PostSummary, PostingInv
  <2> QED  BY <1>2, <2>2, <2>3 DEF PostSummary
<1>3. CASE CreateReview
  <2>1. returned = <<>> /\ Len(returned) = 0
    BY <1>3 DEF CreateReview, PostingInv
  <2>2. [i \in 1..Inline |-> i] \in Seq(Nat)
    BY DEF PostingInv
  <2>3. RowsFromIds'
    BY <1>3 DEF CreateReview, PostingInv, RowsFromIds
  <2> QED  BY <1>3, <2>1, <2>2, <2>3 DEF CreateReview, PostingInv
<1>4. CASE PersistComments
  <2>1. RowsFromIds'
    BY <1>4 DEF PersistComments, PostingInv, RowsFromIds, IdFor
  <2> QED  BY <1>4, <2>1 DEF PersistComments, PostingInv, Paired
<1>5. CASE UNCHANGED postingVars
  BY <1>5 DEF postingVars, PostingInv, Paired, RowsFromIds, IdFor
<1> QED  BY <1>1, <1>2, <1>3, <1>4, <1>5 DEF PostingNext

(* A row holds another comment's id only after a lost post, and then an    *)
(* earlier one's, for reviews of any length (source.go:299 of              *)
(* vcsbitbucket, pipeline.go:308 of the review).                           *)
THEOREM LossesExplainMispairing == PostingSpec => []MispairedOnlyAfterLoss
<1>1. PostingInv => MispairedOnlyAfterLoss
  <2> SUFFICES ASSUME PostingInv, NEW c \in DOMAIN rows, rows[c] # 0
               PROVE  /\ onHost[rows[c]] # c => \E d \in lost : d < onHost[rows[c]]
                      /\ c <= onHost[rows[c]]
                      /\ \A d \in DOMAIN rows : rows[d] = rows[c] => d = c
    BY DEF MispairedOnlyAfterLoss
  <2>1. \A d \in DOMAIN rows : rows[d] # 0 => d \in 1..Len(returned) /\ rows[d] = returned[d]
    BY DEF PostingInv, RowsFromIds, IdFor
  <2> QED  BY <2>1 DEF PostingInv, Paired
<1> QED  BY PostingInitial, PostingStep, <1>1, PTL DEF PostingSpec

(* Where every post gets through, ids, comments and rows keep one order.   *)
IdsInOrder ==
  host = "bitbucket" /\ lost = {} =>
    /\ \A id \in 1..Len(onHost) : onHost[id] = id
    /\ next <= Inline + 1 => Len(onHost) = next - 1
    /\ \/ Len(returned) = Len(onHost) /\ \A i \in 1..Len(returned) : returned[i] = i
       \/ next = Inline + 3 /\ DOMAIN rows = {}

LEMMA IdsStep == PostingInv /\ IdsInOrder /\ [PostingNext]_postingVars => IdsInOrder'
<1> SUFFICES ASSUME PostingInv, IdsInOrder, [PostingNext]_postingVars, (host = "bitbucket" /\ lost = {})'
             PROVE  IdsInOrder'
  BY DEF IdsInOrder
<1>0. /\ Inline \in Nat /\ next \in Nat /\ onHost \in Seq(Nat) /\ returned \in Seq(Nat)
      /\ Len(onHost) \in Nat /\ Len(returned) \in Nat
  BY LenProperties DEF PostingInv
<1>1. host = "bitbucket" /\ lost = {}
  BY DEF PostingNext, PostInline, PostSummary, CreateReview, PersistComments, postingVars
<1>2. CASE PostInline
  <2>1. /\ next <= Inline /\ next' = next + 1 /\ rows' = rows
        /\ onHost' = Append(onHost, next) /\ returned' = Append(returned, Len(onHost'))
    BY <1>2 DEF PostInline
  <2>2. /\ Len(onHost) = next - 1 /\ Len(returned) = next - 1
        /\ \A i \in 1..(next - 1) : onHost[i] = i /\ returned[i] = i
    BY <1>0, <1>1, <2>1 DEF IdsInOrder
  <2>3. /\ Len(onHost') = next /\ onHost'[next] = next
        /\ \A i \in 1..(next - 1) : onHost'[i] = i
    BY <1>0, <2>1, <2>2, AppendProperties
  <2>4. /\ Len(returned') = next /\ returned'[next] = next
        /\ \A i \in 1..(next - 1) : returned'[i] = i
    BY <1>0, <2>1, <2>2, <2>3, AppendProperties
  <2> QED  BY <1>0, <2>1, <2>3, <2>4 DEF IdsInOrder
<1>3. CASE PostSummary
  <2>1. DOMAIN rows = {}
    BY <1>0, <1>3 DEF PostSummary, PostingInv, RowsFromIds
  <2> QED  BY <1>0, <1>1, <1>3, <2>1 DEF PostSummary, IdsInOrder
<1>4. CASE PersistComments
  BY <1>0, <1>1, <1>4 DEF PersistComments, IdsInOrder
<1>5. CASE CreateReview
  BY <1>1, <1>5 DEF CreateReview
<1>6. CASE UNCHANGED postingVars
  BY <1>6 DEF postingVars, IdsInOrder
<1> QED  BY <1>2, <1>3, <1>4, <1>5, <1>6 DEF PostingNext

(* The comment of a row is found by its id, as vcs.go of the ports says, if*)
(* the adapter returns ids and no post fails: what MCPostedIds finds needs *)
(* GitHub or a lost post.                                                  *)
THEOREM OnlyLossesHideComments ==
  PostingSpec => [](host = "bitbucket" /\ lost = {} => PostedCommentIsFound)
<1>1. PostingInit => IdsInOrder
  BY PostingAssumption DEF PostingInit, IdsInOrder
<1>2. PostingInv /\ IdsInOrder => (host = "bitbucket" /\ lost = {} => PostedCommentIsFound)
  <2> SUFFICES ASSUME PostingInv, IdsInOrder, host = "bitbucket", lost = {},
                      NEW id \in DOMAIN onHost, onHost[id] \in DOMAIN rows
               PROVE  rows[onHost[id]] = id
    BY DEF PostedCommentIsFound
  <2>1. DOMAIN onHost = 1..Len(onHost) /\ DOMAIN returned = 1..Len(returned)
    BY LenProperties DEF PostingInv
  <2>2. onHost[id] = id /\ returned[id] = id /\ id \in DOMAIN returned
    BY <2>1 DEF IdsInOrder
  <2> QED  BY <2>2 DEF PostingInv, RowsFromIds, IdFor
<1> QED  BY <1>1, <1>2, IdsStep, PostingInitial, PostingStep, PTL DEF PostingSpec

-----------------------------------------------------------------------------
(* The paged listings.  Of the pages asked for so far, the host's list now *)
(* shows the items up to position Passed.                                  *)

PassedTo(p) == (p - 1) * PageSize

Got == ToSet(gathered)

(* Gathered and about to be gathered again; passed over without having     *)
(* been gathered; places passed that no item holds any more.               *)
Again(k) == {there[i] : i \in {j \in DOMAIN there : j > k}} \cap Got
Missing(k) == {there[i] : i \in {j \in DOMAIN there : j <= k}} \ Got
Vacant(k) == IF Len(there) < k THEN k - Len(there) ELSE 0

ListingTyped ==
  /\ search \in BOOLEAN
  /\ there \in Seq(1..Items) /\ IsInjective(there)
  /\ gathered \in Seq(1..Items)
  /\ page \in Nat /\ listFailed \in BOOLEAN
  /\ removed \subseteq (1..Items) \ ToSet(there) /\ squeezed \in Nat
  /\ Got \subseteq ToSet(there) \cup removed

Repeats == Len(gathered) - Cardinality(Got)

ListingInv ==
  /\ ListingTyped
  /\ Repeats <= squeezed
  /\ page # 0 =>
       /\ Repeats + Cardinality(Again(PassedTo(page))) <= squeezed
       /\ Cardinality(Missing(PassedTo(page))) + Vacant(PassedTo(page)) <= Cardinality(removed) + squeezed

LEMMA InsertedAt ==
  ASSUME NEW S, NEW s \in Seq(S), NEW i \in 1..(Len(s) + 1), NEW e \in S
  PROVE  /\ InsertAt(s, i, e) \in Seq(S) /\ Len(InsertAt(s, i, e)) = Len(s) + 1
         /\ \A j \in 1..(Len(s) + 1) :
              InsertAt(s, i, e)[j] = IF j < i THEN s[j] ELSE IF j = i THEN e ELSE s[j - 1]
<1> DEFINE head == SubSeq(s, 1, i - 1)
           tail == SubSeq(s, i, Len(s))
<1>0. Len(s) \in Nat /\ i \in Nat /\ i >= 1 /\ i <= Len(s) + 1 /\ \A j \in 1..Len(s) : s[j] \in S
  BY LenProperties, ElementOfSeq
<1>1. head \in Seq(S) /\ Len(head) = i - 1 /\ \A j \in 1..(i - 1) : head[j] = s[j]
  <2>1. \A j \in 1..(i - 1) : s[j] \in S  BY <1>0
  <2>2. /\ head \in Seq(S) /\ Len(head) = IF 1 <= i - 1 THEN i - 1 - 1 + 1 ELSE 0
        /\ \A j \in 1..(i - 1 - 1 + 1) : head[j] = s[1 + j - 1]
    BY <1>0, <2>1, SubSeqProperties
  <2>3. \A j \in 1..(i - 1) : 1 + j - 1 = j /\ j \in 1..(i - 1 - 1 + 1)  BY <1>0
  <2> HIDE DEF head
  <2>4. Len(head) = i - 1  BY <1>0, <2>2
  <2>5. \A j \in 1..(i - 1) : head[j] = s[j]  BY <2>2, <2>3
  <2> QED  BY <2>2, <2>4, <2>5
<1>2. /\ tail \in Seq(S) /\ Len(tail) = Len(s) - i + 1
      /\ \A j \in 1..(Len(s) - i + 1) : tail[j] = s[i + j - 1]
  <2>1. \A j \in i..Len(s) : s[j] \in S  BY <1>0
  <2>2. /\ tail \in Seq(S) /\ Len(tail) = IF i <= Len(s) THEN Len(s) - i + 1 ELSE 0
        /\ \A j \in 1..(Len(s) - i + 1) : tail[j] = s[i + j - 1]
    BY <1>0, <2>1, SubSeqProperties
  <2> HIDE DEF tail
  <2> QED  BY <1>0, <2>2
<1> HIDE DEF head, tail
<1> DEFINE front == head \o <<e>>
<1>3. /\ front \in Seq(S) /\ Len(front) = i
      /\ \A j \in 1..i : front[j] = IF j < i THEN s[j] ELSE e
  <2>1. <<e>> \in Seq(S) /\ Len(<<e>>) = 1 /\ <<e>>[1] = e  OBVIOUS
  <2>2. /\ front \in Seq(S) /\ Len(front) = Len(head) + Len(<<e>>)
        /\ \A j \in 1..(Len(head) + Len(<<e>>)) :
             front[j] = IF j <= Len(head) THEN head[j] ELSE <<e>>[j - Len(head)]
    BY <1>1, <2>1, ConcatProperties
  <2> HIDE DEF front
  <2>3. Len(front) = i  BY <1>0, <1>1, <2>1, <2>2
  <2>4. \A j \in 1..i : front[j] = IF j <= i - 1 THEN head[j] ELSE <<e>>[j - (i - 1)]
    BY <1>0, <1>1, <2>1, <2>2
  <2>5. \A j \in 1..i : j < i => front[j] = s[j]  BY <1>0, <1>1, <2>4
  <2>6. i - (i - 1) = 1 /\ i \in 1..i /\ ~ (i <= i - 1)  BY <1>0
  <2>7. front[i] = e  BY <2>1, <2>4, <2>6
  <2> QED  BY <1>0, <2>2, <2>3, <2>5, <2>7
<1> HIDE DEF front
<1> DEFINE all == front \o tail
<1>4. /\ all \in Seq(S) /\ Len(all) = Len(front) + Len(tail)
      /\ \A j \in 1..(Len(front) + Len(tail)) :
           all[j] = IF j <= Len(front) THEN front[j] ELSE tail[j - Len(front)]
  BY <1>2, <1>3, ConcatProperties
<1>5. InsertAt(s, i, e) = all  BY DEF InsertAt, all, front, head, tail
<1> HIDE DEF all
<1>6. Len(all) = Len(s) + 1  BY <1>0, <1>2, <1>3, <1>4
<1>7. ASSUME NEW j \in 1..(Len(s) + 1)
      PROVE  all[j] = IF j < i THEN s[j] ELSE IF j = i THEN e ELSE s[j - 1]
  <2>1. j \in 1..(Len(front) + Len(tail))  BY <1>0, <1>2, <1>3
  <2>2. CASE j <= i
    <3>1. all[j] = front[j]  BY <1>3, <1>4, <2>1, <2>2
    <3> QED  BY <1>0, <1>3, <2>2, <3>1
  <2>3. CASE j > i
    <3>1. all[j] = tail[j - i]  BY <1>0, <1>3, <1>4, <2>1, <2>3
    <3>2. j - i \in 1..(Len(s) - i + 1) /\ i + (j - i) - 1 = j - 1  BY <1>0, <2>3
    <3>3. tail[j - i] = s[j - 1]  BY <1>2, <3>2
    <3> QED  BY <1>0, <2>3, <3>1, <3>3
  <2> QED  BY <1>0, <2>2, <2>3
<1> QED  BY <1>4, <1>5, <1>6, <1>7

LEMMA RemovedAt ==
  ASSUME NEW S, NEW s \in Seq(S), NEW i \in 1..Len(s)
  PROVE  /\ RemoveAt(s, i) \in Seq(S) /\ Len(RemoveAt(s, i)) = Len(s) - 1
         /\ \A j \in 1..(Len(s) - 1) : RemoveAt(s, i)[j] = IF j < i THEN s[j] ELSE s[j + 1]
<1> DEFINE head == SubSeq(s, 1, i - 1)
           tail == SubSeq(s, i + 1, Len(s))
<1>0. Len(s) \in Nat /\ i \in Nat /\ i >= 1 /\ i <= Len(s) /\ \A j \in 1..Len(s) : s[j] \in S
  BY LenProperties, ElementOfSeq
<1>1. head \in Seq(S) /\ Len(head) = i - 1 /\ \A j \in 1..(i - 1) : head[j] = s[j]
  <2>1. \A j \in 1..(i - 1) : s[j] \in S  BY <1>0
  <2>2. /\ head \in Seq(S) /\ Len(head) = IF 1 <= i - 1 THEN i - 1 - 1 + 1 ELSE 0
        /\ \A j \in 1..(i - 1 - 1 + 1) : head[j] = s[1 + j - 1]
    BY <1>0, <2>1, SubSeqProperties
  <2>3. \A j \in 1..(i - 1) : 1 + j - 1 = j /\ j \in 1..(i - 1 - 1 + 1)  BY <1>0
  <2> HIDE DEF head
  <2>4. Len(head) = i - 1  BY <1>0, <2>2
  <2>5. \A j \in 1..(i - 1) : head[j] = s[j]  BY <2>2, <2>3
  <2> QED  BY <2>2, <2>4, <2>5
<1>2. /\ tail \in Seq(S) /\ Len(tail) = Len(s) - i
      /\ \A j \in 1..(Len(s) - i) : tail[j] = s[i + j]
  <2>1. \A j \in (i + 1)..Len(s) : s[j] \in S  BY <1>0
  <2>2. /\ tail \in Seq(S) /\ Len(tail) = IF i + 1 <= Len(s) THEN Len(s) - (i + 1) + 1 ELSE 0
        /\ \A j \in 1..(Len(s) - (i + 1) + 1) : tail[j] = s[i + 1 + j - 1]
    BY <1>0, <2>1, SubSeqProperties
  <2>3. \A j \in 1..(Len(s) - i) : i + 1 + j - 1 = i + j /\ j \in 1..(Len(s) - (i + 1) + 1)
    BY <1>0
  <2> HIDE DEF tail
  <2> QED  BY <1>0, <2>2, <2>3
<1> HIDE DEF head, tail
<1> DEFINE all == head \o tail
<1>4. /\ all \in Seq(S) /\ Len(all) = Len(head) + Len(tail)
      /\ \A j \in 1..(Len(head) + Len(tail)) :
           all[j] = IF j <= Len(head) THEN head[j] ELSE tail[j - Len(head)]
  BY <1>1, <1>2, ConcatProperties
<1>5. RemoveAt(s, i) = all  BY DEF RemoveAt, all, head, tail
<1> HIDE DEF all
<1>6. Len(all) = Len(s) - 1  BY <1>0, <1>1, <1>2, <1>4
<1>7. ASSUME NEW j \in 1..(Len(s) - 1)
      PROVE  all[j] = IF j < i THEN s[j] ELSE s[j + 1]
  <2>1. j \in 1..(Len(head) + Len(tail))  BY <1>0, <1>1, <1>2
  <2>2. CASE j < i
    <3>1. j <= Len(head) /\ j \in 1..(i - 1)  BY <1>0, <1>1, <2>2
    <3> QED  BY <1>1, <1>4, <2>1, <2>2, <3>1
  <2>3. CASE j >= i
    <3>1. all[j] = tail[j - (i - 1)]  BY <1>0, <1>1, <1>4, <2>1, <2>3
    <3>2. j - (i - 1) \in 1..(Len(s) - i) /\ i + (j - (i - 1)) = j + 1  BY <1>0, <2>3
    <3>3. tail[j - (i - 1)] = s[j + 1]  BY <1>2, <3>2
    <3> QED  BY <1>0, <2>3, <3>1, <3>3
  <2> QED  BY <1>0, <2>2, <2>3
<1> QED  BY <1>4, <1>5, <1>6, <1>7


(* The items a sequence holds.                                            *)
LEMMA ItemsOf ==
  ASSUME NEW S, NEW s \in Seq(S)
  PROVE  /\ Len(s) \in Nat /\ DOMAIN s = 1..Len(s) /\ ToSet(s) \subseteq S
         /\ \A x : x \in ToSet(s) <=> \E j \in 1..Len(s) : s[j] = x
<1>1. Len(s) \in Nat /\ DOMAIN s = 1..Len(s) /\ \A j \in 1..Len(s) : s[j] \in S
  BY LenProperties, ElementOfSeq
<1> QED  BY <1>1 DEF ToSet

LEMMA ItemsConcatenated ==
  ASSUME NEW S, NEW p \in Seq(S), NEW q \in Seq(S)
  PROVE  /\ p \o q \in Seq(S) /\ Len(p \o q) = Len(p) + Len(q)
         /\ ToSet(p \o q) = ToSet(p) \cup ToSet(q)
<1> DEFINE r == p \o q
           n == Len(p)
           m == Len(q)
<1>1. n \in Nat /\ m \in Nat  BY LenProperties
<1>2. /\ r \in Seq(S) /\ Len(r) = n + m
      /\ \A j \in 1..n + m : r[j] = IF j <= n THEN p[j] ELSE q[j - n]
  BY ConcatProperties
<1> HIDE DEF r
<1>3. /\ \A x : x \in ToSet(p) <=> \E j \in 1..n : p[j] = x
      /\ \A x : x \in ToSet(q) <=> \E j \in 1..m : q[j] = x
      /\ \A x : x \in ToSet(r) <=> \E j \in 1..n + m : r[j] = x
  BY <1>2, ItemsOf
<1> HIDE DEF n, m
<1>4. ASSUME NEW x \in ToSet(p) PROVE x \in ToSet(r)
  <2>1. PICK j \in 1..n : p[j] = x  BY <1>3
  <2>2. j \in 1..n + m /\ j <= n  BY <1>1
  <2> QED  BY <1>2, <1>3, <2>1, <2>2
<1>5. ASSUME NEW x \in ToSet(q) PROVE x \in ToSet(r)
  <2>1. PICK j \in 1..m : q[j] = x  BY <1>3
  <2>2. j + n \in 1..n + m /\ ~ (j + n <= n) /\ (j + n) - n = j  BY <1>1
  <2>3. r[j + n] = q[j]  BY <1>2, <2>2
  <2> QED  BY <1>3, <2>1, <2>2, <2>3
<1>6. ASSUME NEW x \in ToSet(r) PROVE x \in ToSet(p) \cup ToSet(q)
  <2>1. PICK j \in 1..n + m : r[j] = x  BY <1>3, <1>6
  <2>2. CASE j <= n
    <3>1. j \in 1..n /\ p[j] = x  BY <1>1, <1>2, <2>1, <2>2
    <3> QED  BY <1>3, <3>1
  <2>3. CASE j > n
    <3>1. j - n \in 1..m /\ q[j - n] = x  BY <1>1, <1>2, <2>1, <2>3
    <3> QED  BY <1>3, <3>1
  <2> QED  BY <1>1, <2>2, <2>3
<1> QED  BY <1>2, <1>4, <1>5, <1>6 DEF n, m, r

(* Without repetitions there are as many items as places.                 *)
LEMMA ItemsCounted ==
  ASSUME NEW S, NEW s \in Seq(S), \A i, j \in 1..Len(s) : s[i] = s[j] => i = j
  PROVE  IsFiniteSet(ToSet(s)) /\ Cardinality(ToSet(s)) = Len(s)
<1>1. /\ Len(s) \in Nat /\ DOMAIN s = 1..Len(s)
      /\ \A x : x \in ToSet(s) <=> \E j \in 1..Len(s) : s[j] = x
  BY ItemsOf
<1>2. s \in [1..Len(s) -> ToSet(s)]
  <2>1. s \in [1..Len(s) -> S]  BY <1>1, LenProperties
  <2> QED  BY <1>1, <2>1
<1>3. s \in Surjection(1..Len(s), ToSet(s)) /\ s \in Injection(1..Len(s), ToSet(s))
  BY <1>1, <1>2 DEF Surjection, Injection, IsInjective
<1>4. IsFiniteSet(1..Len(s)) /\ Cardinality(1..Len(s)) = Len(s)  BY <1>1, FS_Interval
<1> QED  BY <1>3, <1>4, FS_Surjection

LEMMA PassedNat ==
  ASSUME NEW p \in Nat \ {0}
  PROVE  PassedTo(p) \in Nat /\ PassedTo(p + 1) = p * PageSize /\ p * PageSize \in Nat
         /\ PassedTo(p) <= p * PageSize
BY ListingAssumption DEF PassedTo

LEMMA ListingSizes ==
  ASSUME ListingTyped, NEW k \in Nat
  PROVE  /\ \A T : T \subseteq 1..Items => IsFiniteSet(T) /\ Cardinality(T) \in Nat
         /\ Got \subseteq 1..Items /\ Again(k) \subseteq 1..Items /\ Missing(k) \subseteq 1..Items
         /\ ToSet(there) \subseteq 1..Items
         /\ Len(there) \in Nat /\ DOMAIN there = 1..Len(there)
         /\ Len(gathered) \in Nat /\ Repeats \in Int /\ Vacant(k) \in Nat
<1>1. IsFiniteSet(1..Items)  BY ListingAssumption, FS_Interval
<1>2. \A T : T \subseteq 1..Items => IsFiniteSet(T) /\ Cardinality(T) \in Nat
  BY <1>1, FS_Subset, FS_CardinalityType
<1>3. /\ Got \subseteq 1..Items /\ ToSet(there) \subseteq 1..Items
      /\ Len(there) \in Nat /\ DOMAIN there = 1..Len(there) /\ Len(gathered) \in Nat
  BY ItemsOf DEF ListingTyped, Got
<1>4. Again(k) \subseteq 1..Items /\ Missing(k) \subseteq 1..Items
  BY <1>3 DEF Again, Missing, ToSet
<1>5. Cardinality(Got) \in Nat  BY <1>2, <1>3
<1> QED  BY <1>2, <1>3, <1>4, <1>5 DEF Repeats, Vacant

(* A subset that one more item covers.                                    *)
LEMMA OneMoreItem ==
  ASSUME NEW S, IsFiniteSet(S), NEW T, NEW x, T \subseteq S \cup {x}
  PROVE  Cardinality(T) <= Cardinality(S) + 1 /\ Cardinality(T) \in Nat /\ Cardinality(S) \in Nat
<1>1. IsFiniteSet(S \cup {x}) /\ Cardinality(S \cup {x}) <= Cardinality(S) + 1
  <2>1. CASE x \in S
    <3>1. S \cup {x} = S  BY <2>1
    <3>2. Cardinality(S) \in Nat  BY FS_CardinalityType
    <3> QED  BY <3>1, <3>2
  <2>2. CASE x \notin S
    <3>1. /\ IsFiniteSet(S \cup {x})
          /\ Cardinality(S \cup {x}) = Cardinality(S) + 1  BY <2>2, FS_AddElement
    <3>2. Cardinality(S) \in Nat  BY FS_CardinalityType
    <3> QED  BY <3>1, <3>2
  <2> QED  BY <2>1, <2>2
<1>2. IsFiniteSet(T) /\ Cardinality(T) <= Cardinality(S \cup {x})  BY <1>1, FS_Subset
<1>3. Cardinality(T) \in Nat /\ Cardinality(S) \in Nat /\ Cardinality(S \cup {x}) \in Nat
  BY <1>1, <1>2, FS_CardinalityType
<1> QED  BY <1>1, <1>2, <1>3

(* What a step of the host leaves of the listing so far.                  *)
LEMMA AddedKeeps ==
  ASSUME ListingInv, NEW i \in 1..(Len(there) + 1), Added(i)
  PROVE  ListingInv' /\ Repeats' <= squeezed
<1>1. ListingTyped /\ page \in Nat \ {0} /\ there \in Seq(1..Items)
  BY DEF ListingInv, ListingTyped, Added
<1>2. PICK k \in Nat : k = PassedTo(page)  BY <1>1, PassedNat
<1>3. PICK n \in Nat : n = Len(there)  BY <1>1, LenProperties
<1>4. PICK new \in 1..Items : 1..(new - 1) = ToSet(there) \cup removed /\ there' = InsertAt(there, i, new)
  BY DEF Added
<1>5. /\ \A T : T \subseteq 1..Items => IsFiniteSet(T) /\ Cardinality(T) \in Nat
      /\ Got \subseteq 1..Items /\ Again(k) \subseteq 1..Items /\ Missing(k) \subseteq 1..Items
      /\ Repeats \in Int /\ Vacant(k) \in Nat /\ DOMAIN there = 1..n /\ i \in 1..(n + 1)
  BY <1>1, <1>2, <1>3, ListingSizes
<1>6. /\ UNCHANGED <<search, gathered, page, listFailed, removed>>
      /\ squeezed' = IF i > n THEN squeezed ELSE squeezed + 1
      /\ squeezed \in Nat /\ Got' = Got /\ Repeats' = Repeats /\ PassedTo(page)' = k
  BY <1>1, <1>2, <1>3 DEF Added, ListingTyped, Got, Repeats, PassedTo
<1>7. new \notin ToSet(there) /\ new \notin removed /\ new \notin Got
  BY <1>1, <1>4 DEF ListingTyped
<1>8. /\ there' \in Seq(1..Items) /\ Len(there') = n + 1
      /\ \A j \in 1..(n + 1) : there'[j] = IF j < i THEN there[j] ELSE IF j = i THEN new ELSE there[j - 1]
      /\ DOMAIN there' = 1..(n + 1)
  <2>1. /\ there' \in Seq(1..Items) /\ Len(there') = n + 1
        /\ \A j \in 1..(n + 1) :
             there'[j] = IF j < i THEN there[j] ELSE IF j = i THEN new ELSE there[j - 1]
    <3>1. /\ InsertAt(there, i, new) \in Seq(1..Items) /\ Len(InsertAt(there, i, new)) = Len(there) + 1
          /\ \A j \in 1..(Len(there) + 1) : InsertAt(there, i, new)[j]
               = IF j < i THEN there[j] ELSE IF j = i THEN new ELSE there[j - 1]
      <4> DEFINE S == 1..Items
      <4>1. there \in Seq(S) /\ new \in S  BY <1>1
      <4> HIDE DEF S
      <4>2. /\ InsertAt(there, i, new) \in Seq(S) /\ Len(InsertAt(there, i, new)) = Len(there) + 1
            /\ \A j \in 1..(Len(there) + 1) : InsertAt(there, i, new)[j]
                 = IF j < i THEN there[j] ELSE IF j = i THEN new ELSE there[j - 1]
        BY <4>1, InsertedAt
      <4> QED  BY <4>2 DEF S
    <3> QED  BY <1>3, <1>4, <3>1
  <2> QED  BY <2>1, LenProperties
<1>9. \A j \in 1..n : there[j] # new /\ \A l \in 1..n : there[j] = there[l] => j = l
  BY <1>1, <1>5, <1>7 DEF ListingTyped, IsInjective, ToSet
<1>10. \A j \in 1..(n + 1) : j < i => j \in 1..n
  BY <1>5
<1>11. \A j \in 1..(n + 1) : j > i => j - 1 \in 1..n
  BY <1>5
<1>12. ListingTyped'
  <2>1. IsInjective(there')
    <3>1. ASSUME NEW j \in 1..(n + 1), NEW l \in 1..(n + 1), there'[j] = there'[l], j < l
          PROVE  FALSE
      <4>1. CASE l < i  BY <1>5, <1>8, <1>9, <1>10, <3>1, <4>1
      <4>2. CASE l = i  BY <1>5, <1>8, <1>9, <1>10, <3>1, <4>2
      <4>3. CASE l > i
        <5>1. there'[l] = there[l - 1] /\ l - 1 \in 1..n  BY <1>5, <1>8, <1>11, <4>3
        <5>2. CASE j < i  BY <1>5, <1>8, <1>9, <1>10, <3>1, <4>3, <5>1, <5>2
        <5>3. CASE j = i  BY <1>5, <1>8, <1>9, <3>1, <5>1, <5>3
        <5>4. CASE j > i  BY <1>5, <1>8, <1>9, <1>11, <3>1, <5>1, <5>4
        <5> QED  BY <1>5, <5>2, <5>3, <5>4
      <4> QED  BY <1>5, <4>1, <4>2, <4>3
    <3>2. \A j, l \in 1..(n + 1) : there'[j] = there'[l] => j = l  BY <1>5, <3>1
    <3> QED  BY <1>8, <3>2 DEF IsInjective
  <2>2. ToSet(there') \subseteq ToSet(there) \cup {new}
    <3>1. \A j \in 1..(n + 1) : there'[j] \in ToSet(there) \cup {new}
      <4> SUFFICES ASSUME NEW j \in 1..(n + 1) PROVE there'[j] \in ToSet(there) \cup {new}  OBVIOUS
      <4>1. \A l \in 1..n : there[l] \in ToSet(there)  BY <1>5 DEF ToSet
      <4>2. CASE j < i  BY <1>5, <1>8, <1>10, <4>1, <4>2
      <4>3. CASE j = i  BY <1>5, <1>8, <4>3
      <4>4. CASE j > i  BY <1>5, <1>8, <1>11, <4>1, <4>4
      <4> QED  BY <1>5, <4>2, <4>3, <4>4
    <3> QED  BY <1>8, <3>1 DEF ToSet
  <2>3. ToSet(there) \subseteq ToSet(there')
    <3>1. \A l \in 1..(n + 1) : there'[l] \in ToSet(there')  BY <1>8 DEF ToSet
    <3>2. \A j \in 1..n : there[j] \in ToSet(there')
      <4> SUFFICES ASSUME NEW j \in 1..n PROVE there[j] \in ToSet(there')  OBVIOUS
      <4>1. CASE j < i
        <5>1. j \in 1..(n + 1) /\ there'[j] = there[j]  BY <1>8, <4>1
        <5> QED  BY <3>1, <5>1
      <4>2. CASE j >= i
        <5>1. j + 1 \in 1..(n + 1) /\ j + 1 > i /\ (j + 1) - 1 = j  BY <1>5, <4>2
        <5>2. there'[j + 1] = there[j]  BY <1>5, <1>8, <5>1
        <5> QED  BY <3>1, <5>1, <5>2
      <4> QED  BY <1>5, <4>1, <4>2
    <3> QED  BY <1>5, <3>2 DEF ToSet
  <2>4. squeezed' \in Nat  BY <1>6
  <2> QED  BY <1>1, <1>6, <1>7, <1>8, <2>1, <2>2, <2>3, <2>4 DEF ListingTyped
<1>13. /\ Repeats <= squeezed /\ Repeats + Cardinality(Again(k)) <= squeezed
       /\ Cardinality(Missing(k)) + Vacant(k) <= Cardinality(removed) + squeezed
  BY <1>1, <1>2 DEF ListingInv
<1>14. Cardinality(removed) \in Nat /\ Cardinality(Again(k)) \in Nat /\ Cardinality(Missing(k)) \in Nat
       /\ IsFiniteSet(Again(k)) /\ IsFiniteSet(Missing(k))
  BY <1>1, <1>5 DEF ListingTyped
<1>15. Repeats' = Repeats /\ Repeats \in Int /\ Vacant(k) \in Nat /\ squeezed \in Nat
  BY <1>5, <1>6
<1>16. \A x \in Again(k)' : x \in Got /\ \E j \in 1..(n + 1) : j > k /\ there'[j] = x
  BY <1>6, <1>8 DEF Again
<1>17. \A x \in Missing(k)' : x \notin Got /\ \E j \in 1..(n + 1) : j <= k /\ there'[j] = x
  BY <1>6, <1>8 DEF Missing
<1>18. /\ \A j \in 1..n : j > k /\ there[j] \in Got => there[j] \in Again(k)
       /\ \A j \in 1..n : j <= k /\ there[j] \notin Got => there[j] \in Missing(k)
  BY <1>5 DEF Again, Missing
<1>19. CASE i <= n
  <2>1. squeezed' = squeezed + 1  BY <1>5, <1>6, <1>19
  <2>2. Again(k)' \subseteq Again(k) \cup {there[k]}
    <3> SUFFICES ASSUME NEW x \in Again(k)' PROVE x \in Again(k) \cup {there[k]}  OBVIOUS
    <3>1. PICK j \in 1..(n + 1) : j > k /\ there'[j] = x /\ x \in Got  BY <1>16
    <3>2. CASE j < i  BY <1>5, <1>8, <1>10, <1>18, <3>1, <3>2
    <3>3. CASE j = i  BY <1>5, <1>7, <1>8, <3>1, <3>3
    <3>4. CASE j > i
      <4>1. there[j - 1] = x /\ j - 1 \in 1..n  BY <1>5, <1>8, <1>11, <3>1, <3>4
      <4>2. j - 1 > k \/ j - 1 = k  BY <3>1
      <4> QED  BY <1>18, <3>1, <4>1, <4>2
    <3> QED  BY <1>5, <3>2, <3>3, <3>4
  <2>3. Missing(k)' \subseteq Missing(k) \cup {new}
    <3> SUFFICES ASSUME NEW x \in Missing(k)', x # new PROVE x \in Missing(k)  OBVIOUS
    <3>1. PICK j \in 1..(n + 1) : j <= k /\ there'[j] = x /\ x \notin Got  BY <1>17
    <3>2. CASE j < i  BY <1>5, <1>8, <1>10, <1>18, <3>1, <3>2
    <3>3. CASE j = i  BY <1>5, <1>8, <3>1, <3>3
    <3>4. CASE j > i
      <4>1. there[j - 1] = x /\ j - 1 \in 1..n /\ j - 1 <= k
        BY <1>2, <1>5, <1>8, <1>11, <3>1, <3>4
      <4> QED  BY <1>18, <3>1, <4>1
    <3> QED  BY <1>5, <3>2, <3>3, <3>4
  <2>4. Vacant(k)' <= Vacant(k) /\ Vacant(k)' \in Nat
    BY <1>2, <1>3, <1>5, <1>6, <1>8 DEF Vacant
  <2>5. /\ Cardinality(Again(k)') <= Cardinality(Again(k)) + 1 /\ Cardinality(Again(k)') \in Nat
        /\ Cardinality(Missing(k)') <= Cardinality(Missing(k)) + 1 /\ Cardinality(Missing(k)') \in Nat
    BY <1>14, <2>2, <2>3, OneMoreItem
  <2>6. /\ Repeats' <= squeezed /\ Repeats' <= squeezed'
        /\ Repeats' + Cardinality(Again(k)') <= squeezed'
        /\ Cardinality(Missing(k)') + Vacant(k)' <= Cardinality(removed') + squeezed'
    <3>1. Cardinality(removed') = Cardinality(removed)  BY <1>6
    <3>2. Repeats' <= squeezed /\ Repeats' <= squeezed'  BY <1>5, <1>6, <1>13, <2>1
    <3>3. Repeats' + Cardinality(Again(k)') <= squeezed'
      <4>1. Repeats + (Cardinality(Again(k)) + 1) <= squeezed + 1  BY <1>13, <1>14, <1>15
      <4>2. Repeats + Cardinality(Again(k)') <= squeezed + 1  BY <1>14, <1>15, <2>5, <4>1
      <4> QED  BY <1>15, <2>1, <4>2
    <3>4. Cardinality(Missing(k)') + Vacant(k)' <= Cardinality(removed') + squeezed'
      <4>1. Cardinality(Missing(k)') + Vacant(k)' <= Cardinality(Missing(k)) + 1 + Vacant(k)
        BY <1>14, <1>15, <2>4, <2>5
      <4>2. Cardinality(Missing(k)) + 1 + Vacant(k) <= Cardinality(removed) + (squeezed + 1)
        BY <1>13, <1>14, <1>15
      <4>3. Cardinality(Missing(k)') + Vacant(k)' <= Cardinality(removed) + (squeezed + 1)
        BY <1>14, <1>15, <2>4, <2>5, <4>1, <4>2
      <4> QED  BY <2>1, <3>1, <4>3
    <3> QED  BY <3>2, <3>3, <3>4
  <2> QED  BY <1>6, <1>12, <2>6 DEF ListingInv
<1>20. CASE i = n + 1
  <2>1. squeezed' = squeezed  BY <1>5, <1>6, <1>20
  <2>2. Again(k)' \subseteq Again(k)
    <3> SUFFICES ASSUME NEW x \in Again(k)' PROVE x \in Again(k)  OBVIOUS
    <3>1. PICK j \in 1..(n + 1) : j > k /\ there'[j] = x /\ x \in Got  BY <1>16
    <3>2. j # i  BY <1>5, <1>7, <1>8, <3>1
    <3>3. j < i  BY <1>5, <1>20, <3>2
    <3> QED  BY <1>5, <1>8, <1>10, <1>18, <3>1, <3>3
  <2>3. Cardinality(Again(k)') <= Cardinality(Again(k)) /\ Cardinality(Again(k)') \in Nat
    BY <1>5, <1>14, <2>2, FS_Subset, FS_CardinalityType
  <2>4. /\ Cardinality(Missing(k)') \in Nat /\ Vacant(k)' \in Nat
        /\ Cardinality(Missing(k)') + Vacant(k)' <= Cardinality(Missing(k)) + Vacant(k)
    <3>1. CASE n < k
      <4>1. Missing(k)' \subseteq Missing(k) \cup {new}
        <5> SUFFICES ASSUME NEW x \in Missing(k)', x # new PROVE x \in Missing(k)  OBVIOUS
        <5>1. PICK j \in 1..(n + 1) : j <= k /\ there'[j] = x /\ x \notin Got  BY <1>17
        <5>2. j < i  BY <1>5, <1>8, <1>20, <5>1
        <5> QED  BY <1>5, <1>8, <1>10, <1>18, <5>1, <5>2
      <4>2. Cardinality(Missing(k)') <= Cardinality(Missing(k)) + 1 /\ Cardinality(Missing(k)') \in Nat
        BY <1>14, <4>1, OneMoreItem
      <4>3. Vacant(k)' = Vacant(k) - 1  BY <1>2, <1>3, <1>5, <1>6, <1>8, <3>1 DEF Vacant
      <4>4. Vacant(k) >= 1  BY <1>3, <1>5, <3>1 DEF Vacant
      <4> QED  BY <1>5, <1>14, <4>2, <4>3, <4>4
    <3>2. CASE n >= k
      <4>1. Missing(k)' \subseteq Missing(k)
        <5> SUFFICES ASSUME NEW x \in Missing(k)' PROVE x \in Missing(k)  OBVIOUS
        <5>1. PICK j \in 1..(n + 1) : j <= k /\ there'[j] = x /\ x \notin Got  BY <1>17
        <5>2. j < i  BY <1>2, <1>5, <1>20, <3>2, <5>1
        <5> QED  BY <1>5, <1>8, <1>10, <1>18, <5>1, <5>2
      <4>2. Cardinality(Missing(k)') <= Cardinality(Missing(k)) /\ Cardinality(Missing(k)') \in Nat
        BY <1>14, <4>1, FS_Subset, FS_CardinalityType
      <4>3. Vacant(k)' = 0 /\ Vacant(k) = 0  BY <1>2, <1>3, <1>5, <1>6, <1>8, <3>2 DEF Vacant
      <4> QED  BY <1>14, <4>2, <4>3
    <3> QED  BY <1>2, <1>5, <3>1, <3>2
  <2>5. /\ Repeats' <= squeezed /\ Repeats' <= squeezed'
        /\ Repeats' + Cardinality(Again(k)') <= squeezed'
        /\ Cardinality(Missing(k)') + Vacant(k)' <= Cardinality(removed') + squeezed'
    <3>1. Cardinality(removed') = Cardinality(removed)  BY <1>6
    <3>2. Repeats' <= squeezed /\ Repeats' <= squeezed'  BY <1>6, <1>13, <2>1
    <3>3. Repeats' + Cardinality(Again(k)') <= squeezed'
      <4>1. Repeats + Cardinality(Again(k)') <= squeezed  BY <1>13, <1>14, <1>15, <2>3
      <4> QED  BY <1>15, <2>1, <4>1
    <3>4. Cardinality(Missing(k)') + Vacant(k)' <= Cardinality(removed) + squeezed
      BY <1>13, <1>14, <1>15, <2>4
    <3> QED  BY <2>1, <3>1, <3>2, <3>3, <3>4
  <2> QED  BY <1>6, <1>12, <2>5 DEF ListingInv
<1> QED  BY <1>5, <1>19, <1>20

LEMMA RemovedKeeps ==
  ASSUME ListingInv, NEW i \in DOMAIN there, Removed(i)
  PROVE  ListingInv' /\ Repeats' <= squeezed
<1>1. ListingTyped /\ page \in Nat \ {0} /\ there \in Seq(1..Items)
  BY DEF ListingInv, ListingTyped, Removed
<1>2. PICK k \in Nat : k = PassedTo(page)  BY <1>1, PassedNat
<1>3. PICK n \in Nat : n = Len(there)  BY <1>1, LenProperties
<1>4. /\ \A T : T \subseteq 1..Items => IsFiniteSet(T) /\ Cardinality(T) \in Nat
      /\ Again(k) \subseteq 1..Items /\ Missing(k) \subseteq 1..Items /\ ToSet(there) \subseteq 1..Items
      /\ DOMAIN there = 1..n /\ i \in 1..n
  BY <1>1, <1>2, <1>3, ListingSizes
<1>5. Repeats \in Int /\ Vacant(k) \in Nat /\ squeezed \in Nat
  BY <1>1, <1>2, ListingSizes DEF ListingTyped
<1>6. /\ UNCHANGED <<search, gathered, page, listFailed, squeezed>> /\ removed' = removed \cup {there[i]}
      /\ Got' = Got /\ Repeats' = Repeats /\ PassedTo(page)' = k
  BY <1>2 DEF Removed, Got, Repeats, PassedTo
<1>7. /\ there' \in Seq(1..Items) /\ Len(there') = n - 1 /\ DOMAIN there' = 1..(n - 1)
      /\ \A j \in 1..(n - 1) : there'[j] = IF j < i THEN there[j] ELSE there[j + 1]
  <2> DEFINE S == 1..Items
  <2>1. there \in Seq(S) /\ there' = RemoveAt(there, i) /\ i \in 1..Len(there)
    BY <1>1, <1>3, <1>4 DEF Removed
  <2> HIDE DEF S
  <2>2. /\ there' \in Seq(S) /\ Len(there') = Len(there) - 1
        /\ \A j \in 1..(Len(there) - 1) : there'[j] = IF j < i THEN there[j] ELSE there[j + 1]
    BY <2>1, RemovedAt
  <2>3. DOMAIN there' = 1..Len(there')  BY <2>2, LenProperties
  <2> QED  BY <1>3, <2>2, <2>3 DEF S
<1>8. \A j, l \in 1..n : there[j] = there[l] => j = l
  BY <1>1, <1>4 DEF ListingTyped, IsInjective
<1>9. \A j \in 1..(n - 1) : j \in 1..n /\ j + 1 \in 1..n /\ (j < i \/ j >= i)  BY <1>4
<1>10. there[i] \in 1..Items /\ there[i] \notin removed /\ there[i] \in ToSet(there)
  <2>1. there[i] \in ToSet(there)  BY <1>4 DEF ToSet
  <2> QED  BY <1>1, <1>4, <2>1 DEF ListingTyped
<1>11. \A x \in ToSet(there') : x \in ToSet(there) /\ x # there[i]
  <2> SUFFICES ASSUME NEW j \in 1..(n - 1) PROVE there'[j] \in ToSet(there) /\ there'[j] # there[i]
    BY <1>7 DEF ToSet
  <2>1. \A l \in 1..n : there[l] \in ToSet(there)  BY <1>4 DEF ToSet
  <2>2. CASE j < i  BY <1>4, <1>7, <1>8, <1>9, <2>1, <2>2
  <2>3. CASE j >= i
    <3>1. j + 1 \in 1..n /\ j + 1 # i /\ there'[j] = there[j + 1]  BY <1>4, <1>7, <1>9, <2>3
    <3> QED  BY <1>4, <1>8, <2>1, <3>1
  <2> QED  BY <1>9, <2>2, <2>3
<1>12. ToSet(there) \subseteq ToSet(there') \cup {there[i]}
  <2> SUFFICES ASSUME NEW j \in 1..n, j # i PROVE there[j] \in ToSet(there')
    BY <1>4 DEF ToSet
  <2>1. \A l \in 1..(n - 1) : there'[l] \in ToSet(there')  BY <1>7 DEF ToSet
  <2>2. CASE j < i
    <3>1. j \in 1..(n - 1) /\ there'[j] = there[j]  BY <1>4, <1>7, <2>2
    <3> QED  BY <2>1, <3>1
  <2>3. CASE j > i
    <3>1. j - 1 \in 1..(n - 1) /\ ~ (j - 1 < i) /\ (j - 1) + 1 = j  BY <1>4, <2>3
    <3>2. there'[j - 1] = there[j]  BY <1>7, <3>1
    <3> QED  BY <2>1, <3>1, <3>2
  <2> QED  BY <1>4, <2>2, <2>3
<1>13. ListingTyped'
  <2>1. IsInjective(there')
    <3>1. ASSUME NEW j \in 1..(n - 1), NEW l \in 1..(n - 1), there'[j] = there'[l], j < l
          PROVE  FALSE
      <4>1. CASE l < i  BY <1>4, <1>7, <1>8, <1>9, <3>1, <4>1
      <4>2. CASE j >= i  BY <1>4, <1>7, <1>8, <1>9, <3>1, <4>2
      <4>3. CASE j < i /\ l >= i
        <5>1. there'[j] = there[j] /\ there'[l] = there[l + 1] /\ j # l + 1  BY <1>7, <3>1, <4>3
        <5> QED  BY <1>8, <1>9, <3>1, <5>1
      <4> QED  BY <1>4, <3>1, <4>1, <4>2, <4>3
    <3>2. \A j, l \in 1..(n - 1) : there'[j] = there'[l] => j = l  BY <3>1
    <3> QED  BY <1>7, <3>2 DEF IsInjective
  <2>2. /\ gathered \in Seq(1..Items) /\ page \in Nat /\ listFailed \in BOOLEAN
        /\ removed \subseteq (1..Items) \ ToSet(there) /\ Got \subseteq ToSet(there) \cup removed
    BY <1>1 DEF ListingTyped
  <2>3. removed' \subseteq (1..Items) \ ToSet(there')  BY <1>6, <1>10, <1>11, <2>2
  <2>4. Got' \subseteq ToSet(there') \cup removed'  BY <1>6, <1>12, <2>2
  <2> QED  BY <1>1, <1>5, <1>6, <1>7, <2>1, <2>2, <2>3, <2>4 DEF ListingTyped
<1>14. /\ Repeats <= squeezed /\ Repeats + Cardinality(Again(k)) <= squeezed
       /\ Cardinality(Missing(k)) + Vacant(k) <= Cardinality(removed) + squeezed
  BY <1>1, <1>2 DEF ListingInv
<1>15. /\ Cardinality(removed) \in Nat /\ Cardinality(Again(k)) \in Nat /\ Cardinality(Missing(k)) \in Nat
       /\ IsFiniteSet(removed) /\ IsFiniteSet(Again(k)) /\ IsFiniteSet(Missing(k))
  <2>1. removed \subseteq 1..Items  BY <1>1 DEF ListingTyped
  <2> QED  BY <1>4, <2>1
<1>16. Cardinality(removed') = Cardinality(removed) + 1  BY <1>6, <1>10, <1>15, FS_AddElement
<1>17. /\ \A j \in 1..n : j > k /\ there[j] \in Got => there[j] \in Again(k)
       /\ \A j \in 1..n : j <= k /\ there[j] \notin Got => there[j] \in Missing(k)
  BY <1>4 DEF Again, Missing
<1>18. Again(k)' \subseteq Again(k)
  <2> SUFFICES ASSUME NEW j \in 1..(n - 1), j > k, there'[j] \in Got PROVE there'[j] \in Again(k)
    BY <1>6, <1>7 DEF Again
  <2>1. CASE j < i  BY <1>7, <1>9, <1>17, <2>1
  <2>2. CASE j >= i
    <3>1. j + 1 > k /\ there'[j] = there[j + 1]  BY <1>4, <1>7, <2>2
    <3> QED  BY <1>9, <1>17, <3>1
  <2> QED  BY <1>9, <2>1, <2>2
<1>19. Cardinality(Again(k)') <= Cardinality(Again(k)) /\ Cardinality(Again(k)') \in Nat
  BY <1>15, <1>18, FS_Subset, FS_CardinalityType
<1>20. /\ Cardinality(Missing(k)') \in Nat /\ Vacant(k)' \in Nat
       /\ Cardinality(Missing(k)') + Vacant(k)' <= Cardinality(Missing(k)) + Vacant(k) + 1
  <2>1. \A x \in Missing(k)' : x \notin Got /\ \E j \in 1..(n - 1) : j <= k /\ there'[j] = x
    BY <1>6, <1>7 DEF Missing
  <2>2. CASE n > k
    <3>1. Missing(k)' \subseteq Missing(k) \cup {there[k + 1]}
      <4> SUFFICES ASSUME NEW x \in Missing(k)' PROVE x \in Missing(k) \cup {there[k + 1]}  OBVIOUS
      <4>1. PICK j \in 1..(n - 1) : j <= k /\ there'[j] = x /\ x \notin Got  BY <2>1
      <4>2. CASE j < i  BY <1>7, <1>9, <1>17, <4>1, <4>2
      <4>3. CASE j >= i
        <5>1. x = there[j + 1] /\ (j + 1 <= k \/ j + 1 = k + 1)  BY <1>4, <1>7, <4>1, <4>3
        <5> QED  BY <1>9, <1>17, <4>1, <5>1
      <4> QED  BY <1>9, <4>2, <4>3
    <3>2. Cardinality(Missing(k)') <= Cardinality(Missing(k)) + 1 /\ Cardinality(Missing(k)') \in Nat
      BY <1>15, <3>1, OneMoreItem
    <3>3. Vacant(k)' = 0 /\ Vacant(k) = 0  BY <1>3, <1>7, <2>2 DEF Vacant
    <3> QED  BY <1>15, <3>2, <3>3
  <2>3. CASE n <= k
    <3>1. Missing(k)' \subseteq Missing(k)
      <4> SUFFICES ASSUME NEW x \in Missing(k)' PROVE x \in Missing(k)  OBVIOUS
      <4>1. PICK j \in 1..(n - 1) : j <= k /\ there'[j] = x /\ x \notin Got  BY <2>1
      <4>2. CASE j < i  BY <1>7, <1>9, <1>17, <4>1, <4>2
      <4>3. CASE j >= i
        <5>1. x = there[j + 1] /\ j + 1 <= k  BY <1>4, <1>7, <2>3, <4>1, <4>3
        <5> QED  BY <1>9, <1>17, <4>1, <5>1
      <4> QED  BY <1>9, <4>2, <4>3
    <3>2. Cardinality(Missing(k)') <= Cardinality(Missing(k)) /\ Cardinality(Missing(k)') \in Nat
      BY <1>15, <3>1, FS_Subset, FS_CardinalityType
    <3>3. Vacant(k)' = Vacant(k) + 1  BY <1>3, <1>4, <1>7, <2>3 DEF Vacant
    <3> QED  BY <1>5, <1>15, <3>2, <3>3
  <2> QED  BY <2>2, <2>3
<1>21. Repeats' <= squeezed /\ Repeats' <= squeezed'  BY <1>6, <1>14
<1>22. Repeats' + Cardinality(Again(k)') <= squeezed'
  BY <1>5, <1>6, <1>14, <1>15, <1>19
<1>23. Cardinality(Missing(k)') + Vacant(k)' <= Cardinality(removed') + squeezed'
  <2>1. Cardinality(Missing(k)) + Vacant(k) + 1 <= (Cardinality(removed) + 1) + squeezed
    BY <1>5, <1>14, <1>15
  <2>2. Cardinality(Missing(k)') + Vacant(k)' <= (Cardinality(removed) + 1) + squeezed
    BY <1>5, <1>15, <1>20, <2>1
  <2> QED  BY <1>6, <1>16, <2>2
<1> QED  BY <1>6, <1>13, <1>21, <1>22, <1>23 DEF ListingInv

(* What the last page leaves unread is what a search does not give.       *)
LEMMA BehindTheLastPage ==
  ASSUME NEW n \in Nat, n = Len(there), NEW p \in Nat \ {0}, ~(More(p) /\ (search => p < SearchPages)),
         NEW m \in Nat, m = IF More(p) THEN p * PageSize ELSE n
  PROVE  n - m <= CutOff /\ CutOff \in Nat
<1> DEFINE limit == SearchPages * PageSize
<1>1. limit \in Nat /\ PageSize \in Nat /\ SearchPages \in Nat  BY ListingAssumption
<1>2. CutOff = IF search /\ n > limit THEN n - limit ELSE 0  BY DEF CutOff, More
<1>3. CASE More(p)
  <2>1. search /\ p >= SearchPages  BY <1>1, <1>3
  <2>2. PICK d \in Nat : p = SearchPages + d
    <3>1. p - SearchPages \in Nat /\ p = SearchPages + (p - SearchPages)  BY <1>1, <2>1
    <3> QED  BY <3>1
  <2>3. p * PageSize = limit + d * PageSize /\ d * PageSize \in Nat  BY <1>1, <2>2
  <2> HIDE DEF limit
  <2>4. m = p * PageSize /\ n > p * PageSize  BY <1>3 DEF More
  <2>5. n > limit /\ n - m <= n - limit  BY <1>1, <2>3, <2>4
  <2> QED  BY <1>1, <1>2, <2>1, <2>5
<1>4. CASE ~More(p)
  <2> HIDE DEF limit
  <2>1. n - m = 0  BY <1>4
  <2>2. CASE search /\ n > limit
    <3>1. CutOff = n - limit /\ n - limit \in Nat  BY <1>1, <1>2, <2>2
    <3> QED  BY <2>1, <3>1
  <2>3. CASE ~(search /\ n > limit)
    <3>1. CutOff = 0  BY <1>2, <2>3
    <3> QED  BY <2>1, <3>1
  <2> QED  BY <2>2, <2>3
<1> QED  BY <1>3, <1>4

(* The next page, and what the listing comes to when it was the last one. *)
LEMMA FetchKeeps ==
  ASSUME ListingInv, FetchPage
  PROVE  /\ ListingInv' /\ Repeats' <= squeezed
         /\ page' = 0 /\ ~listFailed' =>
              Cardinality(ToSet(there) \ Got') <= Cardinality(removed) + squeezed + CutOff
<1>1. /\ ListingTyped /\ page \in Nat \ {0} /\ there \in Seq(1..Items) /\ gathered \in Seq(1..Items)
      /\ UNCHANGED <<search, there, removed, squeezed>>
  BY DEF ListingInv, ListingTyped, FetchPage
<1>2. PICK k \in Nat : k = PassedTo(page)  BY <1>1, PassedNat
<1>3. PICK n \in Nat : n = Len(there)  BY <1>1, LenProperties
<1>4. /\ \A T : T \subseteq 1..Items => IsFiniteSet(T) /\ Cardinality(T) \in Nat
      /\ Got \subseteq 1..Items /\ Again(k) \subseteq 1..Items /\ Missing(k) \subseteq 1..Items
      /\ ToSet(there) \subseteq 1..Items /\ DOMAIN there = 1..n
  BY <1>1, <1>2, <1>3, ListingSizes
<1>5. Repeats \in Int /\ Vacant(k) \in Nat /\ squeezed \in Nat /\ Len(gathered) \in Nat
  BY <1>1, <1>2, ListingSizes DEF ListingTyped
<1>6. /\ Repeats <= squeezed /\ Repeats + Cardinality(Again(k)) <= squeezed
      /\ Cardinality(Missing(k)) + Vacant(k) <= Cardinality(removed) + squeezed
  BY <1>1, <1>2 DEF ListingInv
<1>7. /\ removed \subseteq (1..Items) \ ToSet(there) /\ Got \subseteq ToSet(there) \cup removed
      /\ IsInjective(there) /\ \A j, l \in 1..n : there[j] = there[l] => j = l
  BY <1>1, <1>4 DEF ListingTyped, IsInjective
<1>8. CASE gathered' = <<>> /\ page' = 0 /\ listFailed' = TRUE
  <2>1. gathered' \in Seq(1..Items) /\ Len(gathered') = 0 /\ Got' = {}
    BY <1>8 DEF Got, ToSet
  <2>2. Repeats' = 0  BY <2>1, FS_EmptySet DEF Repeats
  <2>3. ListingTyped'  BY <1>1, <1>8, <2>1 DEF ListingTyped
  <2> QED  BY <1>1, <1>5, <1>8, <2>2, <2>3 DEF ListingInv
<1>9. CASE /\ gathered' = gathered \o PageAt(page)
           /\ page' = (IF HasNext(page) THEN page + 1 ELSE 0) /\ UNCHANGED listFailed
  <2>1. PICK m \in Nat : m = IF More(page) THEN page * PageSize ELSE n
    BY <1>1, PassedNat
  <2>2. More(page) => m < n /\ k <= m
    BY <1>1, <1>2, <1>3, <2>1, PassedNat DEF More
  <2>3. PageAt(page) = SubSeq(there, k + 1, m) /\ m <= n
    BY <1>2, <1>3, <2>1, <2>2 DEF PageAt, PassedTo
  <2> DEFINE new == PageAt(page)
             P == ToSet(new)
  <2>4. /\ new \in Seq(1..Items) /\ Len(new) = (IF k + 1 <= m THEN m - k ELSE 0)
        /\ \A j \in 1..(m - k) : new[j] = there[k + j]
    <3> DEFINE S == 1..Items
    <3>1. \A j \in (k + 1)..m : there[j] \in S
      <4>1. \A j \in 1..n : there[j] \in S  BY <1>1, <1>3, ElementOfSeq
      <4> QED  BY <2>3, <4>1
    <3> HIDE DEF S
    <3>2. /\ SubSeq(there, k + 1, m) \in Seq(S)
          /\ Len(SubSeq(there, k + 1, m)) = IF k + 1 <= m THEN m - (k + 1) + 1 ELSE 0
          /\ \A j \in 1..(m - (k + 1) + 1) : SubSeq(there, k + 1, m)[j] = there[k + 1 + j - 1]
      BY <3>1, SubSeqProperties
    <3>3. m - (k + 1) + 1 = m - k /\ \A j \in 1..(m - k) : k + 1 + j - 1 = k + j  OBVIOUS
    <3> QED  BY <2>3, <3>2, <3>3 DEF S
  <2> HIDE DEF new
  <2>5. Len(new) \in Nat /\ \A j \in 1..Len(new) : j \in 1..(m - k) /\ k + j \in 1..n /\ k + j > k /\ k + j <= m
    BY <2>3, <2>4
  <2>6. IsFiniteSet(P) /\ Cardinality(P) = Len(new) /\ P \subseteq 1..Items
        /\ \A x : x \in P <=> \E j \in 1..Len(new) : new[j] = x
    <3>1. \A j, l \in 1..Len(new) : new[j] = new[l] => j = l
      <4> SUFFICES ASSUME NEW j \in 1..Len(new), NEW l \in 1..Len(new), new[j] = new[l] PROVE j = l
        OBVIOUS
      <4>1. there[k + j] = there[k + l]  BY <2>4, <2>5
      <4>2. k + j = k + l  BY <1>7, <2>5, <4>1
      <4> QED  BY <4>2
    <3> QED  BY <2>4, <3>1, ItemsCounted, ItemsOf
  <2>7. \A x : x \in P <=> \E j \in 1..n : j > k /\ j <= m /\ there[j] = x
    <3>1. ASSUME NEW x \in P PROVE \E j \in 1..n : j > k /\ j <= m /\ there[j] = x
      <4>1. PICK j \in 1..Len(new) : new[j] = x  BY <2>6, <3>1
      <4> QED  BY <2>4, <2>5, <4>1
    <3>2. ASSUME NEW j \in 1..n, j > k, j <= m PROVE there[j] \in P
      <4>1. j - k \in 1..Len(new) /\ j - k \in 1..(m - k) /\ k + (j - k) = j  BY <2>4, <3>2
      <4>2. new[j - k] = there[j]  BY <2>4, <4>1
      <4> QED  BY <2>6, <4>1, <4>2
    <3> QED  BY <3>1, <3>2
  <2>8. gathered' \in Seq(1..Items) /\ Len(gathered') = Len(gathered) + Len(new) /\ Got' = Got \cup P
    <3>1. gathered' = gathered \o new  BY <1>9 DEF new
    <3> DEFINE S == 1..Items
    <3>2. gathered \in Seq(S) /\ new \in Seq(S)  BY <1>1, <2>4
    <3> HIDE DEF S
    <3>3. /\ gathered \o new \in Seq(S) /\ Len(gathered \o new) = Len(gathered) + Len(new)
          /\ ToSet(gathered \o new) = ToSet(gathered) \cup ToSet(new)
      BY <3>2, ItemsConcatenated
    <3> QED  BY <3>1, <3>3 DEF Got, S
  <2> HIDE DEF P
  <2>9. ListingTyped'
    <3>1. P \subseteq ToSet(there)  BY <1>4, <2>7 DEF ToSet
    <3>2. page' \in Nat /\ listFailed' \in BOOLEAN  BY <1>1, <1>9 DEF ListingTyped
    <3> QED  BY <1>1, <1>5, <1>7, <2>8, <3>1, <3>2 DEF ListingTyped
  <2>10. /\ Repeats' = Repeats + Cardinality(Got \cap P) /\ Cardinality(Got \cap P) \in Nat
         /\ IsFiniteSet(Got \cap P)
    <3>1. IsFiniteSet(Got) /\ Cardinality(Got) \in Nat /\ IsFiniteSet(P)  BY <1>4, <2>6
    <3>2. Got \cap P \subseteq 1..Items  BY <1>4
    <3>3. Cardinality(Got \cap P) \in Nat /\ IsFiniteSet(Got \cap P)  BY <1>4, <3>2
    <3>4. Cardinality(Got \cup P) = Cardinality(Got) + Cardinality(P) - Cardinality(Got \cap P)
      BY <3>1, FS_Union
    <3>5. Repeats' = (Len(gathered) + Len(new)) - Cardinality(Got \cup P)  BY <2>8 DEF Repeats
    <3>6. Repeats' = (Len(gathered) + Len(new))
                       - (Cardinality(Got) + Len(new) - Cardinality(Got \cap P))
      BY <2>6, <3>4, <3>5
    <3> QED  BY <1>5, <2>5, <3>1, <3>3, <3>6 DEF Repeats
  <2>11. Got \cap P \subseteq Again(k)
    BY <1>4, <2>7 DEF Again
  <2>12. IsFiniteSet(Again(k)) /\ Cardinality(Again(k)) \in Nat /\ Cardinality(Missing(k)) \in Nat
         /\ IsFiniteSet(Missing(k))
    BY <1>4
  <2>13. Repeats' <= squeezed
    <3>1. Cardinality(Got \cap P) <= Cardinality(Again(k))  BY <2>11, <2>12, FS_Subset
    <3> QED  BY <1>5, <1>6, <2>10, <2>12, <3>1
  <2>14. CASE HasNext(page)
    <3>0. More(page)  BY <2>14 DEF HasNext
    <3>1. page' = page + 1 /\ PassedTo(page') = m /\ m < n /\ k <= m
      <4>1. page' = page + 1 /\ PassedTo(page + 1) = m  BY <1>1, <1>9, <2>1, <2>14, <3>0, PassedNat
      <4> QED  BY <2>2, <3>0, <4>1
    <3>2. Again(m)' \subseteq Again(k) /\ Again(m)' \cap (Got \cap P) = {}
      <4> SUFFICES ASSUME NEW j \in 1..n, j > m, there[j] \in Got \cup P
                   PROVE  there[j] \in Again(k) /\ there[j] \notin P
        BY <1>1, <1>4, <2>8 DEF Again
      <4>1. there[j] \notin P  BY <1>7, <2>7
      <4>2. j > k  BY <3>1
      <4> QED  BY <1>4, <4>1, <4>2 DEF Again
    <3>3. Cardinality(Again(m)') + Cardinality(Got \cap P) <= Cardinality(Again(k))
          /\ Cardinality(Again(m)') \in Nat
      <4>1. IsFiniteSet(Again(m)') /\ Cardinality(Again(m)') \in Nat
        BY <2>12, <3>2, FS_Subset, FS_CardinalityType
      <4>2. Cardinality(Again(m)' \cup (Got \cap P))
              = Cardinality(Again(m)') + Cardinality(Got \cap P) - Cardinality(Again(m)' \cap (Got \cap P))
        BY <2>10, <4>1, FS_Union
      <4>3. Cardinality(Again(m)' \cap (Got \cap P)) = 0  BY <3>2, FS_EmptySet
      <4>4. Cardinality(Again(m)' \cup (Got \cap P)) = Cardinality(Again(m)') + Cardinality(Got \cap P) - 0
        BY <4>2, <4>3
      <4>5. Cardinality(Again(m)' \cup (Got \cap P)) <= Cardinality(Again(k))
        BY <2>11, <2>12, <3>2, FS_Subset
      <4> QED  BY <2>10, <4>1, <4>4, <4>5
    <3>4. Repeats' + Cardinality(Again(m)') <= squeezed'
      <4>1. Repeats + Cardinality(Got \cap P) + Cardinality(Again(m)') <= squeezed
        BY <1>5, <1>6, <2>10, <2>12, <3>3
      <4> QED  BY <1>1, <2>10, <4>1
    <3>5. Missing(m)' \subseteq Missing(k)
      <4> SUFFICES ASSUME NEW j \in 1..n, j <= m, there[j] \notin Got \cup P
                   PROVE  there[j] \in Missing(k)
        BY <1>1, <1>4, <2>8 DEF Missing
      <4>1. j <= k  BY <2>7
      <4> QED  BY <1>4, <4>1 DEF Missing
    <3>6. Cardinality(Missing(m)') <= Cardinality(Missing(k)) /\ Cardinality(Missing(m)') \in Nat
      BY <2>12, <3>5, FS_Subset, FS_CardinalityType
    <3>7. Vacant(m)' = 0  BY <1>1, <1>3, <3>1 DEF Vacant
    <3>8. Cardinality(Missing(m)') + Vacant(m)' <= Cardinality(removed') + squeezed'
      <4>1. Cardinality(removed) \in Nat  BY <1>4, <1>7
      <4>2. Cardinality(Missing(m)') <= Cardinality(removed) + squeezed
        BY <1>5, <1>6, <2>12, <3>6, <4>1
      <4> QED  BY <1>1, <3>6, <3>7, <4>2
    <3>9. Repeats' <= squeezed'  BY <1>1, <2>13
    <3>10. page' # 0  BY <1>1, <3>1
    <3> QED  BY <2>9, <2>13, <3>1, <3>4, <3>8, <3>9, <3>10 DEF ListingInv
  <2>15. CASE ~HasNext(page)
    <3>1. page' = 0  BY <1>9, <2>15
    <3> DEFINE Rest == {there[j] : j \in (m + 1)..n}
    <3>2. ToSet(there) \ Got' \subseteq Missing(k) \cup Rest
      <4> SUFFICES ASSUME NEW j \in 1..n, there[j] \notin Got \cup P
                   PROVE  there[j] \in Missing(k) \cup Rest
        BY <1>4, <2>8 DEF ToSet
      <4>1. CASE j <= k  BY <1>4, <4>1 DEF Missing
      <4>2. CASE j > k
        <5>1. j > m  BY <2>7, <4>2
        <5> QED  BY <5>1
      <4> QED  BY <4>1, <4>2
    <3>3. IsFiniteSet(Rest) /\ Cardinality(Rest) \in Nat /\ Cardinality(Rest) <= n - m
      <4>1. IsFiniteSet((m + 1)..n) /\ Cardinality((m + 1)..n) = n - m
        <5>1. IsFiniteSet((m + 1)..n) /\ Cardinality((m + 1)..n) = IF m + 1 > n THEN 0 ELSE n - (m + 1) + 1
          BY FS_Interval
        <5> QED  BY <2>3, <5>1
      <4>2. [j \in (m + 1)..n |-> there[j]] \in Surjection((m + 1)..n, Rest)
        BY DEF Surjection
      <4> QED  BY <4>1, <4>2, FS_Surjection, FS_CardinalityType
    <3>4. n - m <= CutOff /\ CutOff \in Nat
      BY <1>1, <1>3, <2>1, <2>15, BehindTheLastPage DEF HasNext
    <3> HIDE DEF Rest
    <3>5. /\ IsFiniteSet(Missing(k) \cup Rest) /\ Cardinality(Missing(k) \cup Rest) \in Nat
          /\ Cardinality(Missing(k) \cup Rest) <= Cardinality(Missing(k)) + Cardinality(Rest)
      <4>1. /\ IsFiniteSet(Missing(k) \cup Rest)
            /\ Cardinality(Missing(k) \cup Rest)
                 = Cardinality(Missing(k)) + Cardinality(Rest) - Cardinality(Missing(k) \cap Rest)
        BY <2>12, <3>3, FS_Union
      <4>2. Cardinality(Missing(k) \cap Rest) \in Nat  BY <2>12, FS_Intersection, FS_CardinalityType
      <4>3. Cardinality(Missing(k) \cup Rest) \in Nat  BY <4>1, FS_CardinalityType
      <4> QED  BY <2>12, <3>3, <4>1, <4>2, <4>3
    <3>6. Cardinality(ToSet(there) \ Got') <= Cardinality(Missing(k) \cup Rest) /\ Cardinality(ToSet(there) \ Got') \in Nat
      BY <3>2, <3>5, FS_Subset, FS_CardinalityType
    <3>7. Cardinality(removed) \in Nat  BY <1>4, <1>7
    <3>8. Cardinality(Missing(k)) <= Cardinality(removed) + squeezed  BY <1>5, <1>6, <2>12, <3>7
    <3>9. Cardinality(ToSet(there) \ Got') <= Cardinality(removed) + squeezed + CutOff
      <4>1. Cardinality(Missing(k) \cup Rest) <= Cardinality(removed) + squeezed + CutOff
        BY <1>5, <2>1, <2>12, <3>3, <3>4, <3>5, <3>7, <3>8
      <4> QED  BY <1>5, <3>4, <3>5, <3>6, <3>7, <4>1
    <3> QED  BY <1>1, <2>9, <2>13, <3>1, <3>9 DEF ListingInv
  <2> QED  BY <2>14, <2>15
<1> QED  BY <1>8, <1>9 DEF FetchPage

LEMMA ListingInitial == ListingInit => ListingInv
<1> SUFFICES ASSUME ListingInit PROVE ListingInv  OBVIOUS
<1>1. PICK n \in 0..Items : there = [i \in 1..n |-> i]  BY DEF ListingInit
<1>2. search \in BOOLEAN /\ gathered = <<>> /\ page = 1 /\ listFailed = FALSE /\ removed = {} /\ squeezed = 0
  BY DEF ListingInit
<1>3. n \in Nat /\ n <= Items /\ DOMAIN there = 1..n /\ \A i \in 1..n : there[i] = i
  BY <1>1, ListingAssumption
<1>4. there \in Seq(1..Items) /\ Len(there) = n
  <2> DEFINE S == 1..Items
  <2>1. there \in [1..n -> S]  BY <1>1, <1>3, ListingAssumption
  <2> HIDE DEF S
  <2>2. \A m \in Nat : \A f \in [1..m -> S] : f \in Seq(S) /\ Len(f) = m  OBVIOUS
  <2> QED  BY <1>3, <2>1, <2>2 DEF S
<1>5. Got = {} /\ Repeats = 0
  <2>1. Got = {}  BY <1>2 DEF Got, ToSet
  <2> QED  BY <1>2, <2>1, FS_EmptySet DEF Repeats
<1>6. ListingTyped
  <2>1. IsInjective(there)  BY <1>3 DEF IsInjective
  <2>2. gathered \in Seq(1..Items)  BY <1>2
  <2> QED  BY <1>2, <1>4, <1>5, <2>1, <2>2 DEF ListingTyped
<1>7. PassedTo(page) = 0
  <2>1. PassedTo(page) = 0 * PageSize  BY <1>2 DEF PassedTo
  <2> QED  BY <2>1, ListingAssumption
<1>8. Cardinality(Again(0)) = 0  BY <1>5, FS_EmptySet DEF Again
<1>9. Missing(0) = {}  BY <1>3 DEF Missing
<1>10. Cardinality(Missing(0)) = 0 /\ Vacant(0) = 0 /\ Cardinality(removed) = 0
  <2>1. Vacant(0) = 0  BY <1>3, <1>4 DEF Vacant
  <2> QED  BY <1>2, <1>9, <2>1, FS_EmptySet
<1> QED  BY <1>2, <1>5, <1>6, <1>7, <1>8, <1>10 DEF ListingInv

LEMMA ListingStep ==
  ListingInv /\ [ListingNext]_listingVars =>
      /\ ListingInv'
      /\ Repeats' <= squeezed
      /\ page # 0 /\ page' = 0 /\ ~listFailed' =>
           Cardinality(ToSet(there) \ Got') <= Cardinality(removed) + squeezed + CutOff
<1> SUFFICES ASSUME ListingInv, [ListingNext]_listingVars
             PROVE  /\ ListingInv'
                    /\ Repeats' <= squeezed
                    /\ page # 0 /\ page' = 0 /\ ~listFailed' =>
                         Cardinality(ToSet(there) \ Got') <= Cardinality(removed) + squeezed + CutOff
  OBVIOUS
<1>1. CASE FetchPage  BY <1>1, FetchKeeps
<1>2. ASSUME NEW i \in 1..(Len(there) + 1), Added(i)
      PROVE  ListingInv' /\ Repeats' <= squeezed /\ page' = page
  BY <1>2, AddedKeeps DEF Added
<1>3. ASSUME NEW i \in DOMAIN there, Removed(i)
      PROVE  ListingInv' /\ Repeats' <= squeezed /\ page' = page
  BY <1>3, RemovedKeeps DEF Removed
<1>4. CASE UNCHANGED listingVars
  BY <1>4 DEF listingVars, ListingInv, ListingTyped, Repeats, Got, Again, Missing, Vacant, PassedTo, CutOff, More
<1> QED  BY <1>1, <1>2, <1>3, <1>4 DEF ListingNext

(* A listing without an error misses an item the host still lists, or      *)
(* names one again, at most once for each that came in before others or,   *)
(* for a miss, was removed while the adapter went from page to page        *)
(* (ListPrComments and the other paged calls), and misses what lies beyond *)
(* the 1000 results a search gives (GitHub's SearchClosedPrs).             *)
THEOREM ListingsMissFew == ListingSpec => ListingMissesFew
<1>1. ListingInv /\ [ListingNext]_listingVars =>
        [ /\ Len(gathered') - Cardinality(ToSet(gathered')) <= squeezed
          /\ page # 0 /\ page' = 0 /\ ~listFailed' =>
               Cardinality(ToSet(there) \ ToSet(gathered')) <= Cardinality(removed) + squeezed + CutOff ]_listingVars
  BY ListingStep DEF Repeats, Got
<1> QED  BY ListingInitial, ListingStep, <1>1, PTL DEF ListingSpec, ListingMissesFew

=============================================================================
