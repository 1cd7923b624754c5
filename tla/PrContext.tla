------------------------------ MODULE PrContext -------------------------------
(***************************************************************************)
(* What operators add to the prompt: instruction sets assigned to          *)
(* repositories, and ad-hoc notes on a pull request, written by the admin  *)
(* UI and by the /context command, pruned by the janitor                   *)
(* (internal/admin/handlers_context.go, storepostgres/context.go).         *)
(***************************************************************************)
EXTENDS Naturals, Sequences, FiniteSets, SequencesExt

CONSTANTS
  CtxRepos,   \* repositories
  InsSets,    \* ids of instruction sets
  NoSet,      \* no deletion is under way
  MaxItems,   \* context.ad_hoc_max_items
  MaxNotes    \* bound on the notes of the pull request

ASSUME ContextAssumption ==
  /\ NoSet \notin InsSets
  /\ MaxItems \in Nat \ {0} /\ MaxNotes \in Nat

VARIABLES
  insSets,   \* instruction_sets
  assigned,  \* repo_instruction_sets: repository -> set, a partial function
  deleting,  \* the set an open transaction deletes, or NoSet
  locked,    \* the assignments that transaction has deleted
  notes      \* pr_context_items of the pull request, oldest first; TRUE: the body is blank

contextVars == <<insSets, assigned, deleting, locked, notes>>

-----------------------------------------------------------------------------
ContextTypeOK ==
  /\ insSets \subseteq InsSets
  /\ DOMAIN assigned \subseteq CtxRepos /\ \A r \in DOMAIN assigned : assigned[r] \in insSets
  /\ deleting \in InsSets \cup {NoSet}
  /\ locked \subseteq CtxRepos /\ \A r \in locked : r \in DOMAIN assigned /\ assigned[r] = deleting
  /\ notes \in Seq(BOOLEAN) /\ Len(notes) <= MaxNotes

ContextInit == insSets = {} /\ assigned = <<>> /\ deleting = NoSet /\ locked = {} /\ notes = <<>>

Without(repos) == [r \in DOMAIN assigned \ repos |-> assigned[r]]
AssignedTo(s) == {r \in DOMAIN assigned : assigned[r] = s}

(* UpsertInstructionSet; while a deletion of the set is open, the update   *)
(* touches the row before the deletion does, or waits for its end.         *)
UpsertSet(s) ==
  /\ insSets' = insSets \cup {s}
  /\ UNCHANGED <<assigned, deleting, locked, notes>>

(* AssignSetToRepo: the foreign key wants the set, and a row the open      *)
(* transaction has deleted cannot be replaced before its end.              *)
Assign(r, s) ==
  /\ s \in insSets /\ r \notin locked
  /\ assigned' = [q \in DOMAIN assigned \cup {r} |-> IF q = r THEN s ELSE assigned[q]]
  /\ UNCHANGED <<insSets, deleting, locked, notes>>

Unassign(r) ==
  /\ r \notin locked
  /\ assigned' = Without({r})
  /\ UNCHANGED <<insSets, deleting, locked, notes>>

(* Mutant: the two deletions are statements of their own.                  *)
DeleteAssignmentsAtOnce(s) ==
  /\ deleting = NoSet
  /\ deleting' = s /\ locked' = {}
  /\ assigned' = Without(AssignedTo(s))
  /\ UNCHANGED <<insSets, notes>>

(* DeleteInstructionSet, first statement: nobody sees its effect yet.      *)
DeleteAssignments(s) ==
  /\ deleting = NoSet
  /\ deleting' = s /\ locked' = AssignedTo(s)
  /\ UNCHANGED <<insSets, assigned, notes>>

(* Its second statement and the commit.  An assignment made since the first*)
(* fails the foreign key, as the connection may: all is rolled back.       *)
DeleteSet ==
  /\ deleting # NoSet
  /\ \/ /\ AssignedTo(deleting) = locked
        /\ insSets' = insSets \ {deleting}
        /\ assigned' = Without(locked)
     \/ UNCHANGED <<insSets, assigned>>
  /\ deleting' = NoSet /\ locked' = {}
  /\ UNCHANGED notes

(* A note: the form and the command refuse a blank text, a file or a URL   *)
(* may turn out blank.  The host delivers a /context command again.        *)
AppendNote(blank) ==
  /\ Len(notes) < MaxNotes
  /\ notes' = Append(notes, blank)
  /\ UNCHANGED <<insSets, assigned, deleting, locked>>

DeleteNote(i) ==
  /\ notes' = RemoveAt(notes, i)
  /\ UNCHANGED <<insSets, assigned, deleting, locked>>

(* DeletePrContextBefore: the janitor removes what is older than a cutoff. *)
DeleteNotesBefore(i) ==
  /\ notes' = SubSeq(notes, i + 1, Len(notes))
  /\ UNCHANGED <<insSets, assigned, deleting, locked>>

ContextNext ==
  \/ \E s \in InsSets : UpsertSet(s) \/ DeleteAssignments(s) \/ \E r \in CtxRepos : Assign(r, s)
  \/ \E r \in CtxRepos : Unassign(r)
  \/ DeleteSet
  \/ \E blank \in BOOLEAN : AppendNote(blank)
  \/ \E i \in DOMAIN notes : DeleteNote(i) \/ DeleteNotesBefore(i)

ContextSpec == ContextInit /\ [][ContextNext]_contextVars

-----------------------------------------------------------------------------
(* The ad-hoc provider's Fetch: of the newest MaxItems, those with a body. *)
FetchNotes == {i \in DOMAIN notes : i > Len(notes) - MaxItems /\ ~notes[i]}

NoteYieldsToNewer ==
  \A i \in DOMAIN notes : notes[i] \/ i \in FetchNotes \/ Cardinality({j \in DOMAIN notes : j > i}) >= MaxItems

(* A repository loses a set by its own unassignment or re-assignment, or   *)
(* because the set is gone: a deletion that an assignment made meanwhile   *)
(* or a lost connection defeats takes no repository's instructions away.   *)
(* And a note with a body is in the prompt unless MaxItems newer ones,     *)
(* blank or not, have taken its place.                                     *)
ContextIsKept ==
  [][ /\ \A s \in insSets' :
           Cardinality({r \in AssignedTo(s) : r \notin DOMAIN assigned' \/ assigned'[r] # s}) <= 1
      /\ NoteYieldsToNewer' ]_contextVars
=============================================================================
