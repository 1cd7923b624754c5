---------------------------- MODULE ReviewPrompt ----------------------------
(***************************************************************************)
(* What a review sends the model and how it calls it: retrieval, the       *)
(* context providers, the sections dropped to fit the token cap, and the   *)
(* two tiers of tries with a backoff the job's context can cut short       *)
(* (review/pipeline.go, internal/core/prompt and internal/core/llm).       *)
(***************************************************************************)
EXTENDS Naturals, Sequences, SequencesExt, FiniteSetsExt

CONSTANTS
  Providers,   \* the context providers, in the order pickContextProviders lists them
  MaxRefs,     \* the references one provider finds for a pull request
  TokenCaps,   \* the caps Assemble may be given
  DiffSizes,   \* tokens of the diff and of what is always sent
  MaxAttempts  \* tries of one tier

Refs == 1 .. MaxRefs

PriorityOf == [instructions |-> 50, adhoc |-> 40, jira |-> 60, github |-> 55, linear |-> 60]

ASSUME PromptAssumption ==
  /\ Providers \in Seq(DOMAIN PriorityOf) /\ IsInjective(Providers)
  /\ MaxRefs \in Nat /\ MaxAttempts \in Nat \ {0}
  /\ TokenCaps \subseteq Nat /\ TokenCaps # {} /\ DiffSizes \subseteq Nat

VARIABLES
  step,      \* of Run: "retrieve", "context", "sort", "assemble", then the retry loop and "done"
  sections,  \* the tokens of every section
  fetched,   \* fetched[p]: the references p has resolved with a text in them
  context,   \* the items, as <<provider, reference>>
  sorted,    \* how many of them the insertion sort has been through
  kept,      \* the sections Assemble still includes
  cap,       \* tokenCap
  tier,      \* "primary" or "fallback"
  tries,     \* the calls made in every tier
  ctxDone,   \* the job's context is cancelled
  lateCalls  \* calls started since

promptVars == <<step, sections, fetched, context, sorted, kept, cap, tier, tries, ctxDone, lateCalls>>
inputVars == <<sections, fetched, context, sorted, kept, cap>>
chatVars == <<tier, tries, ctxDone, lateCalls>>

-----------------------------------------------------------------------------
Optional == <<"reviews", "related", "context", "rules">>   \* in the order they are dropped
Sections == ToSet(Optional) \cup {"diff"}
ProviderSet == ToSet(Providers)
Tiers == {"primary", "fallback"}

PromptTypeOK ==
  /\ step \in {"retrieve", "context", "sort", "assemble", "ready", "calling", "backoff", "tierEnds", "done"}
  /\ sections \in [Sections -> Nat]
  /\ fetched \in [ProviderSet -> SUBSET Refs]
  /\ context \in Seq(ProviderSet \X Refs) /\ Len(context) <= Len(Providers) * MaxRefs
  /\ sorted \in 0 .. Len(context)
  /\ kept \subseteq Sections /\ cap \in TokenCaps
  /\ tier \in Tiers
  /\ tries \in [Tiers -> 0 .. MaxAttempts]
  /\ ctxDone \in BOOLEAN /\ lateCalls \in 0 .. 2 * MaxAttempts

PromptInit ==
  /\ step = "retrieve"
  /\ sections = [s \in Sections |-> 0] /\ kept = Sections
  /\ fetched = [p \in ProviderSet |-> {}] /\ context = <<>> /\ sorted = 0
  /\ cap = CHOOSE n \in TokenCaps : TRUE
  /\ tier = "primary" /\ tries = [t \in Tiers |-> 0]
  /\ ctxDone = FALSE /\ lateCalls = 0

-----------------------------------------------------------------------------
(* Without a vector for the diff neither code nor past comments are        *)
(* searched; the rules need none. A failed search leaves its section empty.*)
Neighbours(vector) == IF vector THEN 0 .. 1 ELSE {0}

Retrieve ==
  /\ step = "retrieve" /\ step' = "context"
  /\ \E vector \in BOOLEAN, rules \in 0 .. 1, diff \in DiffSizes :
       \E related, reviews \in Neighbours(vector) :
         sections' = [sections EXCEPT !["related"] = related, !["reviews"] = reviews,
                                      !["rules"] = rules, !["diff"] = diff]
  /\ UNCHANGED <<fetched, context, sorted, kept, cap, chatVars>>

(* An item of a provider comes after those of the ones asked before it,   *)
(* and after its own for the references that stand earlier in the text.    *)
Earlier(a, b) ==
  \E i, j \in DOMAIN Providers :
    /\ a[1] = Providers[i] /\ b[1] = Providers[j]
    /\ i < j \/ (i = j /\ a[2] < b[2])

(* fetchContext and safeFetch, one item at a time.  A reference that cannot*)
(* be fetched is left out, and an item with a blank text; a provider that  *)
(* fails or panics yields nothing, whatever it had gathered.               *)
FetchFrom(p, ref) ==
  /\ step = "context"
  /\ \A k \in DOMAIN context : Earlier(context[k], <<p, ref>>)
  /\ fetched' = [fetched EXCEPT ![p] = @ \cup {ref}]
  /\ context' = Append(context, <<p, ref>>)
  /\ UNCHANGED <<step, sections, sorted, kept, cap, chatVars>>

AllAsked ==
  /\ step = "context" /\ step' = "sort"
  /\ UNCHANGED <<inputVars, chatVars>>

(* The insertion sort: the next item goes up until one it does not outrank.*)
Outranks(a, b) == PriorityOf[a[1]] > PriorityOf[b[1]]

StopsAfter(item, n) ==
  /\ n > 0 => ~Outranks(item, context[n])
  /\ \A k \in (n + 1) .. sorted : Outranks(item, context[k])

MovedUp(items, from, n) ==
  [k \in DOMAIN items |-> IF k \in (n + 2) .. from THEN items[k - 1]
                          ELSE IF k = n + 1 THEN items[from] ELSE items[k]]

SortItem(n) ==
  /\ step = "sort" /\ sorted < Len(context)
  /\ n <= sorted /\ StopsAfter(context[sorted + 1], n)
  /\ context' = MovedUp(context, sorted + 1, n)
  /\ sorted' = sorted + 1
  /\ UNCHANGED <<step, sections, fetched, kept, cap, chatVars>>

BeginAssembly(n) ==
  /\ step = "sort" /\ sorted = Len(context)
  /\ step' = "assemble"
  /\ sections' = [sections EXCEPT !["context"] = Len(context)]
  /\ cap' = n
  /\ UNCHANGED <<fetched, context, sorted, kept, chatVars>>

-----------------------------------------------------------------------------
(* Assemble: one section less in every round, until the total fits or only *)
(* the diff is left.  Run logs that it overflows and sends it as it is.    *)
Tokens(included) ==
  LET Of(s) == IF s \in included THEN sections[s] ELSE 0
  IN Of("diff") + Of("rules") + Of("context") + Of("related") + Of("reviews")

Droppable == {i \in DOMAIN Optional : Optional[i] \in kept /\ sections[Optional[i]] > 0}

(* Mutant: the largest section goes first.                                 *)
LargestFirst(i) == \A j \in Droppable : sections[Optional[j]] <= sections[Optional[i]]

NextToDrop(i) == \A j \in Droppable : i <= j

DropSection(i) ==
  /\ step = "assemble" /\ Tokens(kept) > cap
  /\ i \in Droppable /\ NextToDrop(i)
  /\ kept' = kept \ {Optional[i]}
  /\ UNCHANGED <<step, sections, fetched, context, sorted, cap, chatVars>>

Send ==
  /\ step = "assemble" /\ (Tokens(kept) <= cap \/ Droppable = {})
  /\ step' = "ready"
  /\ UNCHANGED <<inputVars, chatVars>>

-----------------------------------------------------------------------------
(* ChatWithRetry and tryTier. After an attempt that failed the tier waits, *)
(* unless it was its last; a cancelled context ends the wait and the tier. *)
StartCall ==
  /\ step = "ready" /\ step' = "calling"
  /\ tries' = [tries EXCEPT ![tier] = @ + 1]
  /\ lateCalls' = IF ctxDone THEN lateCalls + 1 ELSE lateCalls
  /\ UNCHANGED <<inputVars, tier, ctxDone>>

Answered ==
  /\ step = "calling" /\ step' = "done"
  /\ UNCHANGED <<inputVars, chatVars>>

CallFails ==
  /\ step = "calling"
  /\ step' = IF tries[tier] < MaxAttempts THEN "backoff" ELSE "tierEnds"
  /\ UNCHANGED <<inputVars, chatVars>>

(* A select that finds both its channels ready takes either: the wait that *)
(* is over first, and the cancellation after it.                           *)
WaitIsCut == step = "backoff" /\ ctxDone /\ step' = "tierEnds" /\ UNCHANGED <<inputVars, chatVars>>

(* Mutant: a wait that does not look at its context.                       *)
WaitIgnoresCancel == step = "backoff" /\ step' = "ready" /\ UNCHANGED <<inputVars, chatVars>>

WaitIsOver == step = "backoff" /\ ~ctxDone /\ step' = "ready" /\ UNCHANGED <<inputVars, chatVars>>

NextTier ==
  /\ step = "tierEnds"
  /\ IF tier = "primary" THEN tier' = "fallback" /\ step' = "ready" ELSE tier' = tier /\ step' = "done"
  /\ UNCHANGED <<inputVars, tries, ctxDone, lateCalls>>

Cancel ==
  /\ step # "done" /\ ~ctxDone /\ ctxDone' = TRUE
  /\ UNCHANGED <<step, inputVars, tier, tries, lateCalls>>

PromptNext ==
  \/ Retrieve
  \/ \E p \in ProviderSet, ref \in Refs : FetchFrom(p, ref)
  \/ AllAsked
  \/ \E n \in 0 .. Len(context) : SortItem(n)
  \/ \E n \in TokenCaps : BeginAssembly(n)
  \/ \E i \in DOMAIN Optional : DropSection(i)
  \/ Send
  \/ StartCall \/ Answered \/ CallFails \/ WaitIsCut \/ WaitIsOver \/ NextTier
  \/ Cancel

PromptSpec == PromptInit /\ [][PromptNext]_promptVars

-----------------------------------------------------------------------------
Before(a, b) == Outranks(a, b) \/ (~Outranks(b, a) /\ Earlier(a, b))

ContextIsWholeAndRanked ==
  /\ ToSet(context) = UNION {{p} \X fetched[p] : p \in ProviderSet}
  /\ \A i, j \in DOMAIN context : i < j => Before(context[i], context[j])

(* What a section may be dropped for: itself and what is dropped after it. *)
WorthMore(s) == {Optional[i] : i \in {j \in DOMAIN Optional : \E n \in 1 .. j : Optional[n] = s}} \cup {"diff"}

(* The diff exceeds the cap by itself.                                     *)
DiffOverflow == sections["diff"] > cap

(* However many providers failed, the prompt's context holds every item    *)
(* the others resolved, once, by priority and within one by the order the  *)
(* providers and their references come in.  A section is dropped only when *)
(* it does not fit beside the ones worth more, and what is sent fits the   *)
(* cap whenever the diff alone does.  Of a diff that overflows it it claims*)
(* nothing: the code sends it as it is, which Assemble forbids its caller. *)
PromptKeepsWhatFits ==
  step = "ready" =>
    /\ ContextIsWholeAndRanked
    /\ \A s \in Sections \ kept : Tokens(WorthMore(s)) > cap
    /\ ~DiffOverflow => Tokens(kept) <= cap

(* A cancelled job calls the model at most twice more: once for a wait     *)
(* that had just ended, once because the fallback tier begins with a call. *)
CancelStopsTheCalls == lateCalls <= 2

=============================================================================
