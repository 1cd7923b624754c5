----------------------------- MODULE HostListing ------------------------------
(***************************************************************************)
(* The paged listings of the code host adapters: the comments of a pull    *)
(* request and the pull requests merged since a date on both hosts, the    *)
(* files changed between two commits on Bitbucket.  They read page after   *)
(* page until the host names no next one, while what is listed may change. *)
(* GitHub orders pull requests by their creation: one merged meanwhile     *)
(* comes in between others.  It lists them by a search, and a search stops *)
(* naming a next page at 1000 results, without an error.                   *)
(***************************************************************************)
EXTENDS Naturals, Sequences, FiniteSets, SequencesExt

CONSTANTS
  Items,    \* bound on the items the host ever lists, which are numbered as they appear
  PageSize, \* what a page holds
  SearchPages  \* the pages a search gives at most (10 of 100)

ASSUME ListingAssumption == Items \in Nat /\ PageSize \in Nat \ {0} /\ SearchPages \in Nat \ {0}

VARIABLES
  search,      \* the listing is GitHub's search (of pull requests)
  there,       \* what the host lists now, in its order
  gathered,    \* what the adapter has appended so far
  page,        \* the page it asks for next, 0 when it has none left
  listFailed,  \* the listing ended in an error: the caller gets nothing
  removed,     \* what was removed from the host's list meanwhile
  squeezed     \* how many items came in before others

listingVars == <<search, there, gathered, page, listFailed, removed, squeezed>>

-----------------------------------------------------------------------------
ListingTypeOK ==
  /\ search \in BOOLEAN
  /\ there \in Seq(1..Items) /\ IsInjective(there)
  /\ gathered \in Seq(1..Items)
  /\ page \in 0..(Items \div PageSize + 1)
  /\ listFailed \in BOOLEAN
  /\ removed \subseteq (1..Items) \ ToSet(there) /\ squeezed \in 0..Items
  /\ listFailed => page = 0 /\ gathered = <<>>

ListingInit ==
  /\ search \in BOOLEAN
  /\ \E n \in 0..Items : there = [i \in 1..n |-> i]
  /\ gathered = <<>> /\ page = 1 /\ listFailed = FALSE /\ removed = {} /\ squeezed = 0

More(n) == Len(there) > n * PageSize
PageAt(n) == SubSeq(there, (n - 1) * PageSize + 1, IF More(n) THEN n * PageSize ELSE Len(there))
HasNext(n) == More(n) /\ (search => n < SearchPages)

(* Mutant: the first page is taken for the whole list.                     *)
FetchOnePage ==
  /\ page # 0 /\ page' = 0
  /\ gathered' = gathered \o PageAt(page)
  /\ UNCHANGED <<search, there, listFailed, removed, squeezed>>

FetchPage ==
  /\ page # 0
  /\ \/ gathered' = gathered \o PageAt(page) /\ page' = (IF HasNext(page) THEN page + 1 ELSE 0) /\ UNCHANGED listFailed
     \/ gathered' = <<>> /\ page' = 0 /\ listFailed' = TRUE
  /\ UNCHANGED <<search, there, removed, squeezed>>

(* Meanwhile, on the host.                                                 *)
Added(i) ==
  /\ page # 0
  /\ \E new \in 1..Items : /\ 1..(new - 1) = ToSet(there) \cup removed
                          /\ there' = InsertAt(there, i, new)
  /\ squeezed' = IF i > Len(there) THEN squeezed ELSE squeezed + 1
  /\ UNCHANGED <<search, gathered, page, listFailed, removed>>

Removed(i) ==
  /\ page # 0
  /\ there' = RemoveAt(there, i) /\ removed' = removed \cup {there[i]}
  /\ UNCHANGED <<search, gathered, page, listFailed, squeezed>>

ListingNext ==
  FetchPage \/ (\E i \in 1..(Len(there) + 1) : Added(i)) \/ \E i \in DOMAIN there : Removed(i)
ListingSpec == ListingInit /\ [][ListingNext]_listingVars

-----------------------------------------------------------------------------
(* What lies behind the last page a search gives.                          *)
CutOff == IF search /\ More(SearchPages) THEN Len(there) - SearchPages * PageSize ELSE 0

(* A listing without an error names an item again, or misses one the host  *)
(* still lists when it ends, only for a reason each time: an item came in  *)
(* before others, or, for a miss, one was removed or lies beyond what a    *)
(* search gives.  Comments, which are only appended and not searched for,  *)
(* are all there and none of them twice, unless one is removed meanwhile.  *)
ListingMissesFew ==
  [][ /\ Len(gathered') - Cardinality(ToSet(gathered')) <= squeezed
      /\ page # 0 /\ page' = 0 /\ ~listFailed' =>
           Cardinality(ToSet(there) \ ToSet(gathered')) <= Cardinality(removed) + squeezed + CutOff ]_listingVars
=============================================================================
