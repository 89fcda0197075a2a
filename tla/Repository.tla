----------------------------- MODULE Repository -----------------------------
(***************************************************************************)
(* What the SQL and the Mongo repositories share: tenants, the requests    *)
(* that act for them, and the arithmetic of pages.  The repositories and   *)
(* the metadata the API sends its clients each have a default page size.   *)
(***************************************************************************)
EXTENDS Integers, FiniteSets

CONSTANTS
  Tenant,     \* tenant codes of the request contexts
  Id,         \* ids of rows and documents
  None,       \* nothing: no tenant, no id, no number yet
  PageSize,   \* limit of a repository that is given none (10)
  MetaSize    \* limit of the metadata that is given none (20)

ASSUME SizesAssumption == PageSize \in Nat \ {0} /\ MetaSize \in Nat \ {0}
ASSUME NothingAssumption == None \notin Tenant \cup Id

\* Number and size of the page a repository reads when asked for these.
PageNumber(page) == IF page < 1 THEN 1 ELSE page
PageLimit(limit) == IF limit = 0 THEN PageSize ELSE IF limit < 1 THEN 1 ELSE limit
PageSkip(page, limit) == (PageNumber(page) - 1) * PageLimit(limit)

\* How many records are on that page, of total.
OnPage(total, page, limit) ==
  LET left == total - PageSkip(page, limit)
  IN  IF left <= 0 THEN 0 ELSE IF left < PageLimit(limit) THEN left ELSE PageLimit(limit)

Pages(total, limit) == (total + limit - 1) \div limit

MetaLimit(limit) == IF limit > 0 THEN limit ELSE MetaSize

\* Mutant: the page after the last one is announced.
HasNextCountingOne(total, page, limit) ==
  PageNumber(page) <= Pages(total, MetaLimit(limit))

HasNext(total, page, limit) == PageNumber(page) < Pages(total, MetaLimit(limit))

\* The states of a row or a document.  "gone" was physically removed.
Shape == {"unused", "live", "deleted", "gone"}
=============================================================================
