-------------------------- MODULE MongoRepository --------------------------
(***************************************************************************)
(* BaseMongoRepository of libs-mongo over one collection whose schema has  *)
(* the tenantSoftDeletePlugin.  Every operation is one command of the      *)
(* database, but findPaginated, which sends two at a time.                 *)
(***************************************************************************)
EXTENDS Repository

CONSTANTS
  PageNumbers, PageLimits   \* what callers of findPaginated ask for

ASSUME PagesAssumption == PageNumbers \cup PageLimits \subseteq Int

VARIABLES
  docs,     \* the collection; stamped tells whether deletedAt is set
  acting,   \* the tenant of the request context of the last step
  listing   \* the page a request is reading or has read

mongoVars == <<docs, acting, listing>>

NoDoc == [state |-> "unused", tenant |-> None, stamped |-> FALSE]

NoListing == [of |-> None, page |-> None, limit |-> None, found |-> None, total |-> None, steady |-> TRUE]

MongoInit ==
  /\ docs = [i \in Id |-> NoDoc]
  /\ acting \in Tenant
  /\ listing = NoListing

\* Mutant: the filter the hooks complete names no tenant.
FilterAnyTenant(t, isDeleted) ==
  {i \in Id : docs[i].state = IF isDeleted THEN "deleted" ELSE "live"}

\* The documents a query reaches: applyTenantScope sets the tenant of the context,
\* and isDeleted to false unless the filter already names it.
Filter(t, isDeleted) ==
  {i \in Id : docs[i].tenant = t /\ docs[i].state = IF isDeleted THEN "deleted" ELSE "live"}

\* A listing under way is not of one moment once its tenant's documents change.
Write(t, i, doc) ==
  /\ docs' = [docs EXCEPT ![i] = doc]
  /\ acting' = t
  /\ listing' = IF listing.of \in Tenant \cap {docs[i].tenant, doc.tenant} /\ None \in {listing.found, listing.total}
                THEN [listing EXCEPT !.steady = FALSE] ELSE listing

\* create, and the save hook.
MongoCreate(t, i) ==
  /\ docs[i].state = "unused"
  /\ Write(t, i, [state |-> "live", tenant |-> t, stamped |-> FALSE])

\* The document given is spread over the columns, tenantCode included.
MongoUpdate(t, i, u) ==
  /\ i \in Filter(t, FALSE)
  /\ Write(t, i, [docs[i] EXCEPT !.tenant = u])

MongoDelete(t, i) ==
  /\ i \in Filter(t, FALSE)
  /\ Write(t, i, [docs[i] EXCEPT !.state = "deleted", !.stamped = TRUE])

\* deletedAt: undefined is not sent, and the stamp stays.
MongoRestore(t, i) ==
  /\ i \in Filter(t, TRUE)
  /\ Write(t, i, [docs[i] EXCEPT !.state = "live"])

-----------------------------------------------------------------------------
Answered == listing.found # None /\ listing.total # None

Listing(l) ==
  /\ listing' = l
  /\ acting' = listing'.of
  /\ UNCHANGED docs

\* findPaginated sends find and countDocuments together.
BeginListing(t, page, limit) ==
  /\ listing = NoListing \/ Answered
  /\ Listing([of |-> t, page |-> page, limit |-> limit, found |-> None, total |-> None, steady |-> TRUE])

FindPage ==
  /\ listing.of # None /\ listing.found = None
  /\ Listing([listing EXCEPT !.found =
       OnPage(Cardinality(Filter(listing.of, FALSE)), listing.page, listing.limit)])

CountDocuments ==
  /\ listing.of # None /\ listing.total = None
  /\ Listing([listing EXCEPT !.total = Cardinality(Filter(listing.of, FALSE))])

MongoNext ==
  \/ FindPage
  \/ CountDocuments
  \/ \E t \in Tenant :
       \/ \E i \in Id : MongoCreate(t, i) \/ MongoDelete(t, i) \/ MongoRestore(t, i)
       \/ \E i \in Id, u \in Tenant : MongoUpdate(t, i, u)
       \/ \E page \in PageNumbers, limit \in PageLimits : BeginListing(t, page, limit)

MongoSpec == MongoInit /\ [][MongoNext]_mongoVars

-----------------------------------------------------------------------------
\* Documents and listings; a deleted document bears its stamp.
MongoTypeOK ==
  /\ docs \in [Id -> [state : Shape \ {"gone"}, tenant : Tenant \cup {None}, stamped : BOOLEAN]]
  /\ \A i \in Id : docs[i].state = "deleted" => docs[i].stamped
  /\ acting \in Tenant
  /\ listing \in [of : Tenant \cup {None}, page : PageNumbers \cup {None}, limit : PageLimits \cup {None},
                  found : Nat \cup {None}, total : Nat \cup {None}, steady : BOOLEAN]

\* Whatever ids requests pass, and whether a document is live or deleted, they reach
\* the documents of their own tenant only; an update that names another tenant gives
\* its document away (tenant-soft-delete.plugin.ts, every hook; base-mongo.repository.ts).
Stores == INSTANCE TenantStore WITH
  Record <- Id \X {"live", "deleted"} \X BOOLEAN,
  store <- [t \in Tenant |-> {<<i, docs[i].state, docs[i].stamped>> : i \in {j \in Id : docs[j].tenant = t}}]

KeepsTenantStores == Stores!Spec

\* A client that is given a page and its metadata knows whether records remain after
\* that page, unless documents changed between the two queries or it asked for a limit
\* of 0, for which repository and metadata choose different sizes
\* (base-mongo.repository.ts, findPaginated; pagination.utils.ts, createPaginationMeta).
PageTellsTheRest ==
  Answered /\ listing.steady /\ listing.limit > 0 =>
    (HasNext(listing.total, listing.page, listing.limit) <=>
       PageSkip(listing.page, listing.limit) + listing.found < listing.total)
=============================================================================
