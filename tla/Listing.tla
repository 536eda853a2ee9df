------------------------------- MODULE Listing --------------------------------
(***************************************************************************)
(* Keyset pagination as products/products.service.ts and                   *)
(* orders/orders.service.ts do it: a client walks the list page by page    *)
(* with the next_cursor of common/pagination.ts while rows are inserted.   *)
(* A customer lists its own orders, an admin all of them; the products are *)
(* listed as to an admin.  Ids come from a sequence, so a row may become   *)
(* visible after one with a larger id.                                     *)
(***************************************************************************)
EXTENDS Integers, Sequences, SequencesExt, Selection

CONSTANTS Mine,      \* ids of the rows that belong to the client
          MaxRows,   \* bound: ids the sequence hands out
          MaxLimit   \* bound: the limit the client asks for

NoCursor == 0   \* next_cursor: null; afterId of a request without cursor

VARIABLES rows,       \* ids of the committed rows
          pending,    \* ids inserted by open transactions
          nextRow,    \* the sequence
          pageLimit,  \* limit, the same for all pages of the client
          admin,      \* users.role of the client is 'admin'
          reader,     \* "start", "query" (role read), "more", "done"
          seesAll,    \* seesAll of the request under way
          cursor,     \* the next_cursor the client holds
          got,        \* ids received since the first page
          due         \* rows the client could see from then on (history)

table == <<rows, pending, nextRow>>
client == <<reader, seesAll, cursor, got>>
vars == <<table, pageLimit, admin, client, due>>

-----------------------------------------------------------------------------
(* create: an INSERT takes its id ... *)
Insert ==
  /\ nextRow <= MaxRows
  /\ pending' = pending \union {nextRow}
  /\ nextRow' = nextRow + 1
  /\ UNCHANGED <<rows, pageLimit, admin, client, due>>

(* ... and commits, or is rolled back (409 on a duplicate name), with the   *)
(* id lost.                                                                 *)
EndInsert(id) ==
  /\ id \in pending
  /\ pending' = pending \ {id}
  /\ \/ rows' = rows \union {id}
     \/ UNCHANGED rows
  /\ UNCHANGED <<nextRow, pageLimit, admin, client, due>>

(* roleOf: read once per request, before the query. *)
ReadListRole ==
  /\ reader \in {"start", "more"}
  /\ reader' = "query"
  /\ seesAll' = admin
  /\ UNCHANGED <<table, pageLimit, admin, cursor, got, due>>

Demote ==
  /\ admin
  /\ admin' = FALSE
  /\ due' = due \intersect Mine
  /\ UNCHANGED <<table, pageLimit, client>>

Visible(all) == IF all THEN rows ELSE rows \intersect Mine

(* Mutant: no row beyond the page is asked for. *)
TakePage == pageLimit

(* take: one row more than the page, to know whether there is another.      *)
Take == pageLimit + 1

Found(afterId) ==
  LET matching == {id \in Visible(seesAll) : id > afterId}
      sorted == Ascending(matching)
  IN  SubSeq(sorted, 1, IF Take < Len(sorted) THEN Take ELSE Len(sorted))

PageOf(found) == SubSeq(found, 1, IF pageLimit < Len(found) THEN pageLimit ELSE Len(found))

(* findAll: the page, and a cursor when more follows.  A limit of 0 gives   *)
(* neither.  A cursor decodeCursor cannot read is no cursor: the listing    *)
(* starts again.                                                            *)
FetchPage(afterId) ==
  LET found == Found(afterId)
      page == PageOf(found)
      hasMore == Len(found) > pageLimit /\ page # <<>>
  IN  /\ reader = "query"
      /\ got' = IF afterId = NoCursor THEN page ELSE got \o page
      /\ due' = IF afterId = NoCursor THEN Visible(admin) ELSE due
      /\ cursor' = IF hasMore THEN Last(page) ELSE NoCursor
      /\ reader' = IF hasMore THEN "more" ELSE "done"
      /\ UNCHANGED <<table, pageLimit, admin, seesAll>>

-----------------------------------------------------------------------------
Init ==
  /\ rows = {} /\ pending = {} /\ nextRow = 1
  /\ pageLimit \in 0 .. MaxLimit
  /\ admin \in BOOLEAN
  /\ reader = "start" /\ seesAll = FALSE
  /\ cursor = NoCursor /\ got = <<>> /\ due = {}

Next ==
  \/ Insert \/ Demote \/ ReadListRole
  \/ \E id \in pending : EndInsert(id)
  \/ \E afterId \in {cursor, NoCursor} : FetchPage(afterId)

Spec == Init /\ [][Next]_vars

-----------------------------------------------------------------------------
(* Pages follow one another without a gap or a repetition, whatever is      *)
(* inserted and in whatever order it commits: a client that has reached the *)
(* last page has every row it could see from the first page on, in the      *)
(* order of ids.  (A limit of 0 ends the listing at once.)                  *)
ListingIsComplete ==
  /\ \A i, j \in DOMAIN got : i < j => got[i] < got[j]
  /\ reader = "done" /\ pageLimit > 0 => due \subseteq ToSet(got)
=============================================================================
