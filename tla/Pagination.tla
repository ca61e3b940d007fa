----------------------------- MODULE Pagination -----------------------------
(***************************************************************************)
(* internal/pagination/model.go as operators, together with the meaning of *)
(* LIMIT/OFFSET that the query GetUsers of internal/infrastructure/db/sqlc *)
(* gives to a page request.  A page request is a record [page, size]; the  *)
(* table is the sequence of its rows in rowid order, which is the order an *)
(* unordered SELECT scans them in.                                         *)
(***************************************************************************)
EXTENDS Integers, Sequences

\* NewPageRequest: the two sentinel errors, page first.
NewPageRequestErr(page, size) ==
    CASE page < 0 -> "ErrPageMustBeGreaterOrEqualThanZero"
      [] page >= 0 /\ size < 0 -> "ErrSizeMustBeGreaterOrEqualThanZero"
      [] OTHER -> "nil"

\* A faulty Offset: pages counted from one.
OffsetFromOne(pr) == (pr.page + 1) * pr.size
Offset(pr) == pr.page * pr.size

\* A faulty TotalPages: it forgets the last, partly filled page.
TotalPagesFloor(total, size) == total \div size

\* The ceiling of total / size.  The code divides float64s, exact below 2^53;
\* size is at least 1 whenever a handler asks.
TotalPages(total, size) == (total + size - 1) \div size

\* SELECT ... LIMIT size OFFSET page * size.
PageOf(table, pr) ==
    LET end == Offset(pr) + pr.size
    IN  SubSeq(table, Offset(pr) + 1, IF end < Len(table) THEN end ELSE Len(table))

\* How many rows of a table of total rows a page request selects.
PageLen(total, pr) ==
    IF Offset(pr) >= total THEN 0
    ELSE IF total - Offset(pr) < pr.size THEN total - Offset(pr) ELSE pr.size
=============================================================================
