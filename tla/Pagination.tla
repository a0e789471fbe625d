----------------------------- MODULE Pagination -----------------------------
(***************************************************************************)
(* The two ways a list of users is cut into pages: by offset, with the     *)
(* numbers of OffsetPaginationDto, and by the Paginator of                 *)
(* utils/pagination/cursor-pagination.ts. A row is its id, a positive      *)
(* number; 0 stands for a cursor or a page number that is not there.       *)
(***************************************************************************)
EXTENDS Integers, Sequences, FiniteSets, SequencesExt

Absent == 0

CeilDiv(a, b) == (a + b - 1) \div b
AtMost(a, b) == IF a < b THEN a ELSE b
\* Rows from one position on, at most so many of them.
Take(s, from, count) == SubSeq(s, from, AtMost(from + count - 1, Len(s)))

\* skip and take of findAll: the rows of a page.
\* Mutant: page numbers taken as starting at 0.
OffsetPageFromZero(s, page, limit) == Take(s, page * limit + 1, limit)
OffsetPage(s, page, limit) == Take(s, (page - 1) * limit + 1, limit)
\* The constructor compares the page with totalPages before it assigns it:
\* both comparisons are with undefined, and false.
OffsetPaginationDto(total, page, limit) ==
    [limit |-> limit, currentPage |-> page, nextPage |-> Absent, previousPage |-> Absent,
     totalRecords |-> total, totalPages |-> IF limit > 0 THEN CeilDiv(total, limit) ELSE 0]

-----------------------------------------------------------------------------
\* Prisma's findMany over ids, with a cursor: nothing when no row has its id.
Precedes(order, a, b) == IF order = "asc" THEN a < b ELSE a > b
Rank(ids, order, x) == Cardinality({y \in ids : Precedes(order, y, x)})
Ordered(ids, order) ==
    [i \in 1 .. Cardinality(ids) |-> CHOOSE x \in ids : Rank(ids, order, x) = i - 1]
FindMany(ids, q) ==
    LET s == Ordered(ids, q.orderBy) IN
    IF q.cursor = Absent THEN Take(s, 1, q.take)
    ELSE IF q.cursor \notin ids THEN <<>>
    ELSE Take(s, (CHOOSE i \in DOMAIN s : s[i] = q.cursor) + q.skip, q.take)

Flip(order) == IF order = "asc" THEN "desc" ELSE "asc"
\* The query: one row more than the limit; backwards, the other order.
\* Mutant: the row of the cursor is not skipped.
FindManyArgsFromCursor(after, before, limit, order) ==
    [orderBy |-> IF after = Absent /\ before # Absent THEN Flip(order) ELSE order,
     cursor |-> IF after # Absent THEN after ELSE before, skip |-> 0, take |-> limit + 1]
FindManyArgs(after, before, limit, order) ==
    [orderBy |-> IF after = Absent /\ before # Absent THEN Flip(order) ELSE order,
     cursor |-> IF after # Absent THEN after ELSE before,
     skip |-> IF after = Absent /\ before = Absent THEN 0 ELSE 1,
     take |-> limit + 1]
\* A cursor handed out is the record, encoded: it is no row's id.
EncodeCursor(id) == -id
\* The rows come back turned round when there is a cursor to go before.
Paginate(ids, after, before, limit, order) ==
    LET items == FindMany(ids, FindManyArgs(after, before, limit, order))
        hasMore == Len(items) > limit
        records == IF hasMore THEN Front(items) ELSE items
        data == IF before # Absent THEN Reverse(records) ELSE records
        hasPrevious == after # Absent \/ (before # Absent /\ hasMore)
        hasNext == before # Absent \/ hasMore
    IN [data |-> data,
        afterCursor |-> IF hasNext /\ data # <<>> THEN EncodeCursor(Last(data)) ELSE Absent,
        beforeCursor |-> IF hasPrevious /\ data # <<>> THEN EncodeCursor(Head(data)) ELSE Absent]
=============================================================================
