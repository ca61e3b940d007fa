------------------------------ MODULE PageWalk ------------------------------
(***************************************************************************)
(* A client of GET /api/v1/users that follows the links of the pages       *)
(* (users_handler.go lines 152-189) while others create users.  It either  *)
(* starts at any page and follows "next", or asks that page for "last" and *)
(* follows "prev" from there; it may also follow the link "self" of a user *)
(* it was shown.  A listing may fail, and then there is no link to follow. *)
(*                                                                         *)
(* Users are numbered in the order of their creation, which is the order   *)
(* the table is scanned in; a page and its total come from one state of    *)
(* the table (ListingIsSnapshot in UserRepository).                        *)
(***************************************************************************)
EXTENDS Pagination, Router

CONSTANTS
    Sizes,      \* page sizes a client may ask for, all accepted
    Seeded,     \* users of the migrations
    MaxUsers,   \* bound: nobody creates more users than that
    MaxPage     \* 1000 in users_handler.go line 103

ASSUME SizesAssumption == Sizes \subseteq Nat \ {0}
ASSUME SeededAssumption == Seeded \in Nat \ {0} /\ MaxUsers \in Nat /\ Seeded <= MaxUsers
ASSUME MaxPageAssumption == MaxPage \in Nat

VARIABLES
    users,      \* the number of users
    walk,       \* direction of the client: next, prev
    size,       \* its page size
    start,      \* the page it asks for first
    url,        \* page number of the link it will follow next, or NoLink
    step,       \* start, walking, done, refused, failed
    seen,       \* the users it was shown, in the order it saw them
    atStart,    \* how many users there were when it made its first request
    visit       \* what a link to a user led to: none, 200, 404

vars == <<users, walk, size, start, url, step, seen, atStart, visit>>

NoLink == -1000

Table == [i \in 1..users |-> i]

\* The page number a link of the response carries.
LastLink(total, n) == TotalPages(total, n) - 1

\* Faulty links that are never left out.
PrevLinkNoNil(page) == page - 1
NextLinkNoNil(page, total, n) == page + 1

PrevLink(page) == IF page = 0 THEN NoLink ELSE page - 1
NextLink(page, total, n) ==
    IF page = TotalPages(total, n) - 1 THEN NoLink ELSE page + 1

\* The handler refuses any other page with 400.
Accepted(page) == page >= 0 /\ page <= MaxPage

Init ==
    /\ users = Seeded
    /\ walk \in {"next", "prev"}
    /\ size \in Sizes
    /\ start \in 0..MaxPage
    /\ url = start
    /\ step = "start"
    /\ seen = <<>>
    /\ atStart = Seeded
    /\ visit = "none"

CreateUser ==
    /\ users < MaxUsers
    /\ users' = users + 1
    /\ UNCHANGED <<walk, size, start, url, step, seen, atStart, visit>>

\* A walk along "prev" begins with a look at a page, for its last link.
FindLast ==
    /\ step = "start" /\ walk = "prev" /\ Accepted(url)
    /\ url' = LastLink(users, size)
    /\ step' = "walking"
    /\ atStart' = users
    /\ UNCHANGED <<users, walk, size, start, seen, visit>>

\* The response to the link: a page, of which the client follows one link.
Fetch ==
    /\ \/ step = "start" /\ walk = "next" /\ atStart' = users
       \/ step = "walking" /\ url # NoLink /\ atStart' = atStart
    /\ Accepted(url)
    /\ seen' = seen \o PageOf(Table, [page |-> url, size |-> size])
    /\ url' = IF walk = "next" THEN NextLink(url, users, size) ELSE PrevLink(url)
    /\ step' = IF url' = NoLink THEN "done" ELSE "walking"
    /\ UNCHANGED <<users, walk, size, start, visit>>

Refuse ==
    /\ step \in {"start", "walking"} /\ url # NoLink
    /\ ~Accepted(url)
    /\ step' = "refused"
    /\ UNCHANGED <<users, walk, size, start, url, seen, atStart, visit>>

\* The repository returns an error, as it does beside a CreateUser RPC or after the
\* timeout: 200 without a body (GetUsersConforms of RestUsers), or 504, and no link
\* either way.  A client that asks again is where it was before it asked.
ListingFails ==
    /\ step \in {"start", "walking"} /\ url # NoLink
    /\ Accepted(url)
    /\ step' = "failed"
    /\ UNCHANGED <<users, walk, size, start, url, seen, atStart, visit>>

Request == FindLast \/ Fetch \/ Refuse \/ ListingFails

\* The client looks at a user it was shown; that user exists for ever.
VisitUser ==
    /\ seen # <<>> /\ visit = "none"
    /\ visit' = IF Route(SelfPath("id")) = "GetUser" THEN "200" ELSE "404"
    /\ UNCHANGED <<users, walk, size, start, url, step, seen, atStart>>

Next == CreateUser \/ Request \/ VisitUser

\* The client goes on following links; nobody has to create users.
Spec == Init /\ [][Next]_vars /\ WF_vars(Request)

(***************************************************************************)
(* Correctness.                                                            *)
(***************************************************************************)
\* The types of the variables; a link is a page number or none.
TypeOK ==
    /\ users \in Seeded..MaxUsers
    /\ walk \in {"next", "prev"}
    /\ size \in Sizes
    /\ start \in 0..MaxPage
    /\ url \in Nat \cup {NoLink}
    /\ step \in {"start", "walking", "done", "refused", "failed"}
    /\ seen \in Seq(1..users)
    /\ atStart \in Seeded..users
    /\ visit \in {"none", "200", "404"}

\* Along "next" a client is shown nobody twice, whatever is created meanwhile,
\* and, unless it started behind the last page, nobody is left out.
NextWalkInOrder ==
    walk = "next" =>
        /\ \A i, j \in 1..Len(seen) : i < j => seen[i] < seen[j]
        /\ start * size < atStart => \A i \in 1..Len(seen) : seen[i] = start * size + i

\* When the links end, a client that started at the first page, or came from the
\* last, has been shown every user there was when it made its first request, and
\* nobody twice.
WalkIsComplete ==
    step = "done" /\ (walk = "next" => start = 0) =>
        /\ \A u \in 1..atStart : \E i \in 1..Len(seen) : seen[i] = u
        /\ \A i, j \in 1..Len(seen) : seen[i] = seen[j] => i = j

\* The links end, as long as the users fit on the pages that may be asked for, unless
\* a listing fails; only a client that started further back is led on until it is
\* refused.
WalkEnds == <>(step \in {"done", "failed"} \/ (step = "refused" /\ start > 0))

\* openapi.yml lines 407-410: the link "self" of a user is the URL to the user.
SelfLeadsToUser == visit # "404"
=============================================================================
