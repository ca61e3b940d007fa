------------------------------ MODULE UserCalls ------------------------------
(***************************************************************************)
(* The vocabulary of users.Repository (internal/users/repository.go lines  *)
(* 12-21): what its three methods are asked and what they answer.          *)
(*                                                                         *)
(* A user is its username: the table holds a username once and never       *)
(* deletes a row, so the id a successful Create draws names that username, *)
(* and an id that was never stored is one whose username is not stored.    *)
(* "valid" abstracts Username.IsValid and Password.IsValid.                *)
(***************************************************************************)
EXTENDS Pagination

CONSTANTS
    Names,          \* usernames
    PageRequests    \* page requests the handlers may ask for

\* NewPageRequest refuses negative numbers.
ASSUME PageRequestsAssumption == PageRequests \subseteq [page : Nat, size : Nat]

Creates == [op : {"create"}, name : Names, valid : BOOLEAN]
Lists   == [op : {"list"}, pr : PageRequests]
Gets    == [op : {"get"}, name : Names]
Requests == Creates \cup Lists \cup Gets

NoRequest == [op |-> "none"]

\* Why a call fails: a validation error, sql.ErrConnDone and the like for a
\* closed pool, the error of the context, "no such table", SQLITE_LOCKED, the
\* UNIQUE constraint, users.NotFoundError.
Failures == {"invalid", "closed", "cancelled", "nodb", "locked", "duplicate", "notfound"}

NoOut == [kind |-> "none"]
Failed(why) == [kind |-> why]
Created == [kind |-> "created"]
Found == [kind |-> "user"]

\* A faulty PageFound: it counts the users on the page instead of all users.
PageFoundCountsPage(content, n) == [kind |-> "page", content |-> content, total |-> Len(content)]
PageFound(content, n) == [kind |-> "page", content |-> content, total |-> n]

Outcomes ==
    {NoOut, Created, Found}
        \cup [kind : Failures]
        \cup [kind : {"page"}, content : Seq(Names), total : Nat]

Rows(s) == {s[i] : i \in 1..Len(s)}
=============================================================================
