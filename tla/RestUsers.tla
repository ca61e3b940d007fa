------------------------------ MODULE RestUsers ------------------------------
(***************************************************************************)
(* The REST API of users: a request on its way through middleware.Timeout  *)
(* (main.go line 101), the generated wrappers and strict handlers          *)
(* (gen.go), UsersHandler (users_handler.go) and the two error handlers of *)
(* CreateRestAPI (api.go), over the repository as UserStore describes it.  *)
(*                                                                         *)
(* Readers serve REST requests, which are followed from end to end; Others *)
(* stand for everybody else who uses the store meanwhile: CreateUser RPCs, *)
(* and listings that may be cancelled.                                     *)
(*                                                                         *)
(* Of a response the model keeps the status code of its first WriteHeader  *)
(* (0 when there was none) and the kind of its body.                       *)
(***************************************************************************)
EXTENDS UserStore, FiniteSets

CONSTANTS
    Readers, Others,    \* goroutines of the two servers
    PageParams,         \* values of the query parameter page
    SizeParams,         \* values of the query parameter size
    Defects,            \* what may be wrong with the syntax of a request
    MaxPage,            \* 1000 in users_handler.go line 103
    MaxSize             \* 50 in line 111

ASSUME SeedAssumption == Seed \in Seq(Names)
ASSUME ParamsAssumption == PageParams \subseteq Int /\ SizeParams \subseteq Int
ASSUME MaxAssumption == MaxPage \in Nat /\ MaxSize \in Nat
ASSUME ProcsAssumption == Procs = Readers \cup Others /\ Readers \cap Others = {}

VARIABLES
    at,         \* where the request of p is
    request,    \* its route and parameters
    ended,      \* why its context ended: no, deadline, gone
    wrote,      \* the status code written
    body,       \* the kind of body written
    known,      \* the users stored when the request arrived
    exited      \* main has returned: the process is gone

restVars == <<at, request, ended, wrote, body, known>>
vars == <<storeVars, restVars, exited>>

\* A request may have a parameter that the generated wrapper cannot bind, or a
\* field selection that gofieldselect cannot parse.
ASSUME DefectsAssumption == Defects \subseteq {"none", "bind", "fields"}

PageOk(page) == page >= 0 /\ page <= MaxPage
SizeOk(size) == size >= 1 /\ size <= MaxSize

\* PageRequests holds what the handler lets through.
ASSUME AcceptedAssumption ==
    \A page \in PageParams, size \in SizeParams :
        PageOk(page) /\ SizeOk(size) => [page |-> page, size |-> size] \in PageRequests

\* Bound: at most one thing is wrong with a request; every fault alone is answered
\* with the same status, and of several the first decides.
OneFault(r) ==
    \/ PageOk(r.page) /\ SizeOk(r.size)
    \/ r.defect = "none" /\ (PageOk(r.page) \/ SizeOk(r.size))

GetUsersRequests ==
    {r \in [route : {"GetUsers"}, defect : Defects, page : PageParams, size : SizeParams] :
        OneFault(r)}
GetUserRequests ==
    [route : {"GetUser"}, defect : Defects, name : Names]
HttpRequests == GetUsersRequests \cup GetUserRequests

NoHttp == [route |-> "none"]

Init ==
    /\ StoreInit
    /\ at = [p \in Readers |-> "idle"]
    /\ request = [p \in Readers |-> NoHttp]
    /\ ended = [p \in Readers |-> "no"]
    /\ wrote = [p \in Readers |-> 0]
    /\ body = [p \in Readers |-> "none"]
    /\ known = [p \in Readers |-> {}]
    /\ exited = FALSE

\* A faulty Write: the last status code stands.
WriteLast(p, status_, kind) ==
    wrote' = [wrote EXCEPT ![p] = status_] /\ body' = [body EXCEPT ![p] = kind]

\* w.WriteHeader and w.Write: the first status code stands.
Write(p, status_, kind) ==
    IF wrote[p] = 0
    THEN wrote' = [wrote EXCEPT ![p] = status_] /\ body' = [body EXCEPT ![p] = kind]
    ELSE UNCHANGED <<wrote, body>>

\* A faulty HandleError: a status of its own for every error.
HandleErrorPassesOn(p, err) == Write(p, IF err = "error" THEN 502 ELSE 400, "problem")

\* Both error handlers know a single kind of error; for any other they return
\* without writing.
HandleError(p, err) ==
    IF err = "InvalidParamFormatError"
    THEN Write(p, 400, "problem")
    ELSE UNCHANGED <<wrote, body>>

Goto(p, l) == at' = [at EXCEPT ![p] = l]

\* A name in Readers serves its next request when the watcher of the last listing
\* is gone.
Receive(p) ==
    /\ at[p] = "idle" /\ p \notin lingers
    /\ \E r \in HttpRequests : request' = [request EXCEPT ![p] = r]
    /\ Goto(p, "bind")
    /\ ended' = [ended EXCEPT ![p] = "no"]
    /\ wrote' = [wrote EXCEPT ![p] = 0]
    /\ body' = [body EXCEPT ![p] = "none"]
    /\ known' = [known EXCEPT ![p] = Rows(store)]
    /\ UNCHANGED storeVars

\* ServerInterfaceWrapper: a parameter that cannot be bound.
BindErr(p) ==
    /\ at[p] = "bind" /\ request[p].defect = "bind"
    /\ HandleError(p, "InvalidParamFormatError")
    /\ Goto(p, "handled")
    /\ UNCHANGED <<storeVars, request, ended, known>>

\* UsersHandler.GetUsers returns before it asks the repository.
ParamsOk(r) ==
    /\ r.defect # "fields"
    /\ r.route = "GetUsers" =>
        /\ PageOk(r.page) /\ SizeOk(r.size)
        /\ NewPageRequestErr(r.page, r.size) = "nil"

ParamErr(p) ==
    /\ at[p] = "bind" /\ request[p].defect # "bind"
    /\ ~ParamsOk(request[p])
    /\ HandleError(p, "InvalidParamFormatError")
    /\ Goto(p, "handled")
    /\ UNCHANGED <<storeVars, request, ended, known>>

RepositoryCall(r) ==
    IF r.route = "GetUsers"
    THEN [op |-> "list", pr |-> [page |-> r.page, size |-> r.size]]
    ELSE [op |-> "get", name |-> r.name]

\* The handler calls GetAll or GetByID.
CallRepository(p) ==
    /\ at[p] = "bind" /\ request[p].defect # "bind"
    /\ ParamsOk(request[p])
    /\ Call(p, RepositoryCall(request[p]), ended[p] # "no")
    /\ Goto(p, "calling")
    /\ UNCHANGED <<request, ended, wrote, body, known>>

Repository(p) ==
    /\ at[p] = "calling"
    /\ Start(p) \/ Respond(p) \/ Return(p)
    /\ UNCHANGED restVars

Answered(p, route) ==
    /\ at[p] = "calling" /\ status[p] = "idle"
    /\ request[p].route = route
    /\ Goto(p, "handled")
    /\ UNCHANGED <<storeVars, request, ended, known>>

\* GetUsers wraps every error of the repository in a plain one.
GetUsers(p) ==
    /\ Answered(p, "GetUsers")
    /\ IF out[p].kind = "page" THEN Write(p, 200, "page") ELSE HandleError(p, "error")

\* Faulty forms of GetUser: every error is a missing user; an error is retried.
GetUserAllMissing(p) ==
    /\ Answered(p, "GetUser")
    /\ IF out[p] = Found THEN Write(p, 200, "user") ELSE Write(p, 404, "problem")

GetUserRetries(p) ==
    \/ /\ Answered(p, "GetUser")
       /\ out[p] = Found /\ Write(p, 200, "user")
    \/ /\ at[p] = "calling" /\ status[p] = "idle"
       /\ request[p].route = "GetUser" /\ out[p] # Found
       /\ Goto(p, "bind")
       /\ UNCHANGED <<storeVars, request, ended, known, wrote, body>>

\* GetUser tells a missing user from any other error.
GetUser(p) ==
    /\ Answered(p, "GetUser")
    /\ IF out[p] = Found THEN Write(p, 200, "user")
       ELSE Write(p, IF out[p] = Failed("notfound") THEN 404 ELSE 500, "problem")

\* The deferred function of middleware.Timeout, and then net/http, which sends
\* 200 and no body when nobody wrote a status.
Finish(p) ==
    /\ at[p] = "handled"
    /\ Write(p, IF ended[p] = "deadline" THEN 504 ELSE 200, "none")
    /\ Goto(p, "idle")
    /\ UNCHANGED <<storeVars, request, ended, known>>

\* The four seconds pass, or the client closes the connection.
End(p) ==
    /\ at[p] # "idle" /\ ended[p] = "no"
    /\ \E why \in {"deadline", "gone"} : ended' = [ended EXCEPT ![p] = why]
    /\ IF status[p] = "idle" THEN UNCHANGED storeVars ELSE Cancel(p)
    /\ UNCHANGED <<at, request, wrote, body, known>>

\* The watcher of a cancelled listing, while the listing is served and after.
Watcher(p) == (Linger(p) \/ Discard(p)) /\ UNCHANGED restVars

\* run returns: its deferred call closes the pool under the requests in progress ...
RunEnds == Close /\ UNCHANGED restVars

\* ... and main returns, whatever is in progress: nobody waits for it.
Exit ==
    /\ closed /\ ~exited
    /\ exited' = TRUE
    /\ UNCHANGED <<storeVars, restVars>>

Running == ~exited /\ UNCHANGED exited

\* Somebody else calls the repository.
Other(p) ==
    /\ \/ \E r \in {c \in Creates : c.valid} \cup Lists : Call(p, r, FALSE)
       \/ Start(p) \/ Respond(p) \/ Return(p) \/ Cancel(p)
    /\ UNCHANGED restVars

Serve(p) ==
    /\ Running
    /\ \/ BindErr(p) \/ ParamErr(p) \/ CallRepository(p) \/ Repository(p)
       \/ GetUsers(p) \/ GetUser(p) \/ Finish(p)

Next ==
    \/ Exit
    \/ Running /\ RunEnds
    \/ \E p \in Readers : Serve(p) \/ (Running /\ (Receive(p) \/ End(p)))
    \/ \E p \in Others : Running /\ Other(p)
    \/ \E p \in Procs : Running /\ Watcher(p)

\* net/http serves every connection on a goroutine of its own, which the scheduler
\* runs while the process is there.
Spec == Init /\ [][Next]_vars /\ \A p \in Readers : WF_vars(Serve(p))

(***************************************************************************)
(* Correctness.                                                            *)
(***************************************************************************)
\* The types of the variables of this module.
RequestTypes ==
    /\ at \in [Readers -> {"idle", "bind", "calling", "handled"}]
    /\ request \in [Readers -> HttpRequests \cup {NoHttp}]
    /\ ended \in [Readers -> {"no", "deadline", "gone"}]
    /\ wrote \in [Readers -> {0, 200, 400, 404, 500, 504}]
    /\ body \in [Readers -> {"none", "problem", "page", "user"}]
    /\ known \in [Readers -> SUBSET Names]

TypeOK == RequestTypes /\ exited \in BOOLEAN

Done(p, route) == at[p] = "idle" /\ request[p].route = route

\* GET /api/v1/users/{userId} answers as openapi.yml says, whatever happens to
\* the repository: a user with 200, a problem with 400, 404 or 500.  The
\* timeout, which is not in openapi.yml, never replaces a status.
GetUserConforms ==
    \A p \in Readers : Done(p, "GetUser") =>
        \/ wrote[p] = 200 /\ body[p] = "user"
        \/ wrote[p] \in {400, 404, 500} /\ body[p] = "problem"

\* A user that was stored when the request arrived is not reported missing, even
\* if the database is locked or lost meanwhile: 404 means that it is not there.
NotFoundIsTrue ==
    \A p \in Readers : Done(p, "GetUser") /\ wrote[p] = 404 =>
        request[p].name \notin known[p]

\* A page counts at least the users that were stored when the request arrived,
\* and a first page that has room for all users shows every one of them.
PageShowsKnown ==
    \A p \in Readers : Done(p, "GetUsers") /\ body[p] = "page" =>
        /\ out[p].total >= Cardinality(known[p])
        /\ request[p].page = 0 /\ out[p].total <= request[p].size
             => known[p] \subseteq Rows(out[p].content)

\* Every request is answered, the timed out and the abandoned ones too, unless the
\* process exits first: it exits under the requests in progress.
EveryRequestAnswered ==
    \A p \in Readers : at[p] # "idle" ~> (at[p] = "idle" \/ exited)

\* openapi.yml lines 165-183: GET /api/v1/users answers 200 with a page, or a
\* problem with another status.
GetUsersConforms ==
    \A p \in Readers : Done(p, "GetUsers") /\ ended[p] # "gone" =>
        \/ wrote[p] = 200 /\ body[p] = "page"
        \/ wrote[p] \in {400, 500} /\ body[p] = "problem"
        \/ wrote[p] = 504
=============================================================================
