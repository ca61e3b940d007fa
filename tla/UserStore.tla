------------------------------ MODULE UserStore ------------------------------
(***************************************************************************)
(* What users.Repository promises its callers (internal/users/repository.go*)
(* lines 8-21): every call takes effect in one step, at some moment between*)
(* the call and its return, or fails without an effect.  UserRepository is *)
(* shown to implement this specification; GrpcUsers and RestUsers are built*)
(* on it.                                                                  *)
(*                                                                         *)
(* The database lives in memory, as long as a connection to it is open.    *)
(* The specification says exactly when its content may vanish: after the   *)
(* pool is closed, or because a listing was cancelled.  The transaction of *)
(* such a listing is thrown away by a watcher goroutine of database/sql,   *)
(* which may still linger, with its lock and its connection, when the call *)
(* has returned.                                                           *)
(***************************************************************************)
EXTENDS UserCalls

CONSTANTS
    Procs,          \* goroutines that serve requests, with their watchers
    Seed            \* the users the migrations insert, in order

VARIABLES
    store,          \* the committed rows, in insertion order
    live,           \* the users table still exists
    closed,         \* sql.DB.Close was called
    status,         \* of each goroutine: idle, called, begun, answered
    lingers,        \* whose cancelled transaction is still to be thrown away
    req,            \* the call it made last
    ctx,            \* whether the context of that call is done
    out             \* what its last call returned

storeVars == <<store, live, closed, status, lingers, req, ctx, out>>

StoreInit ==
    /\ store = Seed
    /\ live = TRUE
    /\ closed = FALSE
    /\ status = [p \in Procs |-> "idle"]
    /\ lingers = {}
    /\ req = [p \in Procs |-> NoRequest]
    /\ ctx = [p \in Procs |-> FALSE]
    /\ out = [p \in Procs |-> NoOut]

\* done: the context of the caller has ended already.  A name in Procs is used
\* for the next call when the watcher of its last one is gone too.
Call(p, r, done) ==
    /\ status[p] = "idle" /\ p \notin lingers
    /\ status' = [status EXCEPT ![p] = "called"]
    /\ req' = [req EXCEPT ![p] = r]
    /\ out' = [out EXCEPT ![p] = NoOut]
    /\ ctx' = [ctx EXCEPT ![p] = done]
    /\ UNCHANGED <<store, live, closed, lingers>>

\* The pool hands out a connection, which it does only while it is open, and
\* which Create only asks for when its user is valid.
Start(p) ==
    /\ status[p] = "called" /\ ~closed
    /\ req[p].op = "create" => req[p].valid
    /\ status' = [status EXCEPT ![p] = "begun"]
    /\ UNCHANGED <<store, live, closed, lingers, req, ctx, out>>

\* The client goes away, its deadline passes, or middleware.Timeout fires.
Cancel(p) ==
    /\ status[p] # "idle"
    /\ ~ctx[p]
    /\ ctx' = [ctx EXCEPT ![p] = TRUE]
    /\ UNCHANGED <<store, live, closed, status, lingers, req, out>>

\* The content of the table becomes s, unless the pool is closed and the last
\* connection goes with this answer.
Settle(s) ==
    \/ store' = s /\ live' = live
    \/ closed /\ store' = <<>> /\ live' = FALSE

\* The call of p has its result o.  A listing still runs its deferred Rollback.
Answer(p, o, s) ==
    /\ status[p] \in {"called", "begun"}
    /\ out' = [out EXCEPT ![p] = o]
    /\ \/ /\ req[p].op = "list"
          /\ status' = [status EXCEPT ![p] = "answered"] /\ UNCHANGED ctx
       \/ status' = [status EXCEPT ![p] = "idle"] /\ ctx' = [ctx EXCEPT ![p] = FALSE]
    /\ Settle(s)
    /\ UNCHANGED <<closed, lingers, req>>

\* A faulty Create: no UNIQUE constraint.
CreateNotUnique(p) ==
    /\ status[p] = "begun"
    /\ req[p].op = "create" /\ req[p].valid /\ live
    /\ Answer(p, Created, Append(store, req[p].name))

\* A new row; a caller whose context is done may be told of an error although
\* the row is there.
Create(p) ==
    /\ status[p] = "begun"
    /\ req[p].op = "create" /\ req[p].valid
    /\ live /\ req[p].name \notin Rows(store)
    /\ \/ Answer(p, Created, Append(store, req[p].name))
       \/ ctx[p] /\ Answer(p, Failed("cancelled"), Append(store, req[p].name))

\* A page and the number of all users, both of the same moment.
GetAll(p) ==
    /\ status[p] = "begun"
    /\ req[p].op = "list"
    /\ live /\ ~ctx[p]
    /\ Answer(p, PageFound(PageOf(store, req[p].pr), Len(store)), store)

GetByID(p) ==
    /\ status[p] = "begun"
    /\ req[p].op = "get"
    /\ live /\ req[p].name \in Rows(store)
    /\ Answer(p, Found, store)

\* A call fails for one of these reasons only, and then changes nothing.  A lock
\* is held by a call in progress, or by a watcher that lingers.
MayFail(p, why) ==
    /\ why \in {"invalid", "closed"} => status[p] = "called"
    /\ why \in {"nodb", "locked", "duplicate", "notfound"} => status[p] = "begun"
    /\ CASE why = "invalid"   -> req[p].op = "create" /\ ~req[p].valid
         [] why = "closed"    -> closed
         [] why = "cancelled" -> ctx[p]
         [] why = "nodb"      -> ~live
         [] why = "locked"    -> \E q \in Procs \ {p} :
                                     /\ status[q] # "idle" \/ q \in lingers
                                     /\ "create" \in {req[p].op, req[q].op}
         [] why = "duplicate" -> req[p].op = "create" /\ req[p].name \in Rows(store)
         [] why = "notfound"  -> live /\ req[p].op = "get" /\ req[p].name \notin Rows(store)

Fail(p) ==
    \E why \in Failures : MayFail(p, why) /\ Answer(p, Failed(why), store)

Return(p) ==
    /\ status[p] = "answered"
    /\ status' = [status EXCEPT ![p] = "idle"]
    /\ ctx' = [ctx EXCEPT ![p] = FALSE]
    /\ Settle(store)
    /\ UNCHANGED <<closed, lingers, req, out>>

\* The watcher of a cancelled listing takes its transaction over.
Linger(p) ==
    /\ status[p] # "idle" /\ req[p].op = "list" /\ ctx[p]
    /\ p \notin lingers
    /\ lingers' = lingers \cup {p}
    /\ UNCHANGED <<store, live, closed, status, req, ctx, out>>

\* It throws the connection away, which may be the last one.  The call may have
\* returned by then.
Discard(p) ==
    /\ p \in lingers
    /\ lingers' = lingers \ {p}
    /\ \/ store' = store /\ live' = live
       \/ store' = <<>> /\ live' = FALSE
    /\ UNCHANGED <<closed, status, req, ctx, out>>

\* The deferred Close of run.
Close ==
    /\ ~closed /\ closed' = TRUE
    /\ \/ store' = store /\ live' = live
       \/ store' = <<>> /\ live' = FALSE
    /\ UNCHANGED <<status, lingers, req, ctx, out>>

Respond(p) == Create(p) \/ GetAll(p) \/ GetByID(p) \/ Fail(p)

StoreNext ==
    \/ Close
    \/ \E p \in Procs :
        \/ \E r \in Requests, done \in BOOLEAN : Call(p, r, done)
        \/ Start(p) \/ Cancel(p) \/ Respond(p) \/ Return(p)
        \/ Linger(p) \/ Discard(p)

StoreSpec == StoreInit /\ [][StoreNext]_storeVars
=============================================================================
