--------------------------- MODULE UserRepository ---------------------------
(***************************************************************************)
(* internal/infrastructure/db/repository.go as it runs: many goroutines    *)
(* call Create, GetAll and GetByID of one Repository, over the queries of  *)
(* internal/infrastructure/db/sqlc and the pool that config.Migrate opens. *)
(*                                                                         *)
(* Under the repository lie two things whose rules matter and whose code   *)
(* is not in src/ (marked external in the project's map):                  *)
(*   - database/sql: at most MaxIdle idle connections; a transaction whose *)
(*     context ends is rolled back by a watcher goroutine, which marks it  *)
(*     done at once and later, when the call may have returned already,    *)
(*     rolls it back and throws its connection away;                       *)
(*   - SQLite with "cache=shared&mode=memory" (dbconfig.go line 20): table *)
(*     locks are refused at once and never waited for, and the database is *)
(*     gone when its last connection is.                                   *)
(* An INSERT ... RETURNING read with QueryRow runs in two steps: the first *)
(* inserts and returns the row, closing the rows commits.                  *)
(*                                                                         *)
(* Next to some definitions stands a faulty variant (TakeConnUnchecked,    *)
(* FailAndDiscard, InsertWaits, GetErrIsNotFound, LeaveWithoutRollback,    *)
(* ReadOutsideTx).  Next does not use it: put in the place of its          *)
(* neighbour it breaks a property, which is how the project sees that the  *)
(* property can fail.                                                      *)
(***************************************************************************)
EXTENDS UserCalls

CONSTANTS
    Procs,          \* goroutines that serve requests, with their watchers
    Seed,           \* the users the migrations insert, in order
    MaxIdle,        \* idle connections database/sql keeps (2 by default)
    MayCancel,      \* goroutines whose context may be cancelled or time out
    MayClose,       \* whether run may end, and close the pool, meanwhile
    None

ASSUME SeedAssumption == Seed \in Seq(Names)
ASSUME MaxIdleAssumption == MaxIdle \in Nat \ {0}
ASSUME NoneAssumption == None \notin Procs
ASSUME MayCloseAssumption == MayClose \in BOOLEAN

VARIABLES
    table,          \* committed rows, in rowid order
    live,           \* the in-memory database with its users table exists
    closed,         \* the pool is closed
    idle,           \* number of idle connections in the pool
    conn,           \* conn[p]: p holds a connection
    writer,         \* who holds the write lock on users, with an uncommitted row
    readers,        \* who holds a read lock on users
    pc,             \* where the call of p is
    req,            \* the call p made last
    ctx,            \* whether the context of that call is done
    tx,             \* its sql.Tx: none, open, ending (by the watcher), done
    rows, total,    \* results of GetUsers and CountUsers
    out             \* what the call returned

db == <<table, live, closed, idle, conn, writer, readers>>
call == <<pc, req, ctx, tx, rows, total, out>>
vars == <<db, call>>

(***************************************************************************)
(* After Migrate: the users table is there with the rows of the second     *)
(* migration, and the connection that ran the migrations is idle.          *)
(***************************************************************************)
Init ==
    /\ table = Seed
    /\ live = TRUE
    /\ closed = FALSE
    /\ idle = 1
    /\ conn = [p \in Procs |-> FALSE]
    /\ writer = None
    /\ readers = {}
    /\ pc = [p \in Procs |-> "idle"]
    /\ req = [p \in Procs |-> NoRequest]
    /\ ctx = [p \in Procs |-> FALSE]
    /\ tx = [p \in Procs |-> "none"]
    /\ rows = [p \in Procs |-> <<>>]
    /\ total = [p \in Procs |-> 0]
    /\ out = [p \in Procs |-> NoOut]

(***************************************************************************)
(* The pool.                                                               *)
(***************************************************************************)
\* An idle connection is taken, or a new one opened when there is none.
TakeConnUnchecked(n) == n - 1
TakeConn(n) == IF n > 0 THEN n - 1 ELSE n

LastConn(p) == idle = 0 /\ \A q \in Procs \ {p} : ~conn[q]

\* The connection of p is closed for good; the table would have become s.
CloseConn(p, s) ==
    /\ conn' = [conn EXCEPT ![p] = FALSE]
    /\ idle' = idle
    /\ IF LastConn(p) THEN table' = <<>> /\ live' = FALSE
                      ELSE table' = s /\ live' = live

\* putConn: the connection of p goes back to the pool, if the pool wants it.
PutConn(p, s) ==
    IF closed \/ idle >= MaxIdle
    THEN CloseConn(p, s)
    ELSE /\ conn' = [conn EXCEPT ![p] = FALSE]
         /\ idle' = idle + 1
         /\ table' = s
         /\ live' = live

(***************************************************************************)
(* Steps shared by the calls.                                              *)
(***************************************************************************)
Goto(p, l) == pc' = [pc EXCEPT ![p] = l]

\* The call returns o to its caller.
Reply(p, o) ==
    /\ Goto(p, "idle")
    /\ out' = [out EXCEPT ![p] = o]
    /\ ctx' = [ctx EXCEPT ![p] = FALSE]

\* A name in Procs is used for the next call when the watcher of its last one is
\* gone too.
Call(p) ==
    /\ pc[p] = "idle" /\ tx[p] # "ending"
    /\ \E r \in Requests : req' = [req EXCEPT ![p] = r]
    /\ Goto(p, "entry")
    /\ out' = [out EXCEPT ![p] = NoOut]
    /\ UNCHANGED <<db, ctx, tx, rows, total>>

\* newNewUser finds the username or the password invalid.
Reject(p) ==
    /\ pc[p] = "entry"
    /\ req[p].op = "create" /\ ~req[p].valid
    /\ Reply(p, Failed("invalid"))
    /\ UNCHANGED <<db, req, tx, rows, total>>

NeedsConn(p) == pc[p] = "entry" /\ (req[p].op = "create" => req[p].valid)

\* The pool hands out no connection.
ConnectErr(p) ==
    /\ NeedsConn(p)
    /\ closed \/ ctx[p]
    /\ Reply(p, Failed(IF closed THEN "closed" ELSE "cancelled"))
    /\ UNCHANGED <<db, req, tx, rows, total>>

\* An idle connection, or a new one: the pool has no upper limit.
Connect(p) ==
    /\ NeedsConn(p)
    /\ ~closed /\ ~ctx[p]
    /\ conn' = [conn EXCEPT ![p] = TRUE]
    /\ idle' = TakeConn(idle)
    /\ Goto(p, CASE req[p].op = "create" -> "insert"
                 [] req[p].op = "list"   -> "begin"
                 [] OTHER                -> "get")
    /\ UNCHANGED <<table, live, closed, writer, readers>>
    /\ UNCHANGED <<req, ctx, tx, rows, total, out>>

FailAndDiscard(p, why) ==
    /\ CloseConn(p, table)
    /\ Reply(p, Failed(why))
    /\ UNCHANGED <<closed, writer, readers, req, tx, rows, total>>

\* A call outside a transaction fails: its connection goes back to the pool.
FailAndPut(p, why) ==
    /\ PutConn(p, table)
    /\ Reply(p, Failed(why))
    /\ UNCHANGED <<closed, writer, readers, req, tx, rows, total>>

\* SQLite refuses a SELECT (write = FALSE) or an INSERT (write = TRUE) of p, or
\* the end of the context interrupts it.
Refused(p, write, why) ==
    \/ why = "nodb" /\ ~live
    \/ why = "locked" /\ live /\ (writer # None \/ (write /\ readers # {}))
    \/ /\ why = "duplicate" /\ write
       /\ live /\ writer = None /\ readers = {}
       /\ req[p].name \in Rows(table)
    \/ why = "cancelled" /\ ctx[p]

\* Only the context may still interrupt the statement.
Allowed(p, write) == \A why \in Failures \ {"cancelled"} : ~Refused(p, write, why)

(***************************************************************************)
(* Create: queries.CreateUser.                                             *)
(***************************************************************************)
InsertWaits(p) ==
    /\ pc[p] = "insert"
    /\ \E why \in Failures \ {"locked"} : Refused(p, TRUE, why) /\ FailAndPut(p, why)

\* The statement fails and leaves nothing behind.
InsertErr(p) ==
    /\ pc[p] = "insert"
    /\ \E why \in Failures : Refused(p, TRUE, why) /\ FailAndPut(p, why)

\* The first step of the statement: the row is inserted, and not yet committed.
Insert(p) ==
    /\ pc[p] = "insert"
    /\ Allowed(p, TRUE)
    /\ writer' = p
    /\ Goto(p, "inserted")
    /\ UNCHANGED <<table, live, closed, idle, conn, readers>>
    /\ UNCHANGED <<req, ctx, tx, rows, total, out>>

\* Row.Scan closes the rows, which commits.  If the context ended after the
\* first step, Scan may return its error; the row is there all the same.
InsertClose(p) ==
    /\ pc[p] = "inserted"
    /\ writer' = None
    /\ PutConn(p, Append(table, req[p].name))
    /\ \E o \in {Created} \cup {f \in {Failed("cancelled")} : ctx[p]} : Reply(p, o)
    /\ UNCHANGED <<closed, readers, req, tx, rows, total>>

(***************************************************************************)
(* GetByID: queries.GetUserByID.                                           *)
(***************************************************************************)
GetErrIsNotFound(p) ==
    /\ pc[p] = "get"
    /\ \E why \in Failures : Refused(p, FALSE, why) /\ FailAndPut(p, "notfound")

GetErr(p) ==
    /\ pc[p] = "get"
    /\ \E why \in Failures : Refused(p, FALSE, why) /\ FailAndPut(p, why)

GetNotFound(p) ==
    /\ pc[p] = "get"
    /\ Allowed(p, FALSE)
    /\ req[p].name \notin Rows(table)
    /\ FailAndPut(p, "notfound")

\* The row is read; the statement holds its read lock until the rows close.
Get(p) ==
    /\ pc[p] = "get"
    /\ Allowed(p, FALSE)
    /\ req[p].name \in Rows(table)
    /\ readers' = readers \cup {p}
    /\ Goto(p, "got")
    /\ UNCHANGED <<table, live, closed, idle, conn, writer>>
    /\ UNCHANGED <<req, ctx, tx, rows, total, out>>

GetClose(p) ==
    /\ pc[p] = "got"
    /\ readers' = readers \ {p}
    /\ PutConn(p, table)
    /\ \E o \in {Found} \cup {f \in {Failed("cancelled")} : ctx[p]} : Reply(p, o)
    /\ UNCHANGED <<closed, writer, req, tx, rows, total>>

(***************************************************************************)
(* GetAll: a transaction of two queries and a deferred Rollback.           *)
(***************************************************************************)
LeaveWithoutRollback(p, o) ==
    /\ Goto(p, "idle")
    /\ out' = [out EXCEPT ![p] = o]
    /\ rows' = [rows EXCEPT ![p] = <<>>]
    /\ total' = [total EXCEPT ![p] = 0]

\* GetAll returns o; the deferred Rollback is still to run.
Leave(p, o) ==
    /\ Goto(p, "rollback")
    /\ out' = [out EXCEPT ![p] = o]
    /\ rows' = [rows EXCEPT ![p] = <<>>]
    /\ total' = [total EXCEPT ![p] = 0]

\* BeginTx: the statement BEGIN is interrupted, and there is nothing to undo.
BeginErr(p) ==
    /\ pc[p] = "begin"
    /\ ctx[p]
    /\ FailAndPut(p, "cancelled")

\* BEGIN is deferred: it takes no lock.  From here on the watcher runs.
Begin(p) ==
    /\ pc[p] = "begin"
    /\ tx' = [tx EXCEPT ![p] = "open"]
    /\ Goto(p, "read")
    /\ UNCHANGED <<db, req, ctx, rows, total, out>>

\* A query of a transaction that the watcher marked done fails with ErrTxDone.
TxDone(p) ==
    /\ pc[p] \in {"read", "count", "commit"}
    /\ tx[p] \in {"ending", "done"}
    /\ Leave(p, Failed("cancelled"))
    /\ UNCHANGED <<db, req, ctx, tx>>

\* A refused or interrupted SELECT.  Interrupted, it may have its lock already,
\* which the transaction keeps.
ReadErr(p) ==
    /\ pc[p] = "read" /\ tx[p] = "open"
    /\ \E why \in Failures :
        /\ Refused(p, FALSE, why)
        /\ Leave(p, Failed(why))
        /\ \/ readers' = readers
           \/ why = "cancelled" /\ Allowed(p, FALSE) /\ readers' = readers \cup {p}
    /\ UNCHANGED <<table, live, closed, idle, conn, writer, req, ctx, tx>>

ReadOutsideTx(p) ==
    /\ pc[p] = "read" /\ tx[p] = "open"
    /\ Allowed(p, FALSE)
    /\ rows' = [rows EXCEPT ![p] = PageOf(table, req[p].pr)]
    /\ Goto(p, "count")
    /\ UNCHANGED <<db, req, ctx, tx, total, out>>

\* GetUsers: the transaction takes its read lock and keeps it.
Read(p) ==
    /\ pc[p] = "read" /\ tx[p] = "open"
    /\ Allowed(p, FALSE)
    /\ rows' = [rows EXCEPT ![p] = PageOf(table, req[p].pr)]
    /\ readers' = readers \cup {p}
    /\ Goto(p, "count")
    /\ UNCHANGED <<table, live, closed, idle, conn, writer>>
    /\ UNCHANGED <<req, ctx, tx, total, out>>

CountErr(p) ==
    /\ pc[p] = "count" /\ tx[p] = "open"
    /\ \E why \in Failures : Refused(p, FALSE, why) /\ Leave(p, Failed(why))
    /\ UNCHANGED <<db, req, ctx, tx>>

\* CountUsers.
Count(p) ==
    /\ pc[p] = "count" /\ tx[p] = "open"
    /\ Allowed(p, FALSE)
    /\ total' = [total EXCEPT ![p] = Len(table)]
    /\ Goto(p, "commit")
    /\ UNCHANGED <<db, req, ctx, tx, rows, out>>

\* Tx.Commit looks at the context first.
CommitErr(p) ==
    /\ pc[p] = "commit" /\ tx[p] = "open"
    /\ ctx[p]
    /\ Leave(p, Failed("cancelled"))
    /\ UNCHANGED <<db, req, ctx, tx>>

Commit(p) ==
    /\ pc[p] = "commit" /\ tx[p] = "open"
    /\ ~ctx[p]
    /\ tx' = [tx EXCEPT ![p] = "done"]
    /\ readers' = readers \ {p}
    /\ PutConn(p, table)
    /\ Leave(p, PageFound(rows[p], total[p]))
    /\ UNCHANGED <<closed, writer, req, ctx>>

\* The deferred Rollback of a transaction that ended otherwise logs ErrTxDone,
\* also when the watcher has not yet given up its lock and its connection.
RollbackDone(p) ==
    /\ pc[p] = "rollback" /\ tx[p] \in {"ending", "done"}
    /\ tx' = [tx EXCEPT ![p] = IF @ = "done" THEN "none" ELSE @]
    /\ Reply(p, out[p])
    /\ UNCHANGED <<db, req, rows, total>>

\* It ends the others and gives the connection back.
Rollback(p) ==
    /\ pc[p] = "rollback" /\ tx[p] = "open"
    /\ tx' = [tx EXCEPT ![p] = "none"]
    /\ readers' = readers \ {p}
    /\ PutConn(p, table)
    /\ Reply(p, out[p])
    /\ UNCHANGED <<closed, writer, req, rows, total>>

\* Tx.awaitDone: the context ended.  Tx.rollback marks the transaction done ...
WatchEnds(p) ==
    /\ tx[p] = "open" /\ ctx[p]
    /\ tx' = [tx EXCEPT ![p] = "ending"]
    /\ UNCHANGED <<db, pc, req, ctx, rows, total, out>>

\* ... and then rolls it back and throws its connection away.  The two are one
\* step: a call that gets the lock between them has a connection of its own.
Discard(p) ==
    /\ tx[p] = "ending"
    /\ tx' = [tx EXCEPT ![p] = IF pc[p] = "idle" THEN "none" ELSE "done"]
    /\ readers' = readers \ {p}
    /\ CloseConn(p, table)
    /\ UNCHANGED <<closed, writer, pc, req, ctx, rows, total, out>>

(***************************************************************************)
(* The environment.                                                        *)
(***************************************************************************)
\* The client goes away, its deadline passes, or middleware.Timeout fires.
Cancel(p) ==
    /\ p \in MayCancel
    /\ pc[p] # "idle" /\ ~ctx[p]
    /\ ctx' = [ctx EXCEPT ![p] = TRUE]
    /\ UNCHANGED <<db, pc, req, tx, rows, total, out>>

\* The deferred dbConn.Close of run: idle connections close now, the others
\* when they come back.
Close ==
    /\ MayClose /\ ~closed
    /\ closed' = TRUE
    /\ idle' = 0
    /\ IF \E p \in Procs : conn[p] THEN table' = table /\ live' = live
                                   ELSE table' = <<>> /\ live' = FALSE
    /\ UNCHANGED <<conn, writer, readers, call>>

Step(p) ==
    \/ Reject(p) \/ ConnectErr(p) \/ Connect(p)
    \/ InsertErr(p) \/ Insert(p) \/ InsertClose(p)
    \/ GetErr(p) \/ GetNotFound(p) \/ Get(p) \/ GetClose(p)
    \/ BeginErr(p) \/ Begin(p) \/ TxDone(p) \/ ReadErr(p) \/ Read(p)
    \/ CountErr(p) \/ Count(p) \/ CommitErr(p) \/ Commit(p)
    \/ RollbackDone(p) \/ Rollback(p)

Next ==
    \/ Close
    \/ \E p \in Procs : Call(p) \/ Step(p) \/ WatchEnds(p) \/ Discard(p) \/ Cancel(p)

\* The Go scheduler runs every goroutine that can run; calls, cancellations and
\* the end of run are never owed.
Fairness ==
    \A p \in Procs : WF_vars(Step(p)) /\ WF_vars(WatchEnds(p)) /\ WF_vars(Discard(p))

Spec == Init /\ [][Next]_vars /\ Fairness

(***************************************************************************)
(* Correctness.                                                            *)
(***************************************************************************)
Labels == {"idle", "entry", "insert", "inserted", "get", "got",
           "begin", "read", "count", "commit", "rollback"}

\* The types of the variables.
TypeOK ==
    /\ table \in Seq(Names)
    /\ live \in BOOLEAN /\ closed \in BOOLEAN
    /\ idle \in Nat
    /\ conn \in [Procs -> BOOLEAN]
    /\ writer \in Procs \cup {None}
    /\ readers \in SUBSET Procs
    /\ pc \in [Procs -> Labels]
    /\ req \in [Procs -> Requests \cup {NoRequest}]
    /\ ctx \in [Procs -> BOOLEAN]
    /\ tx \in [Procs -> {"none", "open", "ending", "done"}]
    /\ rows \in [Procs -> Seq(Names)]
    /\ total \in [Procs -> Nat]
    /\ out \in [Procs -> Outcomes]

\* A call that returned, whichever way it took out of Create, GetAll or
\* GetByID, left no connection, transaction or table lock behind: a leaked read
\* lock would refuse every later Create.  Only a cancelled listing may return
\* before the watcher that took over its transaction has given them up.
IdleHoldsNothing ==
    \A p \in Procs : pc[p] = "idle" =>
        /\ writer # p
        /\ tx[p] # "ending" => ~conn[p] /\ tx[p] = "none" /\ p \notin readers

\* What GetUsers read is still the page when CountUsers runs and when the
\* transaction commits, and so is the count: nobody's Create, and no loss of
\* the database, comes between the two queries of GetAll (lines 83-99).
ListingIsSnapshot ==
    \A p \in Procs :
        /\ tx[p] = "open" /\ pc[p] \in {"count", "commit"}
             => live /\ rows[p] = PageOf(table, req[p].pr)
        /\ tx[p] = "open" /\ pc[p] = "commit" => total[p] = Len(table)

\* A page handed to a handler has as many users as its own total says the page
\* must have (the handler computes totalPages and the links from that total).
PageMatchesTotal ==
    \A p \in Procs : out[p].kind = "page" =>
        Len(out[p].content) = PageLen(out[p].total, req[p].pr)

(***************************************************************************)
(* The inductive invariant behind these: who holds what at which label.    *)
(***************************************************************************)
ConnInv ==
    \A p \in Procs :
        /\ conn[p] <=> \/ pc[p] \in {"insert", "inserted", "get", "got", "begin"}
                       \/ tx[p] \in {"open", "ending"}
        /\ pc[p] \in {"read", "count", "commit", "rollback"} => tx[p] # "none"
        /\ pc[p] \notin {"read", "count", "commit", "rollback"} =>
             tx[p] = "none" \/ (pc[p] = "idle" /\ tx[p] = "ending")

OpInv ==
    \A p \in Procs :
        /\ pc[p] # "idle" => req[p] \in Requests
        /\ pc[p] \in {"insert", "inserted"} => req[p].op = "create"
        /\ pc[p] \in {"get", "got"} => req[p].op = "get"
        /\ pc[p] \in {"begin", "read", "count", "commit", "rollback"} => req[p].op = "list"
        /\ tx[p] = "ending" => req[p].op = "list"

LockInv ==
    /\ \A p \in Procs :
        /\ writer = p <=> pc[p] = "inserted"
        /\ p \in readers =>
             \/ pc[p] = "got" \/ tx[p] = "ending"
             \/ tx[p] = "open" /\ pc[p] \in {"count", "commit", "rollback"}
        /\ pc[p] = "got" \/ (tx[p] = "open" /\ pc[p] \in {"count", "commit"}) => p \in readers
    /\ writer # None => readers = {}
    /\ writer # None \/ readers # {} => live

\* Locks, connections and transactions belong to calls in progress and to the
\* watchers of cancelled listings, and a listing that read its page is protected by
\* its lock until it commits.
IInv == TypeOK /\ ConnInv /\ OpInv /\ LockInv /\ ListingIsSnapshot /\ PageMatchesTotal

(***************************************************************************)
(* What the answer of a call in progress rests on: the row Create inserts  *)
(* is still new when it is committed, the row GetByID found is still there *)
(* when it returns, and only the context of a listing ends its transaction *)
(* early.                                                                  *)
(***************************************************************************)
AnswerOK(p) ==
    /\ pc[p] = "idle" => ~ctx[p]
    /\ pc[p] \in {"insert", "inserted"} => req[p].valid
    /\ pc[p] = "inserted" => req[p].name \notin Rows(table)
    /\ pc[p] = "got" => req[p].name \in Rows(table)
    /\ tx[p] \in {"ending", "done"} /\ pc[p] \in {"read", "count", "commit"} => ctx[p]

\* The inductive invariant of the refinement below.
RInv == IInv /\ \A p \in Procs : AnswerOK(p)

\* A committed user stays, in its place: no call, failing or not, removes or
\* reorders rows.  Holds while nothing is cancelled and the pool is open.
UsersKept ==
    [][/\ Len(table) <= Len(table')
       /\ SubSeq(table', 1, Len(table)) = table]_vars

\* The in-memory database is lost for two reasons only: the pool is closed, or
\* the watcher of a cancelled listing throws away the last connection.
LossNeedsCancelledListing ==
    [][live /\ ~live' => closed' \/ \E p \in Procs : tx[p] = "ending"]_vars

\* Every call returns, whatever the others do: locks are refused, not waited for.
EveryCallReturns == \A p \in Procs : pc[p] # "idle" ~> pc[p] = "idle"

\* No connection is held for ever, not even that of a cancelled listing which
\* returned to its caller without it: somebody is left who gives it up.
ConnectionsComeBack == \A p \in Procs : conn[p] ~> ~conn[p]

\* The repository implements the atomic store its interface promises; a call
\* begins with its connection, is answered once its result is fixed and returns
\* after its deferred Rollback.
status == [p \in Procs |-> CASE pc[p] = "idle"     -> "idle"
                             [] pc[p] = "entry"    -> "called"
                             [] pc[p] = "rollback" -> "answered"
                             [] OTHER              -> "begun"]

lingers == {p \in Procs : tx[p] = "ending"}

Store == INSTANCE UserStore WITH store <- table

ImplementsUserStore == Store!StoreSpec
=============================================================================
