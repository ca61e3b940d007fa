---------------------- MODULE UserRepositoryRefinement ----------------------
(***************************************************************************)
(* The repository implements the atomic store of UserStore, step by step,  *)
(* for any number of goroutines, names, page requests and idle connections;*)
(* and what follows for the committed rows.                                *)
(***************************************************************************)
EXTENDS UserRepositoryProofs

(***************************************************************************)
(* What happens to the table.                                              *)
(***************************************************************************)
\* What a step of p may do to the table: nothing, commit the row p inserted, or
\* lose it with the last connection, which is that of p.
TableStep(p) ==
    \/ table' = table
    \/ table' = <<>> /\ LastConn(p)
    \/ writer = p /\ table' = Append(table, req[p].name)

\* A step of p leaves the calls of all others as they are.
OthersSame(p) ==
    \A q \in Procs \ {p} :
        pc'[q] = pc[q] /\ req'[q] = req[q] /\ ctx'[q] = ctx[q] /\ tx'[q] = tx[q]

\* A step of p does not shake what the answers of the others rest on.
LEMMA OthersKept ==
  ASSUME RInv, NEW p \in Procs, TableStep(p), OthersSame(p), NEW q \in Procs \ {p}
  PROVE  AnswerOK(q)'
<1>1. /\ pc'[q] = pc[q] /\ req'[q] = req[q] /\ ctx'[q] = ctx[q] /\ tx'[q] = tx[q]
      /\ q \in Procs /\ q # p /\ AnswerOK(q)
  BY DEF OthersSame, RInv
<1>2. CASE table' = table
  BY <1>1, <1>2 DEF AnswerOK
<1>3. CASE table' = <<>> /\ LastConn(p)
  <2>1. pc[q] # "got"
    BY <1>1, <1>3, LastConnFacts DEF RInv, IInv, ConnInv
  <2> QED BY <1>1, <1>3, <2>1, NoRows DEF AnswerOK
<1>4. CASE writer = p /\ table' = Append(table, req[p].name)
  <2>1. pc[q] \notin {"inserted", "got"}
    BY <1>1, <1>4, AssumptionsHold DEF RInv, IInv, LockInv, Assumptions
  <2> QED BY <1>1, <2>1 DEF AnswerOK
<1> QED BY <1>2, <1>3, <1>4 DEF TableStep

(***************************************************************************)
(* The mapping of the variables.                                           *)
(***************************************************************************)
\* The store speaks of requests, rows and outcomes as the repository does.
LEMMA SameWords ==
  /\ Store!Requests = Requests /\ Store!NoRequest = NoRequest /\ Store!Failures = Failures
  /\ \A s : Store!Rows(s) = Rows(s)
  /\ \A s, pr : Store!PageOf(s, pr) = PageOf(s, pr)
  /\ Store!NoOut = NoOut /\ Store!Created = Created /\ Store!Found = Found
  /\ \A why : Store!Failed(why) = Failed(why)
  /\ \A s, n : Store!PageFound(s, n) = PageFound(s, n)
  BY DEF Store!Requests, Requests, Store!Creates, Creates, Store!Lists, Lists, Store!Gets, Gets,
         Store!NoRequest, NoRequest, Store!Failures, Failures, Store!Rows, Rows,
         Store!PageOf, PageOf, Store!Offset, Offset, Store!NoOut, NoOut, Store!Created, Created,
         Store!Found, Found, Store!Failed, Failed, Store!PageFound, PageFound

\* Where a call is, as the store sees it.
LEMMA StatusFacts ==
  ASSUME NEW p \in Procs
  PROVE  /\ status[p] = "idle" <=> pc[p] = "idle"
         /\ status[p] = "answered" <=> pc[p] = "rollback"
         /\ status[p] = "called" <=> pc[p] = "entry"
         /\ status[p] = "begun" <=> pc[p] \notin {"idle", "entry", "rollback"}
<1>1. status[p] = CASE pc[p] = "idle"     -> "idle"
                    [] pc[p] = "entry"    -> "called"
                    [] pc[p] = "rollback" -> "answered"
                    [] OTHER              -> "begun"
  BY DEF status
<1>2. CASE pc[p] = "idle"
  BY <1>1, <1>2
<1>3. CASE pc[p] = "entry"
  BY <1>1, <1>3
<1>4. CASE pc[p] = "rollback"
  BY <1>1, <1>4
<1>5. CASE pc[p] \notin {"idle", "entry", "rollback"}
  <2>1. status[p] = "begun"
    BY <1>1, <1>5, Zenon
  <2> QED BY <1>5, <2>1
<1> QED BY <1>2, <1>3, <1>4, <1>5

\* A call that has its connection and moves on moves nothing in the store.
LEMMA StatusSame ==
  ASSUME TypeOK, NEW p \in Procs, NEW l \in Labels \ {"idle", "entry", "rollback"}, Goto(p, l),
         pc[p] \notin {"idle", "entry", "rollback"}
  PROVE  status' = status
<1>1. ASSUME NEW q \in Procs PROVE status'[q] = status[q]
  <2>1. CASE q = p
    <3>1. pc'[p] = l
      BY DEF Goto, TypeOK
    <3> QED BY <2>1, <3>1, Zenon DEF status
  <2>2. CASE q # p
    BY <2>2 DEF status, Goto, TypeOK
  <2> QED BY <2>1, <2>2
<1> QED BY <1>1 DEF status

\* A call that starts, gets its connection or has its result moves in the store.
LEMMA StatusStep ==
  ASSUME TypeOK, NEW p \in Procs
  PROVE  /\ Goto(p, "idle") => status' = [status EXCEPT ![p] = "idle"]
         /\ Goto(p, "entry") => status' = [status EXCEPT ![p] = "called"]
         /\ Goto(p, "rollback") => status' = [status EXCEPT ![p] = "answered"]
         /\ \A l \in {"insert", "begin", "get"} :
              Goto(p, l) => status' = [status EXCEPT ![p] = "begun"]
  BY DEF status, Goto, TypeOK

\* Only the watcher changes who lingers.
LEMMA LingersSame ==
  ASSUME TypeOK, NEW p \in Procs,
         \/ tx' = tx
         \/ tx[p] # "ending" /\ \E t \in {"none", "open", "done"} : tx' = [tx EXCEPT ![p] = t]
  PROVE  lingers' = lingers
  BY DEF lingers, TypeOK

\* A connection given back settles the table as the store allows.
LEMMA PutConnSettles ==
  ASSUME TypeOK, NEW p \in Procs, NEW s \in Seq(Names), PutConn(p, s)
  PROVE  Store!Settle(s)
  BY PutConnFacts DEF Store!Settle

\* A call that returns its result at once answers in the store.
LEMMA ReplyAnswers ==
  ASSUME TypeOK, NEW p \in Procs, NEW o, NEW s, Reply(p, o), Store!Settle(s),
         pc[p] \notin {"idle", "rollback"}, closed' = closed, req' = req, tx' = tx
  PROVE  Store!Answer(p, o, s)
<1>2. lingers' = lingers
  BY LingersSame
<1>1. status[p] \in {"called", "begun"} /\ status' = [status EXCEPT ![p] = "idle"]
  BY StatusFacts, StatusStep DEF Reply
<1> QED BY <1>1, <1>2 DEF Reply, Store!Answer

\* A listing whose result is fixed answers in the store, and returns later.
LEMMA LeaveAnswers ==
  ASSUME TypeOK, NEW p \in Procs, NEW o, NEW s, Leave(p, o), Store!Settle(s),
         pc[p] \in {"read", "count", "commit"}, req[p].op = "list",
         closed' = closed, req' = req, ctx' = ctx, lingers' = lingers
  PROVE  Store!Answer(p, o, s)
<1>1. status[p] = "begun" /\ status' = [status EXCEPT ![p] = "answered"]
  BY StatusFacts, StatusStep DEF Leave
<1> QED BY <1>1 DEF Leave, Store!Answer

\* SQLite refuses a statement only for a reason the store knows.
LEMMA RefusedMayFail ==
  ASSUME RInv, NEW p \in Procs, NEW write \in BOOLEAN, NEW why \in Failures,
         Refused(p, write, why), pc[p] \in {"insert", "get", "read", "count"},
         write <=> pc[p] = "insert"
  PROVE  Store!MayFail(p, why)
<1>0. status[p] = "begun"
  BY StatusFacts
<1>1. CASE why = "nodb"
  BY <1>0, <1>1 DEF Refused, Store!MayFail
<1>2. CASE why = "cancelled"
  BY <1>2 DEF Refused, Store!MayFail
<1>3. CASE why = "duplicate"
  <2>1. pc[p] = "insert" /\ req[p].name \in Rows(table)
    BY <1>3 DEF Refused
  <2>2. req[p].op = "create"
    BY <2>1 DEF RInv, IInv, OpInv
  <2> QED BY <1>0, <1>3, <2>1, <2>2, SameWords DEF Store!MayFail
<1>4. CASE why = "locked"
  <2>1. CASE writer # None
    <3>1. writer \in Procs /\ pc[writer] = "inserted" /\ writer # p
      BY <2>1 DEF RInv, IInv, TypeOK, LockInv
    <3>2. req[writer].op = "create" /\ status[writer] # "idle"
      BY <3>1, StatusFacts DEF RInv, IInv, OpInv
    <3> QED BY <1>0, <1>4, <3>1, <3>2 DEF Store!MayFail
  <2>2. CASE writer = None
    <3>1. write /\ readers # {}
      BY <1>4, <2>2 DEF Refused
    <3>2. PICK q \in Procs : q \in readers
      BY <3>1 DEF RInv, IInv, TypeOK
    <3>3. (pc[q] # "idle" \/ tx[q] = "ending") /\ q # p
      BY <3>1, <3>2 DEF RInv, IInv, LockInv, ConnInv
    <3>4. req[p].op = "create" /\ (status[q] # "idle" \/ q \in lingers)
      BY <3>1, <3>3, StatusFacts DEF RInv, IInv, OpInv, lingers
    <3> QED BY <1>0, <1>4, <3>3, <3>4 DEF Store!MayFail
  <2> QED BY <2>1, <2>2
<1> QED BY <1>1, <1>2, <1>3, <1>4 DEF Refused

(***************************************************************************)
(* One lemma per group of actions: a step of p is a step of the store or   *)
(* none at all, and keeps what the answers rest on.                        *)
(***************************************************************************)
StoreStep(p) ==
    \/ \E r \in Requests, done \in BOOLEAN : Store!Call(p, r, done)
    \/ Store!Start(p) \/ Store!Cancel(p) \/ Store!Respond(p) \/ Store!Return(p)
    \/ Store!Linger(p) \/ Store!Discard(p)

Maps(p) ==
    /\ AnswerOK(p)' /\ TableStep(p) /\ OthersSame(p)
    /\ StoreStep(p) \/ UNCHANGED Store!storeVars

\* A handler calls; its context is not done (or it would not call).
LEMMA CallMaps ==
  ASSUME RInv, NEW p \in Procs, Call(p)
  PROVE  Maps(p)
<1>0. TypeOK /\ AnswerOK(p) /\ pc[p] = "idle" /\ ~ctx[p]
  BY DEF RInv, IInv, Call, AnswerOK
<1>1. PICK r \in Requests : req' = [req EXCEPT ![p] = r]
  BY DEF Call
<1>2. Store!Call(p, r, FALSE)
  <2>1. status[p] = "idle" /\ status' = [status EXCEPT ![p] = "called"]
    BY <1>0, StatusFacts, StatusStep DEF Call
  <2>2. ctx' = [ctx EXCEPT ![p] = FALSE]
    BY <1>0 DEF Call, TypeOK
  <2>3. p \notin lingers /\ lingers' = lingers
    BY <1>0, LingersSame DEF Call, lingers
  <2> QED BY <1>1, <2>1, <2>2, <2>3, SameWords DEF Call, db, Store!Call
<1>3. AnswerOK(p)'
  BY <1>0 DEF Call, Goto, db, TypeOK, AnswerOK
<1>4. TableStep(p) /\ OthersSame(p)
  BY <1>0, <1>1 DEF Call, Goto, db, TypeOK, TableStep, OthersSame
<1> QED BY <1>2, <1>3, <1>4 DEF Maps, StoreStep

\* A call begins in the store when it gets its connection.
LEMMA ConnectMaps ==
  ASSUME RInv, NEW p \in Procs, Connect(p)
  PROVE  Maps(p)
<1>0. /\ TypeOK /\ pc[p] = "entry" /\ ~closed
      /\ UNCHANGED <<table, live, closed, req, ctx, tx, out>>
      /\ req[p].op = "create" => req[p].valid
      /\ req[p].op \in {"create", "list", "get"}
  BY DEF RInv, IInv, OpInv, Connect, NeedsConn, Requests, Creates, Lists, Gets
<1>1. PICK l \in {"insert", "begin", "get"} :
        Goto(p, l) /\ (l = "insert" => req[p].op = "create")
  <2>1. CASE req[p].op = "create"
    BY <2>1 DEF Connect
  <2>2. CASE req[p].op = "list"
    BY <2>2 DEF Connect
  <2>3. CASE req[p].op = "get"
    BY <2>3 DEF Connect
  <2> QED BY <1>0, <2>1, <2>2, <2>3
<1>2. Store!Start(p)
  <2>1. status[p] = "called" /\ status' = [status EXCEPT ![p] = "begun"]
    BY <1>0, <1>1, StatusFacts, StatusStep
  <2>2. lingers' = lingers
    BY <1>0, LingersSame
  <2> QED BY <1>0, <2>1, <2>2 DEF Store!Start
<1>3. pc'[p] = l /\ TableStep(p) /\ OthersSame(p)
  BY <1>0, <1>1 DEF Goto, TypeOK, TableStep, OthersSame
<1>4. AnswerOK(p)'
  BY <1>0, <1>1, <1>3 DEF AnswerOK
<1> QED BY <1>2, <1>3, <1>4 DEF Maps, StoreStep

\* From there until its result is fixed the store sees nothing of it.
LEMMA InsideMaps ==
  ASSUME RInv, NEW p \in Procs, Insert(p) \/ Get(p) \/ Begin(p) \/ Read(p) \/ Count(p)
  PROVE  Maps(p)
<1>0. TypeOK /\ AnswerOK(p)
  BY DEF RInv, IInv
<1>1. PICK l \in Labels \ {"idle", "entry", "rollback"} : Goto(p, l)
  <2>1. {"inserted", "got", "read", "count", "commit"} \subseteq Labels \ {"idle", "entry", "rollback"}
    BY DEF Labels
  <2> QED BY <2>1 DEF Insert, Get, Begin, Read, Count
<1>2. /\ pc[p] \notin {"idle", "entry", "rollback"}
      /\ UNCHANGED <<table, live, closed, req, ctx, out>>
      /\ tx' = tx \/ (tx[p] # "ending" /\ tx' = [tx EXCEPT ![p] = "open"])
  BY DEF RInv, IInv, ConnInv, Insert, Get, Begin, Read, Count, db
<1>3. status' = status /\ lingers' = lingers
  BY <1>0, <1>1, <1>2, StatusSame, LingersSame
<1>4. UNCHANGED Store!storeVars
  BY <1>2, <1>3 DEF Store!storeVars
<1>5. TableStep(p) /\ OthersSame(p)
  BY <1>0, <1>1, <1>2 DEF Goto, TypeOK, TableStep, OthersSame
<1>6. AnswerOK(p)'
  <2>2. CASE Insert(p)
    <3>1. pc'[p] = "inserted" /\ pc[p] = "insert"
      BY <1>0, <2>2 DEF Insert, Goto, TypeOK
    <3>2. req[p].name \notin Rows(table)
      BY <2>2, AllowedFacts DEF Insert
    <3> QED BY <1>0, <1>2, <3>1, <3>2 DEF AnswerOK
  <2>3. CASE Get(p)
    BY <1>0, <1>2, <2>3 DEF Get, Goto, TypeOK, AnswerOK
  <2>4. CASE Begin(p) \/ Read(p) \/ Count(p)
    <3>1. tx'[p] = "open" /\ pc'[p] \in {"read", "count", "commit"}
      BY <1>0, <2>4 DEF Begin, Read, Count, Goto, TypeOK
    <3> QED BY <3>1 DEF AnswerOK
  <2> QED BY <2>2, <2>3, <2>4
<1> QED BY <1>4, <1>5, <1>6 DEF Maps

\* A call that returns at once leaves nothing to rest on.
LEMMA ReplyKeeps ==
  ASSUME TypeOK, NEW p \in Procs, NEW o, Reply(p, o), req' = req,
         tx' = tx \/ tx' = [tx EXCEPT ![p] = "none"]
  PROVE  AnswerOK(p)' /\ OthersSame(p)
<1>1. pc'[p] = "idle" /\ ctx'[p] = FALSE
  BY DEF Reply, Goto, TypeOK
<1> QED BY <1>1 DEF Reply, Goto, TypeOK, AnswerOK, OthersSame

\* A call that fails outside a transaction, before or after it got a connection.
LEMMA FailMaps ==
  ASSUME RInv, NEW p \in Procs, NEW why \in Failures, Reply(p, Failed(why)),
         pc[p] \notin {"idle", "rollback"}, UNCHANGED <<closed, req, tx>>,
         UNCHANGED <<table, live>> \/ PutConn(p, table), Store!MayFail(p, why)
  PROVE  Maps(p)
<1>0. TypeOK /\ table \in Seq(Names)
  BY DEF RInv, IInv, TypeOK
<1>1. Store!Settle(table) /\ TableStep(p)
  BY <1>0, PutConnFacts, PutConnSettles DEF Store!Settle, TableStep
<1>2. Store!Answer(p, Failed(why), table)
  BY <1>0, <1>1, ReplyAnswers
<1>3. Store!Respond(p)
  BY <1>2, SameWords DEF Store!Fail, Store!Respond
<1>4. AnswerOK(p)' /\ OthersSame(p)
  BY <1>0, ReplyKeeps
<1> QED BY <1>1, <1>3, <1>4 DEF Maps, StoreStep

\* newNewUser refuses; the pool refuses; a statement outside a transaction fails.
LEMMA FailuresMap ==
  ASSUME RInv, NEW p \in Procs,
         \/ Reject(p) \/ ConnectErr(p)
         \/ InsertErr(p) \/ GetErr(p) \/ GetNotFound(p) \/ BeginErr(p)
  PROVE  Maps(p)
<1>0. /\ {"invalid", "closed", "cancelled", "notfound"} \subseteq Failures
      /\ TRUE \in BOOLEAN /\ FALSE \in BOOLEAN
  BY OutcomeFacts
<1>1. CASE Reject(p)
  <2>1. Store!MayFail(p, "invalid")
    BY <1>1, StatusFacts DEF Reject, Store!MayFail
  <2> QED BY <1>0, <1>1, <2>1, FailMaps DEF Reject, db
<1>2. CASE ConnectErr(p)
  <2>1. CASE closed
    <3>1. Store!MayFail(p, "closed")
      BY <1>2, <2>1, StatusFacts DEF ConnectErr, NeedsConn, Store!MayFail
    <3> QED BY <1>0, <1>2, <2>1, <3>1, FailMaps DEF ConnectErr, NeedsConn, db
  <2>2. CASE ~closed
    <3>1. Store!MayFail(p, "cancelled")
      BY <1>2, <2>2 DEF ConnectErr, Store!MayFail
    <3> QED BY <1>0, <1>2, <2>2, <3>1, FailMaps DEF ConnectErr, NeedsConn, db
  <2> QED BY <2>1, <2>2
<1>3. CASE InsertErr(p)
  <2>1. PICK why \in Failures : Refused(p, TRUE, why) /\ FailAndPut(p, why)
    BY <1>3 DEF InsertErr
  <2>2. Store!MayFail(p, why)
    BY <1>0, <1>3, <2>1, RefusedMayFail DEF InsertErr
  <2> QED BY <1>3, <2>1, <2>2, FailMaps DEF InsertErr, FailAndPut
<1>4. CASE GetErr(p)
  <2>1. PICK why \in Failures : Refused(p, FALSE, why) /\ FailAndPut(p, why)
    BY <1>4 DEF GetErr
  <2>2. Store!MayFail(p, why)
    BY <1>0, <1>4, <2>1, RefusedMayFail DEF GetErr
  <2> QED BY <1>4, <2>1, <2>2, FailMaps DEF GetErr, FailAndPut
<1>5. CASE GetNotFound(p)
  <2>1. live /\ req[p].op = "get" /\ req[p].name \notin Rows(table)
    BY <1>0, <1>5, AllowedFacts DEF GetNotFound, RInv, IInv, OpInv
  <2>2. Store!MayFail(p, "notfound")
    BY <1>5, <2>1, StatusFacts, SameWords DEF GetNotFound, Store!MayFail
  <2> QED BY <1>0, <1>5, <2>2, FailMaps DEF GetNotFound, FailAndPut
<1>6. CASE BeginErr(p)
  <2>1. Store!MayFail(p, "cancelled")
    BY <1>6 DEF BeginErr, Store!MayFail
  <2> QED BY <1>0, <1>6, <2>1, FailMaps DEF BeginErr, FailAndPut
<1> QED BY <1>1, <1>2, <1>3, <1>4, <1>5, <1>6

\* Create commits its row; a context that ended meanwhile may hide that.
LEMMA InsertCloseMaps ==
  ASSUME RInv, NEW p \in Procs, InsertClose(p)
  PROVE  Maps(p)
<1> DEFINE s == Append(table, req[p].name)
<1>0. /\ TypeOK /\ AnswerOK(p) /\ pc[p] = "inserted"
      /\ req[p] \in Requests /\ req[p].op = "create" /\ live /\ writer = p
  BY AssumptionsHold DEF RInv, IInv, OpInv, LockInv, InsertClose, Assumptions
<1>1. req[p].name \in Names /\ s \in Seq(Names)
  BY <1>0, RequestFacts DEF TypeOK
<1>2. PutConn(p, s) /\ UNCHANGED <<closed, req, tx>>
  BY DEF InsertClose
<1>3. Store!Settle(s) /\ TableStep(p)
  BY <1>0, <1>1, <1>2, PutConnFacts, PutConnSettles DEF TableStep
<1>4. PICK o : Reply(p, o) /\ (o = Created \/ (ctx[p] /\ o = Failed("cancelled")))
  BY DEF InsertClose
<1>5. Store!Answer(p, o, s)
  BY <1>0, <1>2, <1>3, <1>4, ReplyAnswers
<1>6. req[p].valid /\ req[p].name \notin Rows(table)
  BY <1>0 DEF AnswerOK
<1>7. Store!Create(p)
  BY <1>0, <1>4, <1>5, <1>6, StatusFacts, SameWords DEF Store!Create
<1>8. AnswerOK(p)' /\ OthersSame(p)
  BY <1>0, <1>2, <1>4, ReplyKeeps
<1> QED BY <1>3, <1>7, <1>8 DEF Maps, StoreStep, Store!Respond

\* GetByID returns the user it found, or the error of its context.
LEMMA GetCloseMaps ==
  ASSUME RInv, NEW p \in Procs, GetClose(p)
  PROVE  Maps(p)
<1>0. /\ TypeOK /\ AnswerOK(p) /\ pc[p] = "got" /\ table \in Seq(Names)
      /\ req[p].op = "get" /\ live
  BY DEF RInv, IInv, TypeOK, OpInv, LockInv, GetClose
<1>1. PutConn(p, table) /\ UNCHANGED <<closed, req, tx>>
  BY DEF GetClose
<1>2. Store!Settle(table) /\ TableStep(p)
  BY <1>0, <1>1, PutConnFacts, PutConnSettles DEF TableStep
<1>3. CASE Reply(p, Found)
  <2>1. Store!Answer(p, Found, table)
    BY <1>0, <1>1, <1>2, <1>3, ReplyAnswers
  <2>2. Store!GetByID(p)
    BY <1>0, <2>1, StatusFacts, SameWords DEF AnswerOK, Store!GetByID
  <2>3. AnswerOK(p)' /\ OthersSame(p)
    BY <1>0, <1>1, <1>3, ReplyKeeps
  <2> QED BY <1>2, <2>2, <2>3 DEF Maps, StoreStep, Store!Respond
<1>4. CASE ctx[p] /\ Reply(p, Failed("cancelled"))
  <2>1. Store!MayFail(p, "cancelled")
    BY <1>4 DEF Store!MayFail
  <2> QED BY <1>0, <1>1, <1>4, <2>1, OutcomeFacts, FailMaps
<1> QED BY <1>3, <1>4 DEF GetClose

\* A listing whose result is fixed keeps its transaction, or ends it.
LEMMA LeaveKeeps ==
  ASSUME TypeOK, NEW p \in Procs, NEW o, Leave(p, o), req' = req, ctx' = ctx,
         tx' = tx \/ tx' = [tx EXCEPT ![p] = "done"]
  PROVE  AnswerOK(p)' /\ OthersSame(p)
<1>1. pc'[p] = "rollback"
  BY DEF Leave, Goto, TypeOK
<1> QED BY <1>1 DEF Leave, Goto, TypeOK, AnswerOK, OthersSame

\* A listing fails in its transaction.
LEMMA LeaveMaps ==
  ASSUME RInv, NEW p \in Procs, NEW why \in Failures, Leave(p, Failed(why)),
         pc[p] \in {"read", "count", "commit"}, UNCHANGED <<closed, req, ctx, tx, table, live>>,
         Store!MayFail(p, why)
  PROVE  Maps(p)
<1>0. TypeOK /\ req[p].op = "list"
  BY DEF RInv, IInv, OpInv
<1>1. Store!Settle(table) /\ TableStep(p)
  BY DEF Store!Settle, TableStep
<1>2. Store!Answer(p, Failed(why), table)
  BY <1>0, <1>1, LingersSame, LeaveAnswers
<1>3. Store!Respond(p)
  BY <1>2, SameWords DEF Store!Fail, Store!Respond
<1>4. AnswerOK(p)' /\ OthersSame(p)
  BY <1>0, LeaveKeeps
<1> QED BY <1>1, <1>3, <1>4 DEF Maps, StoreStep

\* A query or the commit of GetAll fails.
LEMMA ListFailuresMap ==
  ASSUME RInv, NEW p \in Procs, TxDone(p) \/ ReadErr(p) \/ CountErr(p) \/ CommitErr(p)
  PROVE  Maps(p)
<1>0. /\ "cancelled" \in Failures /\ FALSE \in BOOLEAN /\ AnswerOK(p)
      /\ ctx[p] => Store!MayFail(p, "cancelled")
  BY OutcomeFacts DEF RInv, Store!MayFail
<1>1. CASE TxDone(p)
  <2>1. ctx[p]
    BY <1>0, <1>1 DEF TxDone, AnswerOK
  <2> QED BY <1>0, <1>1, <2>1, LeaveMaps DEF TxDone, db
<1>2. CASE ReadErr(p)
  <2>1. PICK why \in Failures : Refused(p, FALSE, why) /\ Leave(p, Failed(why))
    BY <1>2 DEF ReadErr
  <2>2. Store!MayFail(p, why)
    BY <1>0, <1>2, <2>1, RefusedMayFail DEF ReadErr
  <2> QED BY <1>2, <2>1, <2>2, LeaveMaps DEF ReadErr
<1>3. CASE CountErr(p)
  <2>1. PICK why \in Failures : Refused(p, FALSE, why) /\ Leave(p, Failed(why))
    BY <1>3 DEF CountErr
  <2>2. Store!MayFail(p, why)
    BY <1>0, <1>3, <2>1, RefusedMayFail DEF CountErr
  <2> QED BY <1>3, <2>1, <2>2, LeaveMaps DEF CountErr, db
<1>4. CASE CommitErr(p)
  BY <1>0, <1>4, LeaveMaps DEF CommitErr, db
<1> QED BY <1>1, <1>2, <1>3, <1>4

\* GetAll commits: the page and the count are those of the table as it is now,
\* which is the one moment the store's GetAll needs.
LEMMA CommitMaps ==
  ASSUME RInv, NEW p \in Procs, Commit(p)
  PROVE  Maps(p)
<1>0. /\ TypeOK /\ pc[p] = "commit" /\ tx[p] = "open" /\ ~ctx[p]
      /\ table \in Seq(Names) /\ req[p].op = "list"
  BY DEF RInv, IInv, TypeOK, OpInv, Commit
<1>1. live /\ rows[p] = PageOf(table, req[p].pr) /\ total[p] = Len(table)
  BY <1>0 DEF RInv, IInv, ListingIsSnapshot
<1>2. /\ PutConn(p, table) /\ Leave(p, PageFound(rows[p], total[p]))
      /\ tx' = [tx EXCEPT ![p] = "done"] /\ UNCHANGED <<closed, req, ctx>>
  BY DEF Commit
<1>3. Store!Settle(table) /\ TableStep(p)
  BY <1>0, <1>2, PutConnFacts, PutConnSettles DEF TableStep
<1>4. Store!Answer(p, PageFound(rows[p], total[p]), table)
  BY <1>0, <1>2, <1>3, LingersSame, LeaveAnswers
<1>5. Store!GetAll(p)
  BY <1>0, <1>1, <1>4, StatusFacts, SameWords DEF Store!GetAll
<1>6. AnswerOK(p)' /\ OthersSame(p)
  BY <1>0, <1>2, LeaveKeeps
<1> QED BY <1>3, <1>5, <1>6 DEF Maps, StoreStep, Store!Respond

\* The deferred Rollback of GetAll: the call returns what it has.
LEMMA RollbackMaps ==
  ASSUME RInv, NEW p \in Procs, RollbackDone(p) \/ Rollback(p)
  PROVE  Maps(p)
<1>0. TypeOK /\ table \in Seq(Names) /\ out \in [Procs -> Outcomes] /\ pc[p] = "rollback"
  BY DEF RInv, IInv, TypeOK, RollbackDone, Rollback
<1>1. /\ Reply(p, out[p]) /\ UNCHANGED <<closed, req>>
      /\ tx' = tx \/ (tx[p] # "ending" /\ tx' = [tx EXCEPT ![p] = "none"])
      /\ UNCHANGED <<table, live>> \/ PutConn(p, table)
  BY <1>0 DEF RollbackDone, Rollback, db, TypeOK
<1>2. Store!Settle(table) /\ TableStep(p)
  BY <1>0, <1>1, PutConnFacts, PutConnSettles DEF Store!Settle, TableStep
<1>3. Store!Return(p)
  <2>1. status[p] = "answered" /\ status' = [status EXCEPT ![p] = "idle"]
    BY <1>0, <1>1, StatusFacts, StatusStep DEF Reply
  <2>2. out' = out /\ ctx' = [ctx EXCEPT ![p] = FALSE]
    BY <1>0, <1>1 DEF Reply
  <2>3. lingers' = lingers
    BY <1>0, <1>1, LingersSame
  <2> QED BY <1>1, <1>2, <2>1, <2>2, <2>3 DEF Store!Return
<1>4. AnswerOK(p)' /\ OthersSame(p)
  BY <1>0, <1>1, ReplyKeeps
<1> QED BY <1>2, <1>3, <1>4 DEF Maps, StoreStep

\* The watcher marks the transaction of a cancelled listing done: it lingers.
LEMMA WatchEndsMaps ==
  ASSUME RInv, NEW p \in Procs, WatchEnds(p)
  PROVE  Maps(p)
<1>0. /\ TypeOK /\ AnswerOK(p) /\ tx[p] = "open" /\ ctx[p] /\ req[p].op = "list"
      /\ pc[p] \in {"read", "count", "commit", "rollback"}
      /\ tx' = [tx EXCEPT ![p] = "ending"]
      /\ UNCHANGED <<table, live, closed, pc, req, ctx, out>>
  BY DEF RInv, IInv, TypeOK, ConnInv, OpInv, WatchEnds, db
<1>1. status' = status
  BY <1>0 DEF status
<1>2. p \notin lingers /\ lingers' = lingers \cup {p}
  BY <1>0 DEF lingers, TypeOK
<1>3. Store!Linger(p)
  BY <1>0, <1>1, <1>2, StatusFacts DEF Store!Linger
<1>4. AnswerOK(p)' /\ OthersSame(p) /\ TableStep(p)
  BY <1>0 DEF TypeOK, AnswerOK, OthersSame, TableStep
<1> QED BY <1>3, <1>4 DEF Maps, StoreStep

\* It throws the connection away, in the call or after it: with the last
\* connection the store loses its content.
LEMMA DiscardMaps ==
  ASSUME RInv, NEW p \in Procs, Discard(p)
  PROVE  Maps(p)
<1>0. TypeOK /\ AnswerOK(p) /\ table \in Seq(Names) /\ tx[p] = "ending"
  BY DEF RInv, IInv, TypeOK, Discard
<1>1. /\ UNCHANGED <<closed, pc, req, ctx, out>> /\ CloseConn(p, table)
      /\ \E t \in {"none", "done"} : tx' = [tx EXCEPT ![p] = t] /\ (t = "done" => pc[p] # "idle")
  BY DEF Discard
<1>2. status' = status /\ p \in lingers /\ lingers' = lingers \ {p}
  BY <1>0, <1>1 DEF status, lingers, TypeOK
<1>3. \/ UNCHANGED <<table, live>>
      \/ table' = <<>> /\ live' = FALSE /\ LastConn(p)
  BY <1>0, <1>1, CloseConnFacts
<1>4. Store!Discard(p)
  BY <1>1, <1>2, <1>3 DEF Store!Discard
<1>5. pc[p] \notin {"inserted", "got"} /\ (pc[p] \in {"read", "count", "commit"} => ctx[p])
  BY <1>0 DEF AnswerOK, RInv, IInv, ConnInv
<1>6. AnswerOK(p)'
  BY <1>0, <1>1, <1>5 DEF AnswerOK
<1>7. OthersSame(p) /\ TableStep(p)
  BY <1>0, <1>1, <1>3 DEF TypeOK, OthersSame, TableStep
<1> QED BY <1>4, <1>6, <1>7 DEF Maps, StoreStep

\* The context of a call ends.
LEMMA CancelMaps ==
  ASSUME RInv, NEW p \in Procs, Cancel(p)
  PROVE  Maps(p)
<1>0. TypeOK /\ AnswerOK(p) /\ pc[p] # "idle" /\ ~ctx[p]
  BY DEF RInv, IInv, Cancel
<1>1. UNCHANGED <<table, live, closed, pc, req, tx, out>> /\ ctx' = [ctx EXCEPT ![p] = TRUE]
  BY DEF Cancel, db
<1>2. Store!Cancel(p)
  BY <1>0, <1>1, StatusFacts DEF status, lingers, Store!Cancel
<1>3. AnswerOK(p)' /\ OthersSame(p) /\ TableStep(p)
  BY <1>0, <1>1 DEF TypeOK, AnswerOK, OthersSame, TableStep
<1> QED BY <1>2, <1>3 DEF Maps, StoreStep

\* Every step of a call is a step of the store, or none.
LEMMA StepMaps ==
  ASSUME RInv, NEW p \in Procs, Call(p) \/ Step(p) \/ WatchEnds(p) \/ Discard(p) \/ Cancel(p)
  PROVE  Maps(p)
<1>1. CASE Call(p) \/ WatchEnds(p) \/ Discard(p) \/ Cancel(p)
  BY <1>1, CallMaps, WatchEndsMaps, DiscardMaps, CancelMaps
<1>2. CASE Step(p)
  BY <1>2, FailuresMap, ConnectMaps, InsideMaps, InsertCloseMaps, GetCloseMaps,
     ListFailuresMap, CommitMaps, RollbackMaps DEF Step
<1> QED BY <1>1, <1>2

\* run closes the pool.
LEMMA CloseMaps ==
  ASSUME RInv, Close
  PROVE  Store!Close /\ \A p \in Procs : AnswerOK(p)'
<1>1. /\ UNCHANGED <<pc, req, ctx, tx, out>> /\ ~closed /\ closed' = TRUE
      /\ UNCHANGED <<table, live>>
         \/ (table' = <<>> /\ live' = FALSE /\ \A p \in Procs : ~conn[p])
  BY DEF Close, call
<1>2. status' = status /\ lingers' = lingers
  BY <1>1 DEF status, lingers
<1>3. Store!Close
  BY <1>1, <1>2 DEF Store!Close
<1>4. ASSUME NEW p \in Procs PROVE AnswerOK(p)'
  <2>1. AnswerOK(p) /\ (pc[p] = "got" => conn[p])
    BY DEF RInv, IInv, ConnInv
  <2> QED BY <1>1, <2>1, NoRows DEF AnswerOK
<1> QED BY <1>3, <1>4

(***************************************************************************)
(* The theorems.                                                           *)
(***************************************************************************)
\* The invariant of the refinement is inductive.
LEMMA RefinementInv == /\ Init => RInv
                       /\ RInv /\ [Next]_vars => RInv'
<1>1. Init => RInv
  BY InitInv DEF Init, RInv, AnswerOK
<1>2. ASSUME RInv, [Next]_vars PROVE RInv'
  <2>1. IInv'
    BY <1>2, NextInv DEF RInv
  <2>2. ASSUME NEW q \in Procs PROVE AnswerOK(q)'
    <3>1. CASE UNCHANGED vars
      BY <1>2, <3>1 DEF RInv, AnswerOK, vars, db, call
    <3>2. CASE Close
      BY <1>2, <3>2, CloseMaps
    <3>3. ASSUME NEW p \in Procs, Call(p) \/ Step(p) \/ WatchEnds(p) \/ Discard(p) \/ Cancel(p)
          PROVE  AnswerOK(q)'
      <4>1. Maps(p)
        BY <1>2, <3>3, StepMaps
      <4>2. CASE q = p
        BY <4>1, <4>2 DEF Maps
      <4>3. CASE q # p
        BY <1>2, <4>1, <4>3, OthersKept DEF Maps
      <4> QED BY <4>2, <4>3
    <3> QED BY <1>2, <3>1, <3>2, <3>3 DEF Next
  <2> QED BY <2>1, <2>2 DEF RInv
<1> QED BY <1>1, <1>2

\* What the answers of Create and GetByID rest on holds until they are given.
THEOREM AnswersRestOnTable == Spec => []RInv
  BY RefinementInv, PTL DEF Spec

\* The repository of repository.go implements what users.Repository promises
\* (lines 8-21 of internal/users/repository.go): every call takes effect in one
\* step between call and return, or fails for a reason the store knows and
\* changes nothing, although goroutines interleave inside each of them.
THEOREM RepositoryIsAtomicStore == Spec => ImplementsUserStore
<1>1. Init => Store!StoreInit
  BY SameWords DEF Init, status, lingers, Store!StoreInit
<1>2. RInv /\ [Next]_vars => [Store!StoreNext]_(Store!storeVars)
  <2> SUFFICES ASSUME RInv, [Next]_vars
               PROVE  Store!StoreNext \/ UNCHANGED Store!storeVars
    OBVIOUS
  <2>1. CASE UNCHANGED vars
    BY <2>1 DEF vars, db, call, status, lingers, Store!storeVars
  <2>2. CASE Close
    BY <2>2, CloseMaps DEF Store!StoreNext
  <2>3. ASSUME NEW p \in Procs, Call(p) \/ Step(p) \/ WatchEnds(p) \/ Discard(p) \/ Cancel(p)
        PROVE  Store!StoreNext \/ UNCHANGED Store!storeVars
    BY <2>3, StepMaps, SameWords DEF Maps, StoreStep, Store!StoreNext
  <2> QED BY <2>1, <2>2, <2>3 DEF Next
<1> QED BY <1>1, <1>2, AnswersRestOnTable, PTL
        DEF Spec, ImplementsUserStore, Store!StoreSpec

\* The committed rows stay, in their places.
RowsStay == /\ Len(table) <= Len(table')
            /\ SubSeq(table', 1, Len(table)) = table

\* A row committed by Create (line 52) stays in its place as long as the
\* database lives, whatever calls fail, are cancelled or overtake each other.
THEOREM RowsStayWhileLive == Spec => [][live' => RowsStay]_vars
<1>1. RInv /\ RInv' /\ [Next]_vars => [live' => RowsStay]_vars
  <2> SUFFICES ASSUME RInv, Next, live' PROVE RowsStay
    OBVIOUS
  <2>0. TypeOK /\ table \in Seq(Names)
    BY DEF RInv, IInv, TypeOK
  <2>s. table' = table => RowsStay
    BY <2>0 DEF RowsStay
  <2>p. ASSUME NEW p \in Procs, PutConn(p, table) PROVE RowsStay
    BY <2>0, <2>p, <2>s, PutConnFacts
  <2>1. CASE Close
    BY <2>1, <2>s DEF Close
  <2>2. ASSUME NEW p \in Procs, Call(p) \/ WatchEnds(p) \/ Cancel(p) PROVE RowsStay
    BY <2>2, <2>s DEF Call, WatchEnds, Cancel, db
  <2>3. ASSUME NEW p \in Procs, Discard(p) PROVE RowsStay
    BY <2>0, <2>3, <2>s, CloseConnFacts DEF Discard
  <2>4. ASSUME NEW p \in Procs, Step(p) PROVE RowsStay
    <3>1. CASE InsertClose(p)
      <4>1. /\ req[p] \in Requests /\ req[p].op = "create"
            /\ PutConn(p, Append(table, req[p].name))
        BY <3>1 DEF RInv, IInv, OpInv, InsertClose
      <4>2. req[p].name \in Names /\ Append(table, req[p].name) \in Seq(Names)
        BY <2>0, <4>1, RequestFacts
      <4>3. table' = Append(table, req[p].name)
        BY <2>0, <4>1, <4>2, PutConnFacts
      <4> QED BY <2>0, <4>2, <4>3, RowsOfAppend DEF RowsStay
    <3>2. CASE \/ InsertErr(p) \/ GetErr(p) \/ GetNotFound(p) \/ BeginErr(p)
               \/ GetClose(p) \/ Commit(p) \/ Rollback(p)
      BY <3>2, <2>p DEF InsertErr, GetErr, GetNotFound, BeginErr, FailAndPut, GetClose,
                        Commit, Rollback
    <3>3. CASE \/ Reject(p) \/ ConnectErr(p) \/ Connect(p) \/ Insert(p) \/ Get(p) \/ Begin(p)
               \/ TxDone(p) \/ ReadErr(p) \/ Read(p) \/ CountErr(p) \/ Count(p)
               \/ CommitErr(p) \/ RollbackDone(p)
      BY <3>3, <2>s DEF Reject, ConnectErr, Connect, Insert, Get, Begin, TxDone, ReadErr, Read,
                        CountErr, Count, CommitErr, RollbackDone, db
    <3> QED BY <2>4, <3>1, <3>2, <3>3 DEF Step
  <2> QED BY <2>1, <2>2, <2>3, <2>4 DEF Next
<1> QED BY <1>1, AnswersRestOnTable, PTL DEF Spec

\* Nobody is cancelled, the pool stays open and so the database lives.
QuietInv == live /\ ~closed /\ Undisturbed

\* Without cancellations and before run ends no row is ever lost: the pool keeps
\* a connection, and with it the in-memory database (dbconfig.go line 20).
THEOREM RowsStay_NoCancel ==
  ASSUME MayCancel = {}, MayClose = FALSE
  PROVE  Spec => UsersKept
<1>1. Init => QuietInv
  BY DEF Init, QuietInv, Undisturbed
<1>2. RInv /\ QuietInv /\ [Next]_vars => QuietInv'
  <2> SUFFICES ASSUME RInv, QuietInv, [Next]_vars PROVE QuietInv'
    OBVIOUS
  <2>0. TypeOK /\ table \in Seq(Names)
    BY DEF RInv, IInv, TypeOK
  <2>1. Undisturbed'
    BY <2>0, UndisturbedKept DEF QuietInv
  <2>2. CASE UNCHANGED vars
    BY <2>1, <2>2 DEF QuietInv, vars, db, call
  <2>3. ASSUME NEW p \in Procs, Call(p) \/ WatchEnds(p) PROVE QuietInv'
    <3>1. live' = live /\ closed' = closed
      BY <2>3 DEF Call, WatchEnds, db
    <3> QED BY <2>1, <3>1 DEF QuietInv
  <2>4. ~Close /\ \A p \in Procs : ~Cancel(p) /\ ~Discard(p)
    BY DEF Close, Cancel, Discard, QuietInv, Undisturbed
  <2>5. ASSUME NEW p \in Procs, Step(p) PROVE QuietInv'
    <3>1. closed' = closed
      BY <2>5 DEF Step, Reject, ConnectErr, Connect, InsertErr, Insert, InsertClose, GetErr,
                  GetNotFound, Get, GetClose, BeginErr, Begin, TxDone, ReadErr, Read, CountErr,
                  Count, CommitErr, Commit, RollbackDone, Rollback, FailAndPut, db
    <3>2. live'
      <4>1. live' = live \/ PutConn(p, table) \/ PutConn(p, Append(table, req[p].name))
        BY <2>5 DEF Step, Reject, ConnectErr, Connect, InsertErr, Insert, InsertClose, GetErr,
                    GetNotFound, Get, GetClose, BeginErr, Begin, TxDone, ReadErr, Read, CountErr,
                    Count, CommitErr, Commit, RollbackDone, Rollback, FailAndPut, db
      <4>2. ASSUME NEW s, PutConn(p, s) PROVE live' = live
        <5>1. idle \in Nat /\ MaxIdle \in Nat \ {0} /\ ~closed
          BY <2>0, AssumptionsHold DEF TypeOK, Assumptions, QuietInv
        <5> QED BY <4>2, <5>1 DEF PutConn, CloseConn, LastConn
      <4> QED BY <4>1, <4>2 DEF QuietInv
    <3> QED BY <2>1, <3>1, <3>2 DEF QuietInv
  <2> QED BY <2>2, <2>3, <2>4, <2>5 DEF Next
<1>3. QuietInv' /\ [live' => RowsStay]_vars
        => [/\ Len(table) <= Len(table')
            /\ SubSeq(table', 1, Len(table)) = table]_vars
  BY DEF QuietInv, RowsStay
<1> QED BY <1>1, <1>2, <1>3, AnswersRestOnTable, RowsStayWhileLive, PTL DEF Spec, UsersKept
=============================================================================
