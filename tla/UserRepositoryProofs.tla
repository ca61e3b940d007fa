------------------------ MODULE UserRepositoryProofs ------------------------
(***************************************************************************)
(* Proofs about UserRepository, for any number of goroutines, names, page  *)
(* requests and idle connections.                                          *)
(***************************************************************************)
EXTENDS UserRepository, UserCallsProofs

Assumptions == /\ Seed \in Seq(Names)
               /\ MaxIdle \in Nat \ {0}
               /\ None \notin Procs
               /\ MayClose \in BOOLEAN
               /\ PageRequests \subseteq [page : Nat, size : Nat]

\* The assumptions on the constants, for use as one fact.
LEMMA AssumptionsHold == Assumptions
  BY SeedAssumption, MaxIdleAssumption, NoneAssumption, MayCloseAssumption,
     PageRequestsAssumption DEF Assumptions

\* A connection that leaves its holder takes the database with it only if
\* nobody else holds one.
LEMMA CloseConnFacts ==
  ASSUME TypeOK, NEW p \in Procs, NEW s \in Seq(Names), CloseConn(p, s)
  PROVE  /\ conn' = [conn EXCEPT ![p] = FALSE]
         /\ idle' = idle
         /\ table' \in Seq(Names) /\ live' \in BOOLEAN
         /\ \/ table' = s /\ live' = live
            \/ table' = <<>> /\ live' = FALSE /\ LastConn(p)
<1>1. CASE LastConn(p)
  <2>1. table' = <<>> /\ live' = FALSE /\ conn' = [conn EXCEPT ![p] = FALSE] /\ idle' = idle
    BY <1>1 DEF CloseConn
  <2> QED BY <1>1, <2>1, EmptyIsSeq
<1>2. CASE ~LastConn(p)
  BY <1>2 DEF CloseConn, TypeOK
<1> QED BY <1>1, <1>2

\* A connection given back takes the database with it only after Close.
LEMMA PutConnFacts ==
  ASSUME TypeOK, NEW p \in Procs, NEW s \in Seq(Names), PutConn(p, s)
  PROVE  /\ conn' = [conn EXCEPT ![p] = FALSE]
         /\ idle' \in Nat
         /\ table' \in Seq(Names) /\ live' \in BOOLEAN
         /\ \/ table' = s /\ live' = live
            \/ table' = <<>> /\ live' = FALSE /\ LastConn(p) /\ closed
<1>0. idle \in Nat /\ MaxIdle \in Nat \ {0}
  BY AssumptionsHold DEF TypeOK, Assumptions
<1>1. CASE closed \/ idle >= MaxIdle
  <2>1. CloseConn(p, s)
    BY <1>1 DEF PutConn
  <2>2. LastConn(p) => closed
    BY <1>0, <1>1 DEF LastConn
  <2> QED BY <1>0, <2>1, <2>2, CloseConnFacts
<1>2. CASE ~(closed \/ idle >= MaxIdle)
  BY <1>0, <1>2 DEF PutConn, TypeOK
<1> QED BY <1>1, <1>2

\* A statement runs only on a database that exists, beside no writer, and an
\* INSERT beside no reader.
LEMMA AllowedFacts ==
  ASSUME NEW p, NEW write \in BOOLEAN, Allowed(p, write)
  PROVE  /\ live /\ writer = None
         /\ write => readers = {} /\ req[p].name \notin Rows(table)
<1>1. {"nodb", "locked", "duplicate"} \subseteq Failures \ {"cancelled"}
  BY DEF Failures
<1>2. ~Refused(p, write, "nodb") /\ ~Refused(p, write, "locked") /\ ~Refused(p, write, "duplicate")
  BY <1>1 DEF Allowed
<1> QED BY <1>2 DEF Refused

\* While p holds the last connection nobody else holds a lock.
LEMMA LastConnFacts ==
  ASSUME IInv, NEW p \in Procs, LastConn(p)
  PROVE  /\ readers \subseteq {p} /\ writer \in {None, p}
         /\ \A q \in Procs \ {p} : tx[q] \notin {"open", "ending"} /\ ~conn[q]
  BY DEF IInv, TypeOK, LockInv, ConnInv, LastConn

\* A call outside a transaction that fails, at any of its labels.
LEMMA FailAndPutInv ==
  ASSUME IInv, NEW p \in Procs, NEW why \in Failures, FailAndPut(p, why),
         pc[p] \in {"insert", "get", "begin"}
  PROVE  IInv'
<1> USE DEF IInv
<1>p. /\ conn' = [conn EXCEPT ![p] = FALSE] /\ idle' \in Nat
      /\ table' \in Seq(Names) /\ live' \in BOOLEAN
      /\ \/ table' = table /\ live' = live
         \/ table' = <<>> /\ live' = FALSE /\ LastConn(p)
  BY PutConnFacts DEF FailAndPut, TypeOK
<1>n. p \notin readers /\ writer # p /\ tx[p] = "none"
  BY DEF LockInv, ConnInv, TypeOK
<1>l. LastConn(p) => readers = {} /\ writer = None
  BY <1>n, LastConnFacts
<1>1. TypeOK'
  BY <1>p, OutcomeFacts DEF FailAndPut, Reply, Goto, TypeOK, Labels
<1>2. ConnInv'
  BY <1>p, <1>n DEF FailAndPut, Reply, Goto, TypeOK, ConnInv
<1>3. OpInv'
  BY DEF FailAndPut, Reply, Goto, TypeOK, OpInv
<1>4. LockInv'
  BY <1>p, <1>n, <1>l DEF FailAndPut, Reply, Goto, TypeOK, LockInv
<1>5. ListingIsSnapshot'
  BY <1>p, LastConnFacts DEF FailAndPut, Reply, Goto, TypeOK, ListingIsSnapshot
<1>6. PageMatchesTotal'
  BY OutcomeFacts DEF FailAndPut, Reply, Goto, TypeOK, PageMatchesTotal
<1> QED BY <1>1, <1>2, <1>3, <1>4, <1>5, <1>6

(***************************************************************************)
(* One lemma per action: it preserves the inductive invariant.             *)
(***************************************************************************)
\* A handler calls Create, GetAll or GetByID.
LEMMA CallInv ==
  ASSUME IInv, NEW p \in Procs, Call(p)
  PROVE  IInv'
<1> USE DEF IInv
<1>1. TypeOK'
  BY DEF Call, Goto, TypeOK, db, Labels, Outcomes
<1>2. ConnInv'
  BY DEF Call, Goto, TypeOK, db, ConnInv
<1>3. OpInv'
  BY DEF Call, Goto, TypeOK, db, OpInv
<1>4. LockInv'
  BY DEF Call, Goto, TypeOK, db, LockInv, ConnInv
<1>5. ListingIsSnapshot'
  BY DEF Call, Goto, TypeOK, db, ListingIsSnapshot, ConnInv
<1>6. PageMatchesTotal'
  BY DEF Call, Goto, TypeOK, db, PageMatchesTotal, NoOut
<1> QED BY <1>1, <1>2, <1>3, <1>4, <1>5, <1>6

\* newNewUser refuses an invalid username or password.
LEMMA RejectInv ==
  ASSUME IInv, NEW p \in Procs, Reject(p)
  PROVE  IInv'
<1> USE DEF IInv
<1>1. TypeOK'
  BY OutcomeFacts DEF Reject, Reply, Goto, TypeOK, db, Labels
<1>2. ConnInv'
  BY DEF Reject, Reply, Goto, TypeOK, db, ConnInv
<1>3. OpInv'
  BY DEF Reject, Reply, Goto, TypeOK, db, OpInv
<1>4. LockInv'
  BY DEF Reject, Reply, Goto, TypeOK, db, LockInv, ConnInv
<1>5. ListingIsSnapshot'
  BY DEF Reject, Reply, Goto, TypeOK, db, ListingIsSnapshot, ConnInv, LockInv
<1>6. PageMatchesTotal'
  BY OutcomeFacts DEF Reject, Reply, Goto, TypeOK, db, PageMatchesTotal
<1> QED BY <1>1, <1>2, <1>3, <1>4, <1>5, <1>6

\* The pool is closed or the context is done: no connection.
LEMMA ConnectErrInv ==
  ASSUME IInv, NEW p \in Procs, ConnectErr(p)
  PROVE  IInv'
<1> USE DEF IInv
<1>1. TypeOK'
  BY OutcomeFacts DEF ConnectErr, Reply, Goto, NeedsConn, TypeOK, db, Labels
<1>2. ConnInv'
  BY DEF ConnectErr, Reply, Goto, NeedsConn, TypeOK, db, ConnInv
<1>3. OpInv'
  BY DEF ConnectErr, Reply, Goto, NeedsConn, TypeOK, db, OpInv
<1>4. LockInv'
  BY DEF ConnectErr, Reply, Goto, NeedsConn, TypeOK, db, LockInv, ConnInv
<1>5. ListingIsSnapshot'
  BY DEF ConnectErr, Reply, Goto, NeedsConn, TypeOK, db, ListingIsSnapshot, ConnInv, LockInv
<1>6. PageMatchesTotal'
  BY OutcomeFacts DEF ConnectErr, Reply, Goto, NeedsConn, TypeOK, db, PageMatchesTotal
<1> QED BY <1>1, <1>2, <1>3, <1>4, <1>5, <1>6

\* A call gets its connection.
LEMMA ConnectInv ==
  ASSUME IInv, NEW p \in Procs, Connect(p)
  PROVE  IInv'
<1> USE DEF IInv
<1>1. TypeOK'
  BY OutcomeFacts DEF Connect, TakeConn, Goto, NeedsConn, TypeOK, db, Labels
<1>2. ConnInv'
  BY DEF Connect, Goto, NeedsConn, TypeOK, db, ConnInv
<1>3. OpInv'
  BY DEF Connect, Goto, NeedsConn, TypeOK, db, OpInv, Requests, Creates, Lists, Gets
<1>4. LockInv'
  BY DEF Connect, Goto, NeedsConn, TypeOK, db, LockInv, ConnInv
<1>5. ListingIsSnapshot'
  BY DEF Connect, Goto, NeedsConn, TypeOK, db, ListingIsSnapshot, ConnInv, LockInv
<1>6. PageMatchesTotal'
  BY OutcomeFacts DEF Connect, Goto, NeedsConn, TypeOK, db, PageMatchesTotal
<1> QED BY <1>1, <1>2, <1>3, <1>4, <1>5, <1>6

\* The INSERT of Create fails.
LEMMA InsertErrInv ==
  ASSUME IInv, NEW p \in Procs, InsertErr(p)
  PROVE  IInv'
<1>1. PICK why \in Failures : FailAndPut(p, why)
  BY OutcomeFacts DEF InsertErr
<1> QED BY <1>1, FailAndPutInv DEF InsertErr

\* The INSERT of Create has its row, uncommitted, and the write lock.
LEMMA InsertInv ==
  ASSUME IInv, NEW p \in Procs, Insert(p)
  PROVE  IInv'
<1> USE DEF IInv
<1>a. live /\ writer = None /\ readers = {}
  BY AllowedFacts DEF Insert
<1>1. TypeOK'
  BY <1>a, OutcomeFacts DEF Insert, Goto, TypeOK, db, Labels
<1>2. ConnInv'
  BY <1>a DEF Insert, Goto, TypeOK, db, ConnInv
<1>3. OpInv'
  BY <1>a DEF Insert, Goto, TypeOK, db, OpInv
<1>4. LockInv'
  BY <1>a, AssumptionsHold DEF Insert, Goto, TypeOK, db, Assumptions, LockInv, ConnInv
<1>5. ListingIsSnapshot'
  BY <1>a DEF Insert, Goto, TypeOK, db, ListingIsSnapshot, ConnInv, LockInv
<1>6. PageMatchesTotal'
  BY <1>a, OutcomeFacts DEF Insert, Goto, TypeOK, db, PageMatchesTotal
<1> QED BY <1>1, <1>2, <1>3, <1>4, <1>5, <1>6

\* Row.Scan of Create closes the rows, which commits.
LEMMA InsertCloseInv ==
  ASSUME IInv, NEW p \in Procs, InsertClose(p)
  PROVE  IInv'
<1> USE DEF IInv
<1>s. /\ req[p].name \in Names
      /\ Append(table, req[p].name) \in Seq(Names)
  BY RequestFacts DEF InsertClose, TypeOK, OpInv
<1>p. /\ conn' = [conn EXCEPT ![p] = FALSE] /\ idle' \in Nat
      /\ table' \in Seq(Names) /\ live' \in BOOLEAN
      /\ \/ table' = Append(table, req[p].name) /\ live' = live
         \/ table' = <<>> /\ live' = FALSE /\ LastConn(p)
  BY <1>s, PutConnFacts DEF InsertClose, TypeOK
<1>n. /\ live /\ writer = p /\ readers = {}
      /\ \A q \in Procs : tx[q] = "open" => pc[q] \notin {"count", "commit"}
  BY AssumptionsHold DEF InsertClose, TypeOK, LockInv, Assumptions
<1>1. TypeOK'
  BY <1>s, <1>p, OutcomeFacts DEF InsertClose, Reply, Goto, TypeOK, db, Labels
<1>2. ConnInv'
  BY <1>s, <1>p DEF InsertClose, Reply, Goto, TypeOK, db, ConnInv
<1>3. OpInv'
  BY <1>s, <1>p DEF InsertClose, Reply, Goto, TypeOK, db, OpInv
<1>4. LockInv'
  BY <1>s, <1>p, <1>n, AssumptionsHold, LastConnFacts DEF InsertClose, Reply, Goto, TypeOK, db, LockInv, ConnInv, Assumptions
<1>5. ListingIsSnapshot'
  BY <1>s, <1>p, <1>n, AssumptionsHold, LastConnFacts DEF InsertClose, Reply, Goto, TypeOK, db, ListingIsSnapshot, ConnInv, LockInv
<1>6. PageMatchesTotal'
  BY <1>s, <1>p, OutcomeFacts DEF InsertClose, Reply, Goto, TypeOK, db, PageMatchesTotal
<1> QED BY <1>1, <1>2, <1>3, <1>4, <1>5, <1>6

\* The SELECT of GetByID fails.
LEMMA GetErrInv ==
  ASSUME IInv, NEW p \in Procs, GetErr(p)
  PROVE  IInv'
<1>1. PICK why \in Failures : FailAndPut(p, why)
  BY OutcomeFacts DEF GetErr
<1> QED BY <1>1, FailAndPutInv DEF GetErr

\* The SELECT of GetByID finds no row.
LEMMA GetNotFoundInv ==
  ASSUME IInv, NEW p \in Procs, GetNotFound(p)
  PROVE  IInv'
<1>1. PICK why \in Failures : FailAndPut(p, why)
  BY OutcomeFacts DEF GetNotFound
<1> QED BY <1>1, FailAndPutInv DEF GetNotFound

\* The SELECT of GetByID finds its row.
LEMMA GetInv ==
  ASSUME IInv, NEW p \in Procs, Get(p)
  PROVE  IInv'
<1> USE DEF IInv
<1>a. live /\ writer = None
  BY AllowedFacts DEF Get
<1>1. TypeOK'
  BY <1>a, OutcomeFacts DEF Get, Goto, TypeOK, db, Labels
<1>2. ConnInv'
  BY <1>a DEF Get, Goto, TypeOK, db, ConnInv
<1>3. OpInv'
  BY <1>a DEF Get, Goto, TypeOK, db, OpInv
<1>4. LockInv'
  BY <1>a DEF Get, Goto, TypeOK, db, LockInv, ConnInv
<1>5. ListingIsSnapshot'
  BY <1>a DEF Get, Goto, TypeOK, db, ListingIsSnapshot, ConnInv, LockInv
<1>6. PageMatchesTotal'
  BY <1>a, OutcomeFacts DEF Get, Goto, TypeOK, db, PageMatchesTotal
<1> QED BY <1>1, <1>2, <1>3, <1>4, <1>5, <1>6

\* Row.Scan of GetByID closes the rows.
LEMMA GetCloseInv ==
  ASSUME IInv, NEW p \in Procs, GetClose(p)
  PROVE  IInv'
<1> USE DEF IInv
<1>p. /\ conn' = [conn EXCEPT ![p] = FALSE] /\ idle' \in Nat
      /\ table' \in Seq(Names) /\ live' \in BOOLEAN
      /\ \/ table' = table /\ live' = live
         \/ table' = <<>> /\ live' = FALSE /\ LastConn(p)
  BY PutConnFacts DEF GetClose, TypeOK
<1>1. TypeOK'
  BY <1>p, OutcomeFacts DEF GetClose, Reply, Goto, TypeOK, db, Labels
<1>2. ConnInv'
  BY <1>p DEF GetClose, Reply, Goto, TypeOK, db, ConnInv
<1>3. OpInv'
  BY <1>p DEF GetClose, Reply, Goto, TypeOK, db, OpInv
<1>4. LockInv'
  BY <1>p, LastConnFacts DEF GetClose, Reply, Goto, TypeOK, db, LockInv, ConnInv
<1>5. ListingIsSnapshot'
  BY <1>p, LastConnFacts DEF GetClose, Reply, Goto, TypeOK, db, ListingIsSnapshot, ConnInv, LockInv
<1>6. PageMatchesTotal'
  BY <1>p, OutcomeFacts DEF GetClose, Reply, Goto, TypeOK, db, PageMatchesTotal
<1> QED BY <1>1, <1>2, <1>3, <1>4, <1>5, <1>6

\* BeginTx of GetAll fails.
LEMMA BeginErrInv ==
  ASSUME IInv, NEW p \in Procs, BeginErr(p)
  PROVE  IInv'
<1>1. PICK why \in Failures : FailAndPut(p, why)
  BY OutcomeFacts DEF BeginErr
<1> QED BY <1>1, FailAndPutInv DEF BeginErr

\* BeginTx of GetAll succeeds.
LEMMA BeginInv ==
  ASSUME IInv, NEW p \in Procs, Begin(p)
  PROVE  IInv'
<1> USE DEF IInv
<1>1. TypeOK'
  BY OutcomeFacts DEF Begin, Goto, TypeOK, db, Labels
<1>2. ConnInv'
  BY DEF Begin, Goto, TypeOK, db, ConnInv
<1>3. OpInv'
  BY DEF Begin, Goto, TypeOK, db, OpInv
<1>4. LockInv'
  BY DEF Begin, Goto, TypeOK, db, LockInv, ConnInv
<1>5. ListingIsSnapshot'
  BY DEF Begin, Goto, TypeOK, db, ListingIsSnapshot, ConnInv, LockInv
<1>6. PageMatchesTotal'
  BY OutcomeFacts DEF Begin, Goto, TypeOK, db, PageMatchesTotal
<1> QED BY <1>1, <1>2, <1>3, <1>4, <1>5, <1>6

\* A query of GetAll finds its transaction ended by the watcher.
LEMMA TxDoneInv ==
  ASSUME IInv, NEW p \in Procs, TxDone(p)
  PROVE  IInv'
<1> USE DEF IInv
<1>1. TypeOK'
  BY OutcomeFacts DEF TxDone, Leave, Goto, TypeOK, db, Labels
<1>2. ConnInv'
  BY DEF TxDone, Leave, Goto, TypeOK, db, ConnInv
<1>3. OpInv'
  BY DEF TxDone, Leave, Goto, TypeOK, db, OpInv
<1>4. LockInv'
  BY DEF TxDone, Leave, Goto, TypeOK, db, LockInv, ConnInv
<1>5. ListingIsSnapshot'
  BY DEF TxDone, Leave, Goto, TypeOK, db, ListingIsSnapshot, ConnInv, LockInv
<1>6. PageMatchesTotal'
  BY OutcomeFacts DEF TxDone, Leave, Goto, TypeOK, db, PageMatchesTotal
<1> QED BY <1>1, <1>2, <1>3, <1>4, <1>5, <1>6

\* GetUsers of GetAll fails.
LEMMA ReadErrInv ==
  ASSUME IInv, NEW p \in Procs, ReadErr(p)
  PROVE  IInv'
<1> USE DEF IInv
<1>w. PICK why \in Failures :
        /\ Leave(p, Failed(why))
        /\ \/ readers' = readers
           \/ Allowed(p, FALSE) /\ readers' = readers \cup {p}
  BY DEF ReadErr
<1>a. \/ readers' = readers
      \/ live /\ writer = None /\ readers' = readers \cup {p}
  BY <1>w, AllowedFacts
<1>1. TypeOK'
  BY <1>w, <1>a, OutcomeFacts DEF ReadErr, Leave, Goto, TypeOK, db, Labels
<1>2. ConnInv'
  BY DEF ReadErr, Leave, Goto, TypeOK, db, ConnInv
<1>3. OpInv'
  BY DEF ReadErr, Leave, Goto, TypeOK, db, OpInv
<1>4. LockInv'
  BY <1>w, <1>a DEF ReadErr, Leave, Goto, TypeOK, db, LockInv, ConnInv
<1>5. ListingIsSnapshot'
  BY DEF ReadErr, Leave, Goto, TypeOK, db, ListingIsSnapshot, ConnInv, LockInv
<1>6. PageMatchesTotal'
  BY OutcomeFacts DEF ReadErr, Leave, Goto, TypeOK, db, PageMatchesTotal
<1> QED BY <1>1, <1>2, <1>3, <1>4, <1>5, <1>6

\* GetUsers of GetAll reads its page and keeps its lock.
LEMMA ReadInv ==
  ASSUME IInv, NEW p \in Procs, Read(p)
  PROVE  IInv'
<1> USE DEF IInv
<1>a. live /\ writer = None
  BY AllowedFacts DEF Read
<1>t. PageOf(table, req[p].pr) \in Seq(Names)
  BY RequestFacts, PageOfLength DEF Read, TypeOK, OpInv
<1>1. TypeOK'
  BY <1>a, OutcomeFacts, <1>t DEF Read, Goto, TypeOK, db, Labels
<1>2. ConnInv'
  BY <1>a DEF Read, Goto, TypeOK, db, ConnInv
<1>3. OpInv'
  BY <1>a DEF Read, Goto, TypeOK, db, OpInv
<1>4. LockInv'
  BY <1>a DEF Read, Goto, TypeOK, db, LockInv, ConnInv
<1>5. ListingIsSnapshot'
  BY <1>a DEF Read, Goto, TypeOK, db, ListingIsSnapshot, ConnInv, LockInv
<1>6. PageMatchesTotal'
  BY <1>a, OutcomeFacts DEF Read, Goto, TypeOK, db, PageMatchesTotal
<1> QED BY <1>1, <1>2, <1>3, <1>4, <1>5, <1>6

\* CountUsers of GetAll fails.
LEMMA CountErrInv ==
  ASSUME IInv, NEW p \in Procs, CountErr(p)
  PROVE  IInv'
<1> USE DEF IInv
<1>1. TypeOK'
  BY OutcomeFacts DEF CountErr, Leave, Goto, TypeOK, db, Labels
<1>2. ConnInv'
  BY DEF CountErr, Leave, Goto, TypeOK, db, ConnInv
<1>3. OpInv'
  BY DEF CountErr, Leave, Goto, TypeOK, db, OpInv
<1>4. LockInv'
  BY DEF CountErr, Leave, Goto, TypeOK, db, LockInv, ConnInv
<1>5. ListingIsSnapshot'
  BY DEF CountErr, Leave, Goto, TypeOK, db, ListingIsSnapshot, ConnInv, LockInv
<1>6. PageMatchesTotal'
  BY OutcomeFacts DEF CountErr, Leave, Goto, TypeOK, db, PageMatchesTotal
<1> QED BY <1>1, <1>2, <1>3, <1>4, <1>5, <1>6

\* CountUsers of GetAll counts the users.
LEMMA CountInv ==
  ASSUME IInv, NEW p \in Procs, Count(p)
  PROVE  IInv'
<1> USE DEF IInv
<1>1. TypeOK'
  BY OutcomeFacts DEF Count, Goto, TypeOK, db, Labels
<1>2. ConnInv'
  BY DEF Count, Goto, TypeOK, db, ConnInv
<1>3. OpInv'
  BY DEF Count, Goto, TypeOK, db, OpInv
<1>4. LockInv'
  BY DEF Count, Goto, TypeOK, db, LockInv, ConnInv
<1>5. ListingIsSnapshot'
  BY DEF Count, Goto, TypeOK, db, ListingIsSnapshot, ConnInv, LockInv
<1>6. PageMatchesTotal'
  BY OutcomeFacts DEF Count, Goto, TypeOK, db, PageMatchesTotal
<1> QED BY <1>1, <1>2, <1>3, <1>4, <1>5, <1>6

\* Tx.Commit of GetAll refuses a context that is done.
LEMMA CommitErrInv ==
  ASSUME IInv, NEW p \in Procs, CommitErr(p)
  PROVE  IInv'
<1> USE DEF IInv
<1>1. TypeOK'
  BY OutcomeFacts DEF CommitErr, Leave, Goto, TypeOK, db, Labels
<1>2. ConnInv'
  BY DEF CommitErr, Leave, Goto, TypeOK, db, ConnInv
<1>3. OpInv'
  BY DEF CommitErr, Leave, Goto, TypeOK, db, OpInv
<1>4. LockInv'
  BY DEF CommitErr, Leave, Goto, TypeOK, db, LockInv, ConnInv
<1>5. ListingIsSnapshot'
  BY DEF CommitErr, Leave, Goto, TypeOK, db, ListingIsSnapshot, ConnInv, LockInv
<1>6. PageMatchesTotal'
  BY OutcomeFacts DEF CommitErr, Leave, Goto, TypeOK, db, PageMatchesTotal
<1> QED BY <1>1, <1>2, <1>3, <1>4, <1>5, <1>6

\* Tx.Commit of GetAll succeeds.
LEMMA CommitInv ==
  ASSUME IInv, NEW p \in Procs, Commit(p)
  PROVE  IInv'
<1> USE DEF IInv
<1>p. /\ conn' = [conn EXCEPT ![p] = FALSE] /\ idle' \in Nat
      /\ table' \in Seq(Names) /\ live' \in BOOLEAN
      /\ \/ table' = table /\ live' = live
         \/ table' = <<>> /\ live' = FALSE /\ LastConn(p)
  BY PutConnFacts DEF Commit, TypeOK
<1>1. TypeOK'
  BY <1>p, OutcomeFacts DEF Commit, Leave, Goto, TypeOK, db, Labels
<1>2. ConnInv'
  BY <1>p DEF Commit, Leave, Goto, TypeOK, db, ConnInv
<1>3. OpInv'
  BY <1>p DEF Commit, Leave, Goto, TypeOK, db, OpInv
<1>4. LockInv'
  BY <1>p, LastConnFacts DEF Commit, Leave, Goto, TypeOK, db, LockInv, ConnInv
<1>5. ListingIsSnapshot'
  BY <1>p, LastConnFacts DEF Commit, Leave, Goto, TypeOK, db, ListingIsSnapshot, ConnInv, LockInv
<1>c. /\ rows[p] \in Seq(Names) /\ total[p] \in Nat
      /\ Len(rows[p]) = PageLen(total[p], req[p].pr)
  <2>1. /\ rows[p] = PageOf(table, req[p].pr) /\ total[p] = Len(table)
        /\ rows[p] \in Seq(Names) /\ total[p] \in Nat /\ table \in Seq(Names)
    BY DEF Commit, TypeOK, ListingIsSnapshot
  <2>2. req[p].pr \in [page : Nat, size : Nat]
    BY RequestFacts DEF Commit, TypeOK, OpInv
  <2> QED BY <2>1, <2>2, PageOfLength
<1>6. PageMatchesTotal'
  BY <1>p, OutcomeFacts, <1>c DEF Commit, Leave, Goto, TypeOK, db, PageMatchesTotal
<1> QED BY <1>1, <1>2, <1>3, <1>4, <1>5, <1>6

\* The deferred Rollback of GetAll finds the transaction ended.
LEMMA RollbackDoneInv ==
  ASSUME IInv, NEW p \in Procs, RollbackDone(p)
  PROVE  IInv'
<1> USE DEF IInv
<1>1. TypeOK'
  BY OutcomeFacts DEF RollbackDone, Reply, Goto, TypeOK, db, Labels
<1>2. ConnInv'
  BY DEF RollbackDone, Reply, Goto, TypeOK, db, ConnInv
<1>3. OpInv'
  BY DEF RollbackDone, Reply, Goto, TypeOK, db, OpInv
<1>4. LockInv'
  BY DEF RollbackDone, Reply, Goto, TypeOK, db, LockInv, ConnInv
<1>5. ListingIsSnapshot'
  BY DEF RollbackDone, Reply, Goto, TypeOK, db, ListingIsSnapshot, ConnInv, LockInv
<1>6. PageMatchesTotal'
  BY OutcomeFacts DEF RollbackDone, Reply, Goto, TypeOK, db, PageMatchesTotal
<1> QED BY <1>1, <1>2, <1>3, <1>4, <1>5, <1>6

\* The deferred Rollback of GetAll ends the transaction.
LEMMA RollbackInv ==
  ASSUME IInv, NEW p \in Procs, Rollback(p)
  PROVE  IInv'
<1> USE DEF IInv
<1>p. /\ conn' = [conn EXCEPT ![p] = FALSE] /\ idle' \in Nat
      /\ table' \in Seq(Names) /\ live' \in BOOLEAN
      /\ \/ table' = table /\ live' = live
         \/ table' = <<>> /\ live' = FALSE /\ LastConn(p)
  BY PutConnFacts DEF Rollback, TypeOK
<1>l. LastConn(p) => writer = None /\ readers \subseteq {p}
  BY LastConnFacts DEF Rollback, LockInv, TypeOK
<1>1. TypeOK'
  BY <1>p, OutcomeFacts DEF Rollback, Reply, Goto, TypeOK, db, Labels
<1>2. ConnInv'
  BY <1>p DEF Rollback, Reply, Goto, TypeOK, db, ConnInv
<1>3. OpInv'
  BY <1>p DEF Rollback, Reply, Goto, TypeOK, db, OpInv
<1>4. LockInv'
  BY <1>p, <1>l DEF Rollback, Reply, Goto, TypeOK, db, LockInv, ConnInv
<1>5. ListingIsSnapshot'
  BY <1>p, LastConnFacts DEF Rollback, Reply, Goto, TypeOK, db, ListingIsSnapshot, ConnInv, LockInv
<1>6. PageMatchesTotal'
  BY <1>p, OutcomeFacts DEF Rollback, Reply, Goto, TypeOK, db, PageMatchesTotal
<1> QED BY <1>1, <1>2, <1>3, <1>4, <1>5, <1>6

\* The watcher of a cancelled transaction marks it done.
LEMMA WatchEndsInv ==
  ASSUME IInv, NEW p \in Procs, WatchEnds(p)
  PROVE  IInv'
<1> USE DEF IInv
<1>0. tx[p] = "open" /\ pc[p] \in {"read", "count", "commit", "rollback"} /\ req[p].op = "list"
  BY DEF WatchEnds, TypeOK, ConnInv, OpInv
<1>1. TypeOK'
  BY DEF WatchEnds, TypeOK, db, Labels
<1>2. ConnInv'
  BY <1>0 DEF WatchEnds, TypeOK, db, ConnInv
<1>3. OpInv'
  BY <1>0 DEF WatchEnds, TypeOK, db, OpInv
<1>4. LockInv'
  BY <1>0 DEF WatchEnds, TypeOK, db, LockInv
<1>5. ListingIsSnapshot'
  BY DEF WatchEnds, TypeOK, db, ListingIsSnapshot
<1>6. PageMatchesTotal'
  BY DEF WatchEnds, TypeOK, db, PageMatchesTotal
<1> QED BY <1>1, <1>2, <1>3, <1>4, <1>5, <1>6

\* The watcher rolls the transaction back and throws its connection away.
LEMMA DiscardInv ==
  ASSUME IInv, NEW p \in Procs, Discard(p)
  PROVE  IInv'
<1> USE DEF IInv
<1>p. /\ conn' = [conn EXCEPT ![p] = FALSE] /\ idle' \in Nat
      /\ table' \in Seq(Names) /\ live' \in BOOLEAN
      /\ \/ table' = table /\ live' = live
         \/ table' = <<>> /\ live' = FALSE /\ LastConn(p)
  BY CloseConnFacts DEF Discard, TypeOK
<1>n. /\ tx[p] = "ending" /\ writer # p
      /\ pc[p] \in {"idle", "read", "count", "commit", "rollback"}
      /\ tx'[p] \in {"none", "done"} /\ (tx'[p] = "none" <=> pc[p] = "idle")
      /\ \A q \in Procs \ {p} : tx'[q] = tx[q]
  BY DEF Discard, TypeOK, ConnInv, LockInv
<1>1. TypeOK'
  BY <1>p, <1>n DEF Discard, TypeOK
<1>2. ConnInv'
  BY <1>p, <1>n DEF Discard, TypeOK, ConnInv
<1>3. OpInv'
  BY <1>n DEF Discard, TypeOK, OpInv
<1>4. LockInv'
  <2>2. LastConn(p) => writer = None /\ readers \subseteq {p}
    BY <1>n, LastConnFacts
  <2>3. readers' = readers \ {p} /\ UNCHANGED <<writer, pc>>
    BY DEF Discard
  <2>4. ASSUME NEW q \in Procs
        PROVE  /\ writer' = q <=> pc'[q] = "inserted"
               /\ q \in readers' =>
                    \/ pc'[q] = "got" \/ tx'[q] = "ending"
                    \/ tx'[q] = "open" /\ pc'[q] \in {"count", "commit", "rollback"}
               /\ pc'[q] = "got" \/ (tx'[q] = "open" /\ pc'[q] \in {"count", "commit"})
                    => q \in readers'
    <3>1. CASE q = p
      BY <1>n, <2>3, <3>1 DEF LockInv
    <3>2. CASE q # p
      <4>1. tx'[q] = tx[q] /\ (q \in readers' <=> q \in readers)
        BY <1>n, <2>3, <3>2
      <4> QED
        BY <2>3, <4>1 DEF LockInv
    <3> QED
      BY <3>1, <3>2
  <2>5. /\ writer' # None => readers' = {}
        /\ writer' # None \/ readers' # {} => live'
    BY <1>p, <2>2, <2>3 DEF LockInv
  <2> QED
    BY <2>4, <2>5 DEF LockInv
<1>5. ListingIsSnapshot'
  BY <1>p, <1>n, LastConnFacts DEF Discard, TypeOK, ListingIsSnapshot
<1>6. PageMatchesTotal'
  BY DEF Discard, TypeOK, PageMatchesTotal
<1> QED BY <1>1, <1>2, <1>3, <1>4, <1>5, <1>6

\* The context of a call ends.
LEMMA CancelInv ==
  ASSUME IInv, NEW p \in Procs, Cancel(p)
  PROVE  IInv'
<1> USE DEF IInv
<1>1. TypeOK'
  BY OutcomeFacts DEF Cancel, TypeOK, db, Labels
<1>2. ConnInv'
  BY DEF Cancel, TypeOK, db, ConnInv
<1>3. OpInv'
  BY DEF Cancel, TypeOK, db, OpInv
<1>4. LockInv'
  BY DEF Cancel, TypeOK, db, LockInv, ConnInv
<1>5. ListingIsSnapshot'
  BY DEF Cancel, TypeOK, db, ListingIsSnapshot, ConnInv, LockInv
<1>6. PageMatchesTotal'
  BY OutcomeFacts DEF Cancel, TypeOK, db, PageMatchesTotal
<1> QED BY <1>1, <1>2, <1>3, <1>4, <1>5, <1>6

\* run closes the pool.
LEMMA CloseInv ==
  ASSUME IInv, Close
  PROVE  IInv'
<1> USE DEF IInv
<1>n. (\A q \in Procs : ~conn[q]) => readers = {} /\ writer = None
  BY DEF TypeOK, LockInv, ConnInv
<1>1. TypeOK'
  BY EmptyIsSeq DEF Close, TypeOK, call
<1>2. ConnInv'
  BY DEF Close, TypeOK, call, ConnInv
<1>3. OpInv'
  BY DEF Close, TypeOK, call, OpInv
<1>4. LockInv'
  BY <1>n DEF Close, TypeOK, call, LockInv
<1>5. ListingIsSnapshot'
  BY DEF Close, TypeOK, call, ListingIsSnapshot, ConnInv
<1>6. PageMatchesTotal'
  BY DEF Close, TypeOK, call, PageMatchesTotal
<1> QED BY <1>1, <1>2, <1>3, <1>4, <1>5, <1>6

\* After Migrate nobody holds anything.
LEMMA InitInv == Init => IInv
<1> SUFFICES ASSUME Init PROVE IInv
  OBVIOUS
<1>1. TypeOK
  BY AssumptionsHold, OutcomeFacts, EmptyIsSeq DEF Init, TypeOK, Labels, Assumptions
<1>2. ConnInv /\ OpInv /\ ListingIsSnapshot
  BY DEF Init, ConnInv, OpInv, ListingIsSnapshot
<1>3. LockInv
  BY AssumptionsHold DEF Init, LockInv, Assumptions
<1>4. PageMatchesTotal
  BY OutcomeFacts DEF Init, PageMatchesTotal
<1> QED BY <1>1, <1>2, <1>3, <1>4 DEF IInv

\* Every step of the repository preserves the inductive invariant.
LEMMA NextInv == IInv /\ [Next]_vars => IInv'
<1> SUFFICES ASSUME IInv, [Next]_vars PROVE IInv'
  OBVIOUS
<1>1. CASE UNCHANGED vars
  BY <1>1 DEF vars, db, call, IInv, TypeOK, ConnInv, OpInv, LockInv,
              ListingIsSnapshot, PageMatchesTotal
<1>2. CASE Close
  BY <1>2, CloseInv
<1>3. ASSUME NEW p \in Procs, Call(p) \/ WatchEnds(p) \/ Discard(p) \/ Cancel(p)
      PROVE  IInv'
  BY <1>3, CallInv, WatchEndsInv, DiscardInv, CancelInv
<1>4. ASSUME NEW p \in Procs, Step(p) PROVE IInv'
  <2>1. CASE Reject(p) \/ ConnectErr(p) \/ Connect(p)
    BY <2>1, RejectInv, ConnectErrInv, ConnectInv
  <2>2. CASE InsertErr(p) \/ Insert(p) \/ InsertClose(p)
    BY <2>2, InsertErrInv, InsertInv, InsertCloseInv
  <2>3. CASE GetErr(p) \/ GetNotFound(p) \/ Get(p) \/ GetClose(p)
    BY <2>3, GetErrInv, GetNotFoundInv, GetInv, GetCloseInv
  <2>4. CASE BeginErr(p) \/ Begin(p) \/ TxDone(p) \/ ReadErr(p) \/ Read(p)
    BY <2>4, BeginErrInv, BeginInv, TxDoneInv, ReadErrInv, ReadInv
  <2>5. CASE CountErr(p) \/ Count(p) \/ CommitErr(p) \/ Commit(p)
    BY <2>5, CountErrInv, CountInv, CommitErrInv, CommitInv
  <2>6. CASE RollbackDone(p) \/ Rollback(p)
    BY <2>6, RollbackDoneInv, RollbackInv
  <2> QED BY <1>4, <2>1, <2>2, <2>3, <2>4, <2>5, <2>6 DEF Step
<1> QED BY <1>1, <1>2, <1>3, <1>4 DEF Next

(***************************************************************************)
(* The theorems.                                                           *)
(***************************************************************************)
\* The inductive invariant holds of every behaviour of the repository.
THEOREM RepositoryInvariant == Spec => []IInv
  BY InitInv, NextInv, PTL DEF Spec

\* The variables keep their types (repository.go, whole file).
THEOREM RepositoryTypes == Spec => []TypeOK
<1>1. IInv => TypeOK
  BY DEF IInv
<1> QED BY <1>1, RepositoryInvariant, PTL

\* GetAll reads one state of the table: the page is still current when the
\* users are counted and when the transaction commits (lines 83-99).
THEOREM ListingReadsOneState == Spec => []ListingIsSnapshot
<1>1. IInv => ListingIsSnapshot
  BY DEF IInv
<1> QED BY <1>1, RepositoryInvariant, PTL

\* The page GetAll hands out has exactly the length its total demands.
THEOREM PageHasItsLength == Spec => []PageMatchesTotal
<1>1. IInv => PageMatchesTotal
  BY DEF IInv
<1> QED BY <1>1, RepositoryInvariant, PTL

\* No call leaks a connection, a transaction or a table lock, on any path: what
\* a call that returned still holds is in the hands of the watcher of its
\* cancelled transaction (repository.go lines 76-81).
THEOREM NothingIsLeaked == Spec => []IdleHoldsNothing
<1>1. IInv => IdleHoldsNothing
  BY DEF IInv, ConnInv, LockInv, IdleHoldsNothing, TypeOK
<1> QED BY <1>1, RepositoryInvariant, PTL

\* Nobody is cancelled, so that no watcher has anything to do.
Undisturbed == \A p \in Procs : ~ctx[p] /\ tx[p] # "ending"

\* Where no context may be cancelled none ever is.
LEMMA UndisturbedKept ==
  ASSUME MayCancel = {}, TypeOK, Undisturbed, [Next]_vars
  PROVE  Undisturbed'
<1>1. CASE UNCHANGED vars \/ Close
  BY <1>1 DEF Undisturbed, vars, call, Close
<1>2. ASSUME NEW p \in Procs, Call(p) \/ WatchEnds(p) \/ Discard(p) \/ Cancel(p)
      PROVE  Undisturbed'
  BY <1>2 DEF Undisturbed, Call, WatchEnds, Discard, Cancel
<1>3. ASSUME NEW p \in Procs, Step(p) PROVE Undisturbed'
  <2>1. /\ ctx' = ctx \/ ctx' = [ctx EXCEPT ![p] = FALSE]
        /\ tx' = tx \/ \E t \in {"none", "open", "done"} : tx' = [tx EXCEPT ![p] = t]
    BY <1>3 DEF Undisturbed, Step, Reject, ConnectErr, Connect, InsertErr, Insert, InsertClose,
                GetErr, GetNotFound, Get, GetClose, BeginErr, Begin, TxDone, ReadErr, Read,
                CountErr, Count, CommitErr, Commit, RollbackDone, Rollback, FailAndPut, Reply
  <2> QED BY <2>1 DEF Undisturbed, TypeOK
<1> QED BY <1>1, <1>2, <1>3 DEF Next

\* While nobody is cancelled a call that returned holds nothing at all.
THEOREM NothingIsLeaked_NoCancel ==
  ASSUME MayCancel = {}
  PROVE  Spec => [](\A p \in Procs : pc[p] = "idle" =>
                      ~conn[p] /\ tx[p] = "none" /\ p \notin readers /\ writer # p)
<1>1. Init => Undisturbed
  BY DEF Init, Undisturbed
<1>2. TypeOK /\ Undisturbed /\ [Next]_vars => Undisturbed'
  BY UndisturbedKept
<1>3. IdleHoldsNothing /\ Undisturbed
        => \A p \in Procs : pc[p] = "idle" =>
             ~conn[p] /\ tx[p] = "none" /\ p \notin readers /\ writer # p
  BY DEF IdleHoldsNothing, Undisturbed
<1> QED BY <1>1, <1>2, <1>3, RepositoryTypes, NothingIsLeaked, PTL DEF Spec

\* Only a closed pool or the watcher of a cancelled transaction loses the
\* in-memory database (dbconfig.go line 20): as long as neither happens, every
\* connection that is closed leaves another one open.
THEOREM DatabaseIsKept == Spec => LossNeedsCancelledListing
<1> DEFINE Cause == closed' \/ \E p \in Procs : tx[p] = "ending"
           Kept == live /\ ~live' => Cause
<1>p. ASSUME TypeOK, NEW p \in Procs, NEW s \in Seq(Names), PutConn(p, s), closed' = closed
      PROVE  Kept
  BY <1>p, PutConnFacts
<1>1. ASSUME IInv, NEW p \in Procs, Step(p) PROVE Kept
  <2>0. TypeOK
    BY <1>1 DEF IInv
  <2>1. CASE \/ Reject(p) \/ ConnectErr(p) \/ Connect(p) \/ Insert(p) \/ Get(p) \/ Begin(p)
             \/ TxDone(p) \/ ReadErr(p) \/ Read(p) \/ CountErr(p) \/ Count(p)
             \/ CommitErr(p) \/ RollbackDone(p)
    BY <2>1 DEF Reject, ConnectErr, Connect, Insert, Get, Begin, TxDone, ReadErr, Read,
                CountErr, Count, CommitErr, RollbackDone, db
  <2>2. CASE InsertErr(p) \/ GetErr(p) \/ GetNotFound(p) \/ BeginErr(p)
    <3>1. PutConn(p, table) /\ closed' = closed
      BY <2>2 DEF InsertErr, GetErr, GetNotFound, BeginErr, FailAndPut
    <3> QED BY <2>0, <3>1, <1>p DEF TypeOK
  <2>3. CASE GetClose(p) \/ Commit(p) \/ Rollback(p)
    <3>1. PutConn(p, table) /\ closed' = closed
      BY <2>3 DEF GetClose, Commit, Rollback
    <3> QED BY <2>0, <3>1, <1>p DEF TypeOK
  <2>4. CASE InsertClose(p)
    <3>1. PutConn(p, Append(table, req[p].name)) /\ closed' = closed
      BY <2>4 DEF InsertClose
    <3>2. req[p].name \in Names
      <4>1. req[p] \in Requests /\ req[p].op = "create"
        BY <1>1, <2>4 DEF InsertClose, IInv, OpInv
      <4> QED BY <4>1, RequestFacts
    <3>3. Append(table, req[p].name) \in Seq(Names)
      BY <2>0, <3>2 DEF TypeOK
    <3> QED BY <2>0, <3>1, <3>3, <1>p
  <2> QED BY <1>1, <2>1, <2>2, <2>3, <2>4 DEF Step
<1>2. IInv /\ [Next]_vars => [Kept]_vars
  <2> SUFFICES ASSUME IInv, Next PROVE Kept
    OBVIOUS
  <2>1. CASE Close
    BY <2>1 DEF Close
  <2>2. ASSUME NEW p \in Procs, Call(p) \/ WatchEnds(p) \/ Cancel(p) PROVE Kept
    BY <2>2 DEF Call, WatchEnds, Cancel, db
  <2>3. ASSUME NEW p \in Procs, Discard(p) PROVE Kept
    BY <2>3 DEF Discard
  <2> QED BY <2>1, <2>2, <2>3, <1>1 DEF Next
<1> QED BY <1>2, RepositoryInvariant, PTL DEF Spec, LossNeedsCancelledListing
=============================================================================
