--------------------------- MODULE RestUsersProofs ---------------------------
(***************************************************************************)
(* Proofs about RestUsers, for any number of requests at a time, beside    *)
(* any number of other users of the store, and for any parameters.         *)
(***************************************************************************)
EXTENDS RestUsers, UserCallsProofs

\* The store below holds users and knows what it was asked.
StoreTypes ==
  /\ store \in Seq(Names)
  /\ live \in BOOLEAN /\ closed \in BOOLEAN
  /\ status \in [Procs -> {"idle", "called", "begun", "answered"}]
  /\ req \in [Procs -> Requests \cup {NoRequest}]
  /\ ctx \in [Procs -> BOOLEAN]
  /\ out \in [Procs -> Outcomes]
  /\ \A p \in Procs : status[p] # "idle" => req[p] \in Requests

\* How far the request of p is in the handlers and in the store.
PlaceInv(p) ==
  /\ at[p] # "idle" => request[p] \in HttpRequests
  /\ at[p] \in {"bind", "calling"} => wrote[p] = 0 /\ body[p] = "none"
  /\ at[p] = "calling" => req[p] = RepositoryCall(request[p])
  /\ at[p] # "calling" => status[p] = "idle"

\* The page p got from the repository shows what the request of p must show.
ShowsKnown(p) ==
  /\ out[p].total >= Cardinality(known[p])
  /\ request[p].page = 0 /\ out[p].total <= request[p].size
       => known[p] \subseteq Rows(out[p].content)

\* What the repository told p, and what p wrote, is true of the users there were
\* when its request arrived.
TruthInv(p) ==
  /\ at[p] = "calling" /\ out[p] = Failed("notfound") => request[p].name \notin known[p]
  /\ at[p] = "calling" /\ out[p].kind = "page" => ShowsKnown(p)
  /\ at[p] \in {"handled", "idle"} /\ request[p].route = "GetUser" =>
       /\ \/ wrote[p] = 200 /\ body[p] = "user"
          \/ wrote[p] \in {400, 404, 500} /\ body[p] = "problem"
       /\ wrote[p] = 404 => request[p].name \notin known[p]
  /\ at[p] \in {"handled", "idle"} /\ body[p] = "page" => ShowsKnown(p)

\* Users stay, as long as the database lives.
KnownInv == live => \A p \in Readers : known[p] \subseteq Rows(store)

IInv ==
  /\ RequestTypes
  /\ StoreTypes
  /\ \A p \in Readers : PlaceInv(p) /\ TruthInv(p)
  /\ KnownInv

(***************************************************************************)
(* Steps of the store.                                                     *)
(***************************************************************************)
\* Users only join, unless the database is lost.
StoreMove ==
  /\ store' \in Seq(Names) /\ live' \in BOOLEAN
  /\ live' => live /\ Rows(store) \subseteq Rows(store')

\* What an answer, or the return of a listing, may do to the table.
LEMMA SettleMoves ==
  ASSUME StoreTypes, NEW s, s = store \/ (live /\ \E n \in Names : s = Append(store, n)), Settle(s)
  PROVE  StoreMove
<1>1. s \in Seq(Names) /\ Rows(store) \subseteq Rows(s)
  <2>1. CASE s = store
    BY <2>1 DEF StoreTypes
  <2>2. ASSUME NEW n \in Names, s = Append(store, n)
        PROVE  s \in Seq(Names) /\ Rows(store) \subseteq Rows(s)
    <3>1. store \in Seq(Names)
      BY DEF StoreTypes
    <3>2. Append(store, n) \in Seq(Names) /\ Rows(Append(store, n)) = Rows(store) \cup {n}
      BY <3>1, RowsOfAppend
    <3> QED
      BY <2>2, <3>2, Zenon
  <2> QED
    BY <2>1, <2>2
<1>2. CASE store' = s /\ live' = live
  BY <1>1, <1>2 DEF StoreTypes, StoreMove
<1>3. CASE store' = <<>> /\ live' = FALSE
  BY <1>3, EmptyIsSeq DEF StoreMove
<1> QED
  BY <1>2, <1>3 DEF Settle

\* An outcome that is true of the store at this moment.
TrueOutcome(r, o) ==
  /\ o \in Outcomes
  /\ o = Failed("notfound") => r.op = "get" /\ live /\ r.name \notin Rows(store)
  /\ o.kind = "page" =>
       r.op = "list" /\ live /\ o = PageFound(PageOf(store, r.pr), Len(store))

\* The store answers p with something that is true at this moment.
LEMMA RespondFacts ==
  ASSUME StoreTypes, NEW p \in Procs, Respond(p)
  PROVE  /\ StoreMove /\ status[p] # "idle" /\ UNCHANGED <<closed, req>>
         /\ status' = [status EXCEPT ![p] = "answered"] \/ status' = [status EXCEPT ![p] = "idle"]
         /\ ctx' = ctx \/ ctx' = [ctx EXCEPT ![p] = FALSE]
         /\ \E o : out' = [out EXCEPT ![p] = o] /\ TrueOutcome(req[p], o)
<1> DEFINE Facts(o) ==
             /\ StoreMove /\ status[p] # "idle" /\ UNCHANGED <<closed, req>>
             /\ \/ status' = [status EXCEPT ![p] = "answered"]
                \/ status' = [status EXCEPT ![p] = "idle"]
             /\ ctx' = ctx \/ ctx' = [ctx EXCEPT ![p] = FALSE]
             /\ out' = [out EXCEPT ![p] = o]
<1>1. ASSUME NEW o, NEW s, s = store \/ (live /\ \E n \in Names : s = Append(store, n)),
             Answer(p, o, s)
      PROVE  Facts(o)
  BY <1>1, SettleMoves DEF Answer
<1>2. CASE Create(p)
  <2>1. PICK o \in {Created, Failed("cancelled")} : Answer(p, o, Append(store, req[p].name))
    BY <1>2 DEF Create
  <2>2. live /\ req[p].op = "create"
    BY <1>2 DEF Create
  <2>3. req[p].name \in Names
    <3>1. status[p] # "idle"
      BY <2>1 DEF Answer
    <3> QED
      BY <2>2, <3>1, RequestFacts DEF StoreTypes
  <2>4. TrueOutcome(req[p], o)
    <3>1. Created # Failed("notfound") /\ Failed("cancelled") # Failed("notfound")
      BY DEF Created, Failed
    <3> QED
      BY <3>1, OutcomeFacts DEF TrueOutcome
  <2> QED
    BY <2>1, <2>2, <2>3, <2>4, <1>1
<1>3. CASE GetAll(p)
  <2> DEFINE o == PageFound(PageOf(store, req[p].pr), Len(store))
  <2>1. Answer(p, o, store) /\ live /\ req[p].op = "list"
    BY <1>3 DEF GetAll
  <2>2. req[p] \in Requests
    BY <2>1 DEF Answer, StoreTypes
  <2>3. store \in Seq(Names) /\ Len(store) \in Nat
    BY DEF StoreTypes
  <2>4. PageOf(store, req[p].pr) \in Seq(Names)
    BY <2>1, <2>2, <2>3, RequestFacts, PageOfLength
  <2>5. TrueOutcome(req[p], o)
    <3>1. o # Failed("notfound")
      BY DEF PageFound, Failed
    <3> QED
      BY <2>1, <2>3, <2>4, <3>1, OutcomeFacts DEF TrueOutcome
  <2> QED
    BY <2>1, <2>5, <1>1
<1>4. CASE GetByID(p)
  <2>1. Answer(p, Found, store)
    BY <1>4 DEF GetByID
  <2>2. TrueOutcome(req[p], Found)
    <3>1. Found # Failed("notfound")
      BY DEF Found, Failed
    <3> QED
      BY <3>1, OutcomeFacts DEF TrueOutcome
  <2> QED
    BY <2>1, <2>2, <1>1
<1>5. CASE Fail(p)
  <2>1. PICK why \in Failures : MayFail(p, why) /\ Answer(p, Failed(why), store)
    BY <1>5 DEF Fail
  <2>2. TrueOutcome(req[p], Failed(why))
    <3>1. Failed(why) = Failed("notfound") => why = "notfound"
      BY DEF Failed
    <3>2. why = "notfound" => live /\ req[p].op = "get" /\ req[p].name \notin Rows(store)
      BY <2>1 DEF MayFail
    <3> QED
      BY <3>1, <3>2, OutcomeFacts DEF TrueOutcome
  <2> QED
    BY <2>1, <2>2, <1>1
<1> QED
  BY <1>2, <1>3, <1>4, <1>5 DEF Respond

\* A step of the store that only p, if anybody, sees keeps the types.
LEMMA TypesKept ==
  ASSUME StoreTypes, NEW p \in Procs, StoreMove, closed' \in BOOLEAN,
         NEW l \in {"idle", "called", "begun", "answered"}, NEW r \in Requests \cup {NoRequest},
         NEW c \in BOOLEAN, NEW o \in Outcomes,
         status' = status \/ status' = [status EXCEPT ![p] = l],
         req' = req \/ req' = [req EXCEPT ![p] = r],
         ctx' = ctx \/ ctx' = [ctx EXCEPT ![p] = c],
         out' = out \/ out' = [out EXCEPT ![p] = o],
         status'[p] # "idle" => req'[p] \in Requests
  PROVE  StoreTypes'
<1>1. /\ status' \in [Procs -> {"idle", "called", "begun", "answered"}]
      /\ req' \in [Procs -> Requests \cup {NoRequest}]
      /\ ctx' \in [Procs -> BOOLEAN]
      /\ out' \in [Procs -> Outcomes]
  BY DEF StoreTypes
<1>2. \A q \in Procs : status'[q] # "idle" => req'[q] \in Requests
  BY DEF StoreTypes
<1> QED
  BY <1>1, <1>2 DEF StoreTypes, StoreMove

\* Nothing of p changes, in the store or above it.
Same(p) ==
  /\ status'[p] = status[p] /\ req'[p] = req[p] /\ out'[p] = out[p]
  /\ at'[p] = at[p] /\ request'[p] = request[p] /\ wrote'[p] = wrote[p]
  /\ body'[p] = body[p] /\ known'[p] = known[p]

LEMMA SameKeeps ==
  ASSUME NEW p, PlaceInv(p), TruthInv(p), Same(p)
  PROVE  PlaceInv(p)' /\ TruthInv(p)'
  BY DEF Same, PlaceInv, TruthInv, ShowsKnown

\* A step touches one request; what it knows are the users there are, or were.
LEMMA StepOfOne ==
  ASSUME IInv, NEW p \in Procs, RequestTypes', StoreTypes', StoreMove,
         \A q \in Readers \ {p} : Same(q),
         p \in Readers => /\ PlaceInv(p)' /\ TruthInv(p)'
                          /\ known'[p] = known[p] \/ known'[p] \subseteq Rows(store)
  PROVE  IInv'
<1>1. \A q \in Readers : PlaceInv(q)' /\ TruthInv(q)'
  BY SameKeeps DEF IInv
<1>2. KnownInv'
  <2> SUFFICES ASSUME live', NEW q \in Readers
               PROVE  known'[q] \subseteq Rows(store')
    BY DEF KnownInv
  <2>1. live /\ Rows(store) \subseteq Rows(store')
    BY DEF StoreMove
  <2>2. known'[q] \subseteq Rows(store)
    BY <2>1 DEF IInv, KnownInv, Same
  <2> QED
    BY <2>1, <2>2
<1> QED
  BY <1>1, <1>2 DEF IInv

(***************************************************************************)
(* The steps of a request outside the store.                               *)
(***************************************************************************)
LEMMA ReadersAreProcs == Readers \subseteq Procs /\ Others \subseteq Procs
                         /\ Readers \cap Others = {}
  BY ProcsAssumption

\* A request has a route.
LEMMA HttpFacts ==
  ASSUME NEW r \in HttpRequests
  PROVE  /\ r.route \in {"GetUsers", "GetUser"}
         /\ r.route = "GetUser" => r.name \in Names
  BY DEF HttpRequests, GetUsersRequests, GetUserRequests

\* A step of the handlers alone leaves the store as it is.
LEMMA HandlerStep ==
  ASSUME IInv, NEW p \in Readers, RequestTypes', UNCHANGED storeVars,
         \E l : Goto(p, l),
         request' = request \/ \E r : request' = [request EXCEPT ![p] = r],
         wrote' = wrote \/ \E n : wrote' = [wrote EXCEPT ![p] = n],
         body' = body \/ \E k : body' = [body EXCEPT ![p] = k],
         known' = known \/ known' = [known EXCEPT ![p] = Rows(store)],
         PlaceInv(p)', TruthInv(p)'
  PROVE  IInv'
<1>1. StoreTypes' /\ StoreMove
  BY DEF IInv, StoreTypes, StoreMove, storeVars
<1>2. \A q \in Readers \ {p} : Same(q)
  BY DEF IInv, RequestTypes, Goto, Same, storeVars
<1>3. known'[p] = known[p] \/ known'[p] \subseteq Rows(store)
  BY DEF IInv, RequestTypes
<1>4. p \in Procs
  BY ReadersAreProcs
<1> QED
  BY <1>1, <1>2, <1>3, <1>4, StepOfOne

\* A request arrives.
LEMMA ReceiveKeeps ==
  ASSUME IInv, NEW p \in Readers, Receive(p)
  PROVE  IInv'
<1> USE DEF IInv
<1>1. PICK r \in HttpRequests : request' = [request EXCEPT ![p] = r]
  BY DEF Receive
<1>2. Rows(store) \in SUBSET Names
  BY RowsOfSeq DEF StoreTypes
<1>3. RequestTypes'
  BY <1>1, <1>2 DEF Receive, Goto, RequestTypes
<1>4. at'[p] = "bind" /\ request'[p] = r /\ wrote'[p] = 0 /\ body'[p] = "none"
  BY <1>1 DEF Receive, Goto, RequestTypes
<1>5. status'[p] = "idle"
  BY DEF Receive, storeVars, PlaceInv
<1>6. PlaceInv(p)' /\ TruthInv(p)'
  BY <1>4, <1>5 DEF PlaceInv, TruthInv
<1> QED
  BY <1>1, <1>3, <1>6, HandlerStep DEF Receive

\* The first status a request is given stands.
LEMMA WriteFacts ==
  ASSUME RequestTypes, NEW p \in Readers, NEW n, NEW k, Write(p, n, k)
  PROVE  /\ wrote[p] = 0 => /\ wrote' = [wrote EXCEPT ![p] = n] /\ wrote'[p] = n
                            /\ body' = [body EXCEPT ![p] = k] /\ body'[p] = k
         /\ wrote[p] # 0 => wrote' = wrote /\ body' = body
  BY DEF Write, RequestTypes

\* A handler ends: what it wrote is true.
LEMMA HandledKeeps ==
  ASSUME IInv, NEW p \in Readers, RequestTypes', Goto(p, "handled"),
         UNCHANGED <<storeVars, request, ended, known>>, status[p] = "idle", at[p] # "idle",
         wrote' = wrote \/ \E n : wrote' = [wrote EXCEPT ![p] = n],
         body' = body \/ \E k : body' = [body EXCEPT ![p] = k],
         request[p].route = "GetUser" =>
           /\ \/ wrote'[p] = 200 /\ body'[p] = "user"
              \/ wrote'[p] \in {400, 404, 500} /\ body'[p] = "problem"
           /\ wrote'[p] = 404 => request[p].name \notin known[p],
         body'[p] = "page" => ShowsKnown(p)
  PROVE  IInv'
<1> USE DEF IInv
<1>2. /\ at'[p] = "handled" /\ status'[p] = "idle" /\ out'[p] = out[p]
      /\ request'[p] = request[p] /\ known'[p] = known[p] /\ request[p] \in HttpRequests
  BY DEF Goto, RequestTypes, storeVars, PlaceInv
<1>3. PlaceInv(p)'
  BY <1>2 DEF PlaceInv
<1>4. ShowsKnown(p)' <=> ShowsKnown(p)
  BY <1>2 DEF ShowsKnown
<1>5. TruthInv(p)'
  BY <1>2, <1>4 DEF TruthInv
<1> QED
  BY <1>3, <1>5, HandlerStep

\* A handler that has not written yet writes a status and a body.
LEMMA WritesFirst ==
  ASSUME RequestTypes, NEW p \in Readers, Goto(p, "handled"), UNCHANGED <<request, ended, known>>,
         wrote[p] = 0, NEW n \in {200, 400, 404, 500}, NEW k \in {"problem", "page", "user"},
         Write(p, n, k)
  PROVE  /\ RequestTypes' /\ wrote'[p] = n /\ body'[p] = k
         /\ \E m : wrote' = [wrote EXCEPT ![p] = m]
         /\ \E m : body' = [body EXCEPT ![p] = m]
<1>1. /\ wrote' = [wrote EXCEPT ![p] = n] /\ wrote'[p] = n
      /\ body' = [body EXCEPT ![p] = k] /\ body'[p] = k
  BY WriteFacts
<1>2. RequestTypes'
  BY <1>1 DEF Goto, RequestTypes
<1> QED
  BY <1>1, <1>2, ZenonT(30)

\* The wrapper or the handler refuses a parameter.
LEMMA RefuseKeeps ==
  ASSUME IInv, NEW p \in Readers, BindErr(p) \/ ParamErr(p)
  PROVE  IInv'
<1>1. /\ at[p] = "bind" /\ Write(p, 400, "problem") /\ Goto(p, "handled")
      /\ UNCHANGED <<storeVars, request, ended, known>>
  BY DEF BindErr, ParamErr, HandleError
<1>2. wrote[p] = 0 /\ status[p] = "idle" /\ RequestTypes
  BY <1>1 DEF IInv, PlaceInv
<1>3. /\ RequestTypes' /\ wrote'[p] = 400 /\ body'[p] = "problem"
      /\ \E m : wrote' = [wrote EXCEPT ![p] = m]
      /\ \E m : body' = [body EXCEPT ![p] = m]
  BY <1>1, <1>2, WritesFirst
<1>4. /\ wrote'[p] \in {400, 404, 500} /\ wrote'[p] # 404 /\ body'[p] # "page"
      /\ at[p] # "idle"
  BY <1>1, <1>3
<1> QED
  BY <1>1, <1>2, <1>3, <1>4, HandledKeeps, ZenonT(30)

\* UsersHandler.GetUsers has its page, or an error that it does not report.
LEMMA GetUsersKeeps ==
  ASSUME IInv, NEW p \in Readers, GetUsers(p)
  PROVE  IInv'
<1>1. /\ at[p] = "calling" /\ status[p] = "idle" /\ request[p].route = "GetUsers"
      /\ Goto(p, "handled") /\ UNCHANGED <<storeVars, request, ended, known>>
  BY DEF GetUsers, Answered
<1>2. /\ wrote[p] = 0 /\ body[p] = "none" /\ RequestTypes
      /\ out[p].kind = "page" => ShowsKnown(p)
  BY <1>1 DEF IInv, PlaceInv, TruthInv
<1>3. CASE out[p].kind = "page"
  <2>1. Write(p, 200, "page")
    BY <1>3 DEF GetUsers
  <2>2. /\ RequestTypes' /\ wrote'[p] = 200 /\ body'[p] = "page"
        /\ \E m : wrote' = [wrote EXCEPT ![p] = m]
        /\ \E m : body' = [body EXCEPT ![p] = m]
    BY <1>1, <1>2, <2>1, WritesFirst
  <2> QED
    BY <1>1, <1>2, <1>3, <2>2, HandledKeeps
<1>4. CASE out[p].kind # "page"
  <2>1. wrote' = wrote /\ body' = body /\ body'[p] = "none"
    BY <1>2, <1>4 DEF GetUsers, HandleError
  <2>2. RequestTypes'
    BY <1>1, <1>2, <2>1 DEF Goto, RequestTypes
  <2> QED
    BY <1>1, <2>1, <2>2, HandledKeeps
<1> QED
  BY <1>3, <1>4

\* UsersHandler.GetUser has its user, or tells a missing one from any other error.
LEMMA GetUserKeeps ==
  ASSUME IInv, NEW p \in Readers, GetUser(p)
  PROVE  IInv'
<1>1. /\ at[p] = "calling" /\ status[p] = "idle" /\ request[p].route = "GetUser"
      /\ Goto(p, "handled") /\ UNCHANGED <<storeVars, request, ended, known>>
  BY DEF GetUser, Answered
<1>2. /\ wrote[p] = 0 /\ RequestTypes
      /\ out[p] = Failed("notfound") => request[p].name \notin known[p]
  BY <1>1 DEF IInv, PlaceInv, TruthInv
<1>3. /\ RequestTypes'
      /\ \E m : wrote' = [wrote EXCEPT ![p] = m]
      /\ \E m : body' = [body EXCEPT ![p] = m]
      /\ \/ wrote'[p] = 200 /\ body'[p] = "user"
         \/ wrote'[p] = 404 /\ body'[p] = "problem" /\ out[p] = Failed("notfound")
         \/ wrote'[p] = 500 /\ body'[p] = "problem"
  <2>1. CASE out[p] = Found
    <3>1. Write(p, 200, "user")
      BY <2>1 DEF GetUser
    <3> QED
      BY <1>1, <1>2, <3>1, WritesFirst
  <2>2. CASE out[p] # Found /\ out[p] = Failed("notfound")
    <3>1. Write(p, 404, "problem")
      BY <2>2 DEF GetUser
    <3> QED
      BY <1>1, <1>2, <2>2, <3>1, WritesFirst
  <2>3. CASE out[p] # Found /\ out[p] # Failed("notfound")
    <3>1. Write(p, 500, "problem")
      BY <2>3 DEF GetUser
    <3> QED
      BY <1>1, <1>2, <3>1, WritesFirst
  <2> QED
    BY <2>1, <2>2, <2>3
<1>4. /\ \/ wrote'[p] = 200 /\ body'[p] = "user"
         \/ wrote'[p] \in {400, 404, 500} /\ body'[p] = "problem"
      /\ wrote'[p] = 404 => request[p].name \notin known[p]
      /\ body'[p] # "page" /\ at[p] # "idle"
  BY <1>1, <1>2, <1>3
<1> QED
  BY <1>1, <1>3, <1>4, HandledKeeps

\* The timeout and net/http write a status only when there is none.
LEMMA FinishKeeps ==
  ASSUME IInv, NEW p \in Readers, Finish(p)
  PROVE  IInv'
<1> USE DEF IInv
<1> DEFINE n == IF ended[p] = "deadline" THEN 504 ELSE 200
<1>1. /\ at[p] = "handled" /\ Write(p, n, "none") /\ Goto(p, "idle")
      /\ UNCHANGED <<storeVars, request, ended, known>>
  BY DEF Finish
<1>2. n \in {200, 504}
  OBVIOUS
<1> HIDE DEF n
<1>3. \/ wrote[p] = 0 /\ wrote' = [wrote EXCEPT ![p] = n] /\ body' = [body EXCEPT ![p] = "none"]
      \/ wrote[p] # 0 /\ wrote' = wrote /\ body' = body
  BY <1>1, WriteFacts
<1>4. RequestTypes'
  BY <1>1, <1>2, <1>3 DEF Goto, RequestTypes
<1>5. /\ at'[p] = "idle" /\ status'[p] = "idle" /\ out'[p] = out[p]
      /\ request'[p] = request[p] /\ known'[p] = known[p]
      /\ ShowsKnown(p)' <=> ShowsKnown(p)
  BY <1>1 DEF Goto, RequestTypes, storeVars, PlaceInv, ShowsKnown
<1>6. PlaceInv(p)'
  BY <1>5 DEF PlaceInv
<1>7. TruthInv(p)'
  <2>1. CASE wrote[p] = 0
    <3>1. request[p].route # "GetUser"
      BY <1>1, <2>1 DEF TruthInv
    <3>2. body'[p] = "none"
      BY <1>3, <2>1 DEF RequestTypes
    <3> QED
      BY <1>5, <3>1, <3>2 DEF TruthInv
  <2>2. CASE wrote[p] # 0
    <3>1. wrote'[p] = wrote[p] /\ body'[p] = body[p]
      BY <1>3, <2>2
    <3> QED
      BY <1>1, <1>5, <3>1 DEF TruthInv
  <2> QED
    BY <2>1, <2>2
<1> QED
  BY <1>1, <1>3, <1>4, <1>6, <1>7, HandlerStep

(***************************************************************************)
(* The steps of the store, for a reader or for somebody else.              *)
(***************************************************************************)
\* The handler's call is one the store knows.
LEMMA CallRepositoryKeeps ==
  ASSUME IInv, NEW p \in Readers, CallRepository(p)
  PROVE  IInv'
<1> USE DEF IInv
<1> DEFINE r == request[p]
<1>0. p \in Procs
  BY ReadersAreProcs
<1>1. at[p] = "bind" /\ r \in HttpRequests /\ ParamsOk(r)
  BY DEF CallRepository, PlaceInv
<1>2. RepositoryCall(r) \in Requests
  <2>1. CASE r \in GetUsersRequests
    <3>1. /\ r.route = "GetUsers" /\ r.page \in PageParams /\ r.size \in SizeParams
          /\ PageOk(r.page) /\ SizeOk(r.size)
      BY <1>1, <2>1 DEF GetUsersRequests, ParamsOk
    <3>2. [page |-> r.page, size |-> r.size] \in PageRequests
      BY <3>1, AcceptedAssumption
    <3> QED
      BY <3>1, <3>2 DEF RepositoryCall, Requests, Lists
  <2>2. CASE r \in GetUserRequests
    <3>1. r.route = "GetUser" /\ r.name \in Names
      BY <2>2 DEF GetUserRequests
    <3> QED
      BY <3>1 DEF RepositoryCall, Requests, Gets
  <2> QED
    BY <1>1, <2>1, <2>2 DEF HttpRequests
<1>3. /\ status' = [status EXCEPT ![p] = "called"] /\ req' = [req EXCEPT ![p] = RepositoryCall(r)]
      /\ out' = [out EXCEPT ![p] = NoOut] /\ ctx' = [ctx EXCEPT ![p] = (ended[p] # "no")]
      /\ UNCHANGED <<store, live, closed, request, ended, wrote, body, known>>
      /\ at' = [at EXCEPT ![p] = "calling"]
  BY DEF CallRepository, Call, Goto
<1>4. StoreMove /\ closed' \in BOOLEAN
  BY <1>3 DEF StoreTypes, StoreMove
<1>5. StoreTypes'
  <2>1. NoOut \in Outcomes /\ (ended[p] # "no") \in BOOLEAN
    BY OutcomeFacts
  <2>2. req'[p] \in Requests
    BY <1>0, <1>2, <1>3 DEF StoreTypes
  <2> QED
    BY <1>0, <1>2, <1>3, <1>4, <2>1, <2>2, TypesKept
<1>6. RequestTypes'
  BY <1>3 DEF RequestTypes
<1>7. \A q \in Readers \ {p} : Same(q)
  BY <1>3, ReadersAreProcs DEF RequestTypes, StoreTypes, Same
<1>8. PlaceInv(p)' /\ TruthInv(p)'
  <2>1. at'[p] = "calling" /\ req'[p] = RepositoryCall(r) /\ out'[p] = NoOut
    BY <1>0, <1>3 DEF RequestTypes, StoreTypes
  <2>2. NoOut # Failed("notfound") /\ NoOut.kind # "page"
    BY DEF NoOut, Failed
  <2>3. wrote[p] = 0 /\ body[p] = "none"
    BY <1>1 DEF PlaceInv
  <2> QED
    BY <1>1, <1>3, <2>1, <2>2, <2>3 DEF PlaceInv, TruthInv
<1> QED
  BY <1>0, <1>3, <1>4, <1>5, <1>6, <1>7, <1>8, StepOfOne

\* What the store tells a reader is true of the users it knew.
LEMMA OutcomeIsTrue ==
  ASSUME IInv, NEW p \in Readers, at[p] = "calling", req[p] \in Requests, NEW o,
         TrueOutcome(req[p], o), out' = [out EXCEPT ![p] = o],
         request' = request, known' = known
  PROVE  /\ out'[p] = Failed("notfound") => request[p].name \notin known[p]
         /\ out'[p].kind = "page" => ShowsKnown(p)'
<1> USE DEF IInv
<1>1. /\ req[p] = RepositoryCall(request[p]) /\ request[p] \in HttpRequests
      /\ store \in Seq(Names) /\ (live => known[p] \subseteq Rows(store))
  BY DEF PlaceInv, StoreTypes, KnownInv
<1>2. out'[p] = o
  BY ReadersAreProcs DEF StoreTypes
<1>3. ASSUME o = Failed("notfound") PROVE request[p].name \notin known[p]
  <2>1. req[p].op = "get" /\ live /\ req[p].name \notin Rows(store)
    BY <1>3 DEF TrueOutcome
  <2>2. req[p].name = request[p].name
    BY <1>1, <2>1 DEF RepositoryCall
  <2> QED
    BY <1>1, <2>1, <2>2
<1>4. ASSUME o.kind = "page" PROVE ShowsKnown(p)'
  <2>1. req[p].op = "list" /\ live /\ o = PageFound(PageOf(store, req[p].pr), Len(store))
    BY <1>4 DEF TrueOutcome
  <2>2. req[p].pr = [page |-> request[p].page, size |-> request[p].size]
    BY <1>1, <2>1 DEF RepositoryCall
  <2>3. req[p].pr \in [page : Nat, size : Nat]
    BY <2>1, RequestFacts
  <2>4. request[p].page \in Nat /\ request[p].size \in Nat
    BY <2>2, <2>3
  <2>5. o.total = Len(store) /\ o.content = PageOf(store, req[p].pr)
    BY <2>1 DEF PageFound
  <2>6. Len(store) >= Cardinality(known[p])
    <3>1. known[p] \in SUBSET Rows(store)
      BY <1>1, <2>1
    <3>2. Len(store) \in Nat /\ Cardinality(known[p]) \in Nat /\ Cardinality(known[p]) <= Len(store)
      BY <1>1, <3>1, RowsCount
    <3> QED
      BY <3>2
  <2>7. ASSUME request[p].page = 0, Len(store) <= request[p].size
        PROVE  known[p] \subseteq Rows(o.content)
    <3>1. req[p].pr = [page |-> 0, size |-> request[p].size]
      BY <2>2, <2>7
    <3>2. o.content = store
      BY <1>1, <2>4, <2>5, <2>7, <3>1, FirstPageIsAll
    <3> QED
      BY <1>1, <2>1, <3>2
  <2> QED
    BY <1>2, <2>5, <2>6, <2>7 DEF ShowsKnown
<1> QED
  BY <1>2, <1>3, <1>4

\* The repository works on the call of a reader.
LEMMA RepositoryKeeps ==
  ASSUME IInv, NEW p \in Readers, Repository(p)
  PROVE  IInv'
<1> USE DEF IInv
<1>0. /\ p \in Procs /\ at[p] = "calling" /\ UNCHANGED restVars
      /\ UNCHANGED <<at, request, ended, wrote, body, known>>
  BY ReadersAreProcs DEF Repository, restVars
<1>1. RequestTypes'
  BY <1>0 DEF RequestTypes
<1>2. CASE Respond(p)
  <2>1. PICK o : out' = [out EXCEPT ![p] = o] /\ TrueOutcome(req[p], o)
    BY <1>0, <1>2, RespondFacts
  <2>2. /\ StoreMove /\ status[p] # "idle" /\ UNCHANGED <<closed, req>>
        /\ \/ status' = [status EXCEPT ![p] = "answered"]
           \/ status' = [status EXCEPT ![p] = "idle"]
        /\ ctx' = ctx \/ ctx' = [ctx EXCEPT ![p] = FALSE]
    BY <1>0, <1>2, RespondFacts
  <2>3. req[p] \in Requests /\ o \in Outcomes
    BY <1>0, <2>1, <2>2 DEF StoreTypes, TrueOutcome
  <2>4. StoreTypes'
    <3>1. req'[p] \in Requests /\ closed' \in BOOLEAN
      BY <2>2, <2>3 DEF StoreTypes
    <3> QED
      BY <1>0, <2>1, <2>2, <2>3, <3>1, TypesKept
  <2>5. \A q \in Readers \ {p} : Same(q)
    BY <1>0, <2>1, <2>2, ReadersAreProcs DEF StoreTypes, Same
  <2>6. /\ out'[p] = Failed("notfound") => request[p].name \notin known[p]
        /\ out'[p].kind = "page" => ShowsKnown(p)'
    BY <1>0, <2>1, <2>3, OutcomeIsTrue
  <2>7. PlaceInv(p)' /\ TruthInv(p)'
    BY <1>0, <2>2, <2>6 DEF PlaceInv, TruthInv
  <2> QED
    BY <1>0, <1>1, <2>2, <2>4, <2>5, <2>7, StepOfOne
<1>3. CASE Return(p)
  <2>1. /\ status' = [status EXCEPT ![p] = "idle"] /\ ctx' = [ctx EXCEPT ![p] = FALSE]
        /\ UNCHANGED <<closed, req, out>> /\ Settle(store)
    BY <1>3 DEF Return
  <2>2. StoreMove
    BY <2>1, SettleMoves
  <2>3. StoreTypes'
    BY <1>0, <2>1, <2>2 DEF StoreTypes, StoreMove
  <2>4. \A q \in Readers \ {p} : Same(q)
    BY <1>0, <2>1, ReadersAreProcs DEF StoreTypes, Same
  <2>5. PlaceInv(p)' /\ TruthInv(p)'
    BY <1>0, <2>1 DEF PlaceInv, TruthInv, ShowsKnown
  <2> QED
    BY <1>0, <1>1, <2>2, <2>3, <2>4, <2>5, StepOfOne
<1>4. CASE Start(p)
  <2>1. /\ status' = [status EXCEPT ![p] = "begun"] /\ status[p] = "called"
        /\ UNCHANGED <<store, live, closed, req, ctx, out>>
    BY <1>4 DEF Start
  <2>2. StoreMove
    BY <2>1 DEF StoreTypes, StoreMove
  <2>3. StoreTypes'
    BY <1>0, <2>1 DEF StoreTypes
  <2>4. \A q \in Readers \ {p} : Same(q)
    BY <1>0, <2>1, ReadersAreProcs DEF StoreTypes, Same
  <2>5. PlaceInv(p)' /\ TruthInv(p)'
    BY <1>0, <2>1 DEF PlaceInv, TruthInv, ShowsKnown
  <2> QED
    BY <1>0, <1>1, <2>2, <2>3, <2>4, <2>5, StepOfOne
<1> QED
  BY <1>2, <1>3, <1>4 DEF Repository

\* A step that no request sees: a context ends, the database is lost, run ends.
LEMMA QuietKeeps ==
  ASSUME IInv, RequestTypes', StoreMove, closed' \in BOOLEAN, ctx' \in [Procs -> BOOLEAN],
         UNCHANGED <<status, req, out, at, request, wrote, body, known>>
  PROVE  IInv'
<1>1. StoreTypes'
  BY DEF IInv, StoreTypes, StoreMove
<1>2. \A q \in Readers : PlaceInv(q)' /\ TruthInv(q)'
  BY SameKeeps DEF IInv, Same
<1>3. KnownInv'
  BY DEF IInv, KnownInv, StoreMove
<1> QED
  BY <1>1, <1>2, <1>3 DEF IInv

\* The context of a call ends, or the watcher of a cancelled listing works.
LEMMA CancelOrDiscard ==
  ASSUME StoreTypes, NEW p \in Procs,
         Cancel(p) \/ Linger(p) \/ Discard(p) \/ UNCHANGED storeVars
  PROVE  /\ StoreMove /\ closed' \in BOOLEAN /\ ctx' \in [Procs -> BOOLEAN]
         /\ UNCHANGED <<status, req, out>>
<1>1. CASE Cancel(p)
  BY <1>1 DEF Cancel, StoreTypes, StoreMove
<1>2. CASE Discard(p)
  <2>1. /\ UNCHANGED <<closed, status, req, ctx, out>>
        /\ \/ store' = store /\ live' = live
           \/ store' = <<>> /\ live' = FALSE
    BY <1>2 DEF Discard
  <2>2. CASE store' = store /\ live' = live
    BY <2>1, <2>2 DEF StoreTypes, StoreMove
  <2>3. CASE store' = <<>> /\ live' = FALSE
    BY <2>1, <2>3, EmptyIsSeq DEF StoreTypes, StoreMove
  <2> QED
    BY <2>1, <2>2, <2>3
<1>3. CASE Linger(p) \/ UNCHANGED storeVars
  BY <1>3 DEF Linger, storeVars, StoreTypes, StoreMove
<1> QED
  BY <1>1, <1>2, <1>3

\* A watcher, of a reader's listing or of another one, may lose the database.
LEMMA WatcherKeeps ==
  ASSUME IInv, NEW p \in Procs, Watcher(p)
  PROVE  IInv'
<1>1. Linger(p) \/ Discard(p)
  BY DEF Watcher
<1>2. UNCHANGED <<at, request, ended, wrote, body, known>>
  BY DEF Watcher, restVars
<1>3. RequestTypes'
  BY <1>2 DEF IInv, RequestTypes
<1> QED
  BY <1>1, <1>2, <1>3, CancelOrDiscard, QuietKeeps DEF IInv

\* The timeout or the client ends a request.
LEMMA EndKeeps ==
  ASSUME IInv, NEW p \in Readers, End(p)
  PROVE  IInv'
<1>1. /\ p \in Procs
      /\ Cancel(p) \/ UNCHANGED storeVars
      /\ UNCHANGED <<at, request, wrote, body, known>>
      /\ ended' = ended \/ \E why \in {"deadline", "gone"} : ended' = [ended EXCEPT ![p] = why]
  BY ReadersAreProcs DEF End
<1>2. RequestTypes'
  BY <1>1 DEF IInv, RequestTypes
<1> QED
  BY <1>1, <1>2, CancelOrDiscard, QuietKeeps DEF IInv

\* run returns and closes the pool.
LEMMA RunEndsKeeps ==
  ASSUME IInv, RunEnds
  PROVE  IInv'
<1>1. /\ closed' = TRUE /\ UNCHANGED <<status, req, ctx, out>> /\ UNCHANGED restVars
      /\ \/ store' = store /\ live' = live
         \/ store' = <<>> /\ live' = FALSE
  BY DEF RunEnds, Close
<1>2. StoreMove
  <2>1. store \in Seq(Names) /\ live \in BOOLEAN
    BY DEF IInv, StoreTypes
  <2>2. CASE store' = store /\ live' = live
    BY <2>1, <2>2 DEF StoreMove
  <2>3. CASE store' = <<>> /\ live' = FALSE
    BY <2>3, EmptyIsSeq DEF StoreMove
  <2> QED
    BY <1>1, <2>2, <2>3
<1>3. RequestTypes'
  BY <1>1 DEF IInv, RequestTypes, restVars
<1>4. /\ closed' \in BOOLEAN /\ ctx' \in [Procs -> BOOLEAN]
      /\ UNCHANGED <<at, request, wrote, body, known>>
  BY <1>1 DEF IInv, StoreTypes, restVars
<1> QED
  BY <1>1, <1>2, <1>3, <1>4, QuietKeeps

\* Somebody else uses the store.
LEMMA OtherKeeps ==
  ASSUME IInv, NEW p \in Others, Other(p)
  PROVE  IInv'
<1> USE DEF IInv
<1>0. /\ p \in Procs /\ p \notin Readers /\ Readers \subseteq Procs
      /\ UNCHANGED <<at, request, ended, wrote, body, known>>
  BY ReadersAreProcs DEF Other, restVars
<1>1. RequestTypes'
  BY <1>0 DEF RequestTypes
<1>2. ASSUME StoreTypes', StoreMove, \A q \in Procs \ {p} : /\ status'[q] = status[q]
                                                          /\ req'[q] = req[q] /\ out'[q] = out[q]
      PROVE  IInv'
  <2>1. \A q \in Readers \ {p} : Same(q)
    BY <1>0, <1>2 DEF Same
  <2> QED
    BY <1>0, <1>1, <1>2, <2>1, StepOfOne
<1>3. CASE \E r \in {c \in Creates : c.valid} \cup Lists : Call(p, r, FALSE)
  <2>1. PICK r \in Requests : Call(p, r, FALSE)
    BY <1>3 DEF Requests
  <2>2. /\ status' = [status EXCEPT ![p] = "called"] /\ req' = [req EXCEPT ![p] = r]
        /\ out' = [out EXCEPT ![p] = NoOut] /\ ctx' = [ctx EXCEPT ![p] = FALSE]
        /\ UNCHANGED <<store, live, closed>>
    BY <2>1 DEF Call
  <2>3. StoreMove /\ closed' \in BOOLEAN /\ NoOut \in Outcomes /\ req'[p] \in Requests
    BY <1>0, <2>2, OutcomeFacts DEF StoreTypes, StoreMove
  <2>4. StoreTypes'
    BY <1>0, <2>2, <2>3, TypesKept
  <2> QED
    BY <1>2, <2>2, <2>3, <2>4 DEF StoreTypes
<1>4. CASE Respond(p)
  <2>1. PICK o : out' = [out EXCEPT ![p] = o] /\ TrueOutcome(req[p], o)
    BY <1>0, <1>4, RespondFacts
  <2>2. /\ StoreMove /\ status[p] # "idle" /\ UNCHANGED <<closed, req>>
        /\ \/ status' = [status EXCEPT ![p] = "answered"]
           \/ status' = [status EXCEPT ![p] = "idle"]
        /\ ctx' = ctx \/ ctx' = [ctx EXCEPT ![p] = FALSE]
    BY <1>0, <1>4, RespondFacts
  <2>3. req'[p] \in Requests /\ closed' \in BOOLEAN /\ o \in Outcomes
    BY <1>0, <2>1, <2>2 DEF StoreTypes, TrueOutcome
  <2>4. StoreTypes'
    BY <1>0, <2>1, <2>2, <2>3, TypesKept
  <2> QED
    BY <1>2, <2>1, <2>2, <2>4 DEF StoreTypes
<1>5. CASE Return(p)
  <2>1. /\ status' = [status EXCEPT ![p] = "idle"] /\ ctx' = [ctx EXCEPT ![p] = FALSE]
        /\ UNCHANGED <<closed, req, out>> /\ Settle(store)
    BY <1>5 DEF Return
  <2>2. StoreMove
    BY <2>1, SettleMoves
  <2>3. StoreTypes'
    BY <1>0, <2>1, <2>2 DEF StoreTypes, StoreMove
  <2> QED
    BY <1>2, <2>1, <2>2, <2>3 DEF StoreTypes
<1>6. CASE Cancel(p)
  BY <1>0, <1>1, <1>6, CancelOrDiscard, QuietKeeps
<1>7. CASE Start(p)
  <2>1. /\ status' = [status EXCEPT ![p] = "begun"] /\ status[p] = "called"
        /\ UNCHANGED <<store, live, closed, req, ctx, out>>
    BY <1>7 DEF Start
  <2>2. StoreMove
    BY <2>1 DEF StoreTypes, StoreMove
  <2>3. StoreTypes'
    BY <1>0, <2>1 DEF StoreTypes
  <2> QED
    BY <1>2, <2>1, <2>2, <2>3 DEF StoreTypes
<1> QED
  BY <1>3, <1>4, <1>5, <1>6, <1>7 DEF Other

(***************************************************************************)
(* The theorems.                                                           *)
(***************************************************************************)
\* Nobody has asked anything, and the store holds the seeded users.
LEMMA InitInv == Init => IInv
<1> SUFFICES ASSUME Init PROVE IInv
  OBVIOUS
<1>1. RequestTypes
  BY DEF Init, RequestTypes
<1>2. StoreTypes
  BY SeedAssumption, OutcomeFacts DEF Init, StoreInit, StoreTypes
<1>3. \A p \in Readers : PlaceInv(p)
  BY ReadersAreProcs DEF Init, StoreInit, PlaceInv
<1>4. \A p \in Readers : TruthInv(p)
  BY DEF Init, NoHttp, TruthInv
<1>5. KnownInv
  BY DEF Init, KnownInv
<1> QED
  BY <1>1, <1>2, <1>3, <1>4, <1>5 DEF IInv

\* Every step of the API, of the store and of its other users keeps the invariant.
LEMMA NextKeeps == IInv /\ [Next]_vars => IInv'
<1> SUFFICES ASSUME IInv, [Next]_vars PROVE IInv'
  OBVIOUS
<1>1. CASE Exit \/ UNCHANGED vars
  <2>1. UNCHANGED storeVars /\ UNCHANGED restVars
    BY <1>1 DEF Exit, vars
  <2>2. RequestTypes' /\ StoreMove
    BY <2>1 DEF IInv, RequestTypes, StoreTypes, StoreMove, storeVars, restVars
  <2> QED
    BY <2>1, <2>2, QuietKeeps DEF IInv, StoreTypes, storeVars, restVars
<1>2. CASE RunEnds
  BY <1>2, RunEndsKeeps
<1>3. ASSUME NEW p \in Readers, Receive(p) \/ End(p) PROVE IInv'
  BY <1>3, ReceiveKeeps, EndKeeps
<1>4. ASSUME NEW p \in Readers, Serve(p) PROVE IInv'
  BY <1>4, RefuseKeeps, CallRepositoryKeeps, RepositoryKeeps, GetUsersKeeps, GetUserKeeps,
     FinishKeeps DEF Serve
<1>5. ASSUME NEW p \in Others, Other(p) PROVE IInv'
  BY <1>5, OtherKeeps
<1>6. ASSUME NEW p \in Procs, Watcher(p) PROVE IInv'
  BY <1>6, WatcherKeeps
<1> QED
  BY <1>1, <1>2, <1>3, <1>4, <1>5, <1>6 DEF Next

\* The inductive invariant holds of every behaviour of the REST API.
THEOREM RestInvariant == Spec => []IInv
  BY InitInv, NextKeeps, PTL DEF Spec

\* The variables keep their types (api.go and users_handler.go).
THEOREM RestTypes == Spec => []TypeOK
<1>1. Init => exited \in BOOLEAN
  BY DEF Init
<1>2. exited \in BOOLEAN /\ [Next]_vars => (exited \in BOOLEAN)'
  BY DEF Next, Exit, Running, Serve, vars
<1>3. IInv /\ exited \in BOOLEAN => TypeOK
  BY DEF IInv, TypeOK
<1> QED
  BY <1>1, <1>2, <1>3, RestInvariant, PTL DEF Spec

\* UsersHandler.GetUser answers as openapi.yml says, whatever happens to the
\* repository, and the timeout never replaces its status.
THEOREM UserAnswerConforms == Spec => []GetUserConforms
<1>1. IInv => GetUserConforms
  BY DEF IInv, TruthInv, GetUserConforms, Done
<1> QED
  BY <1>1, RestInvariant, PTL

\* A 404 is never an excuse for a lock, a lost database or a timeout.
THEOREM MissingMeansMissing == Spec => []NotFoundIsTrue
<1>1. IInv => NotFoundIsTrue
  BY DEF IInv, TruthInv, NotFoundIsTrue, Done
<1> QED
  BY <1>1, RestInvariant, PTL

\* A page shows the users there were when its request arrived, however many
\* join while the request waits for the repository.
THEOREM PageShowsWhoWasThere == Spec => []PageShowsKnown
<1>1. IInv => PageShowsKnown
  BY DEF IInv, TruthInv, ShowsKnown, PageShowsKnown, Done
<1> QED
  BY <1>1, RestInvariant, PTL

\* The API uses the repository as its interface allows: what it does to the store,
\* together with everybody else, is what UserStore describes.  So the theorems
\* above hold over every repository that implements UserStore.
THEOREM RestUsesStore == Spec => StoreSpec
<1>1. Init => StoreInit
  BY DEF Init
<1>2. IInv /\ IInv' /\ [Next]_vars => [StoreNext]_storeVars
  <2> SUFFICES ASSUME IInv, IInv', [Next]_vars PROVE StoreNext \/ UNCHANGED storeVars
    OBVIOUS
  <2>1. CASE Exit \/ UNCHANGED vars
    BY <2>1 DEF Exit, vars
  <2>2. CASE RunEnds
    BY <2>2 DEF RunEnds, StoreNext
  <2>3. ASSUME NEW p \in Readers, Receive(p) \/ End(p)
        PROVE  StoreNext \/ UNCHANGED storeVars
    BY <2>3, ReadersAreProcs DEF Receive, End, StoreNext
  <2>4. ASSUME NEW p \in Readers, Serve(p) PROVE StoreNext \/ UNCHANGED storeVars
    <3>1. CASE CallRepository(p)
      <4>1. p \in Procs /\ Call(p, RepositoryCall(request[p]), ended[p] # "no")
        BY <3>1, ReadersAreProcs DEF CallRepository
      <4>2. RepositoryCall(request[p]) \in Requests
        <5>1. status'[p] = "called" /\ req'[p] = RepositoryCall(request[p])
          BY <4>1 DEF Call, IInv, StoreTypes
        <5> QED
          BY <4>1, <5>1 DEF IInv, StoreTypes
      <4> QED
        BY <4>1, <4>2 DEF StoreNext
    <3>2. CASE Repository(p)
      BY <3>2, ReadersAreProcs DEF Repository, StoreNext
    <3>3. CASE BindErr(p) \/ ParamErr(p) \/ GetUsers(p) \/ GetUser(p) \/ Finish(p)
      BY <3>3 DEF BindErr, ParamErr, GetUsers, GetUser, Answered, Finish
    <3> QED
      BY <2>4, <3>1, <3>2, <3>3 DEF Serve
  <2>5. ASSUME NEW p \in Others, Other(p) PROVE StoreNext \/ UNCHANGED storeVars
    <3>1. CASE \E r \in {c \in Creates : c.valid} \cup Lists : Call(p, r, FALSE)
      <4>1. PICK r \in Requests : Call(p, r, FALSE)
        BY <3>1 DEF Requests
      <4> QED
        BY <4>1, ReadersAreProcs DEF StoreNext
    <3>2. CASE Start(p) \/ Respond(p) \/ Return(p) \/ Cancel(p)
      BY <3>2, ReadersAreProcs DEF StoreNext
    <3> QED
      BY <2>5, <3>1, <3>2 DEF Other
  <2>6. ASSUME NEW p \in Procs, Watcher(p) PROVE StoreNext
    BY <2>6 DEF Watcher, StoreNext
  <2> QED
    BY <2>1, <2>2, <2>3, <2>4, <2>5, <2>6 DEF Next
<1> QED
  BY <1>1, <1>2, RestInvariant, PTL DEF Spec, StoreSpec
=============================================================================
