--------------------------- MODULE GrpcUsersProofs ---------------------------
(***************************************************************************)
(* Proofs about GrpcUsers, for any number of RPCs at a time and any        *)
(* usernames, passwords and seeded users.                                  *)
(***************************************************************************)
EXTENDS GrpcUsers, UserCallsProofs

(***************************************************************************)
(* The checks of a username and a password, for texts of any length.       *)
(***************************************************************************)
\* What Password.IsValid accepts has at most 64 bytes, and bcrypt takes 72.
THEOREM AcceptedPasswordIsHashed ==
  ASSUME NEW p, IsText(p), PasswordErr(p) = {}
  PROVE  HashErr(p) = {}
<1>1. p.bytes \in Nat
  BY DEF IsText
<1>2. p.bytes <= 64
  BY <1>1 DEF PasswordErr
<1>3. ~(p.bytes > 72)
  BY <1>1, <1>2
<1> QED
  BY <1>3 DEF HashErr

\* For texts of one byte for each character, newNewUser (db/model.go lines 15-30)
\* and users.proto (lines 17-30) accept the same requests.
THEOREM PlainTextAgreement ==
  ASSUME NEW u, NEW p, IsText(u), IsText(p), u.plain, p.plain
  PROVE  NewNewUserErr(u, p) = {} <=> ProtoAccepts(u, p)
<1>1. /\ u.bytes \in Nat /\ u.chars \in Nat /\ u.bytes = u.chars
      /\ p.bytes \in Nat /\ p.chars \in Nat /\ p.bytes = p.chars
  BY DEF IsText
<1>2. UsernameErr(u) = {} <=> u.chars \in 3..32
  BY <1>1 DEF UsernameErr
<1>3. PasswordErr(p) = {} <=> p.chars \in 8..64
  BY <1>1 DEF PasswordErr
<1>4. NewNewUserErr(u, p) = {} <=> UsernameErr(u) = {} /\ PasswordErr(p) = {}
  <2>1. CASE UsernameErr(u) \cup PasswordErr(p) = {}
    BY <2>1, AcceptedPasswordIsHashed DEF NewNewUserErr
  <2>2. CASE UsernameErr(u) \cup PasswordErr(p) # {}
    BY <2>2 DEF NewNewUserErr
  <2> QED
    BY <2>1, <2>2
<1> QED
  BY <1>2, <1>3, <1>4 DEF ProtoAccepts

\* For any text, what newNewUser accepts is never too long for users.proto; it may
\* be too short, as few as one character for a username and two for a password.
THEOREM AcceptedIsNotTooLong ==
  ASSUME NEW u, NEW p, IsText(u), IsText(p), NewNewUserErr(u, p) = {}
  PROVE  u.chars \in 1..32 /\ p.chars \in 2..64
<1>1. /\ u.bytes \in Nat /\ u.chars \in Nat /\ u.chars <= u.bytes /\ u.bytes <= 4 * u.chars
      /\ p.bytes \in Nat /\ p.chars \in Nat /\ p.chars <= p.bytes /\ p.bytes <= 4 * p.chars
  BY DEF IsText
<1>2. UsernameErr(u) = {} /\ PasswordErr(p) = {}
  BY DEF NewNewUserErr
<1>3. u.bytes \in 3..32
  <2>1. ~(u.bytes < 3)
    BY <1>2 DEF UsernameErr
  <2>2. ~(u.bytes > 32)
    BY <1>2, <2>1 DEF UsernameErr
  <2> QED
    BY <1>1, <2>1, <2>2
<1>4. p.bytes \in 8..64
  BY <1>1, <1>2 DEF PasswordErr
<1> QED
  BY <1>1, <1>3, <1>4

(***************************************************************************)
(* The inductive invariant of the server.                                  *)
(***************************************************************************)

CreateRpcs == [method : {"CreateUser"}, name : Names, password : Passwords]
CallOutcomes == {NoOut, Created} \cup [kind : Failures]

\* What GrpcUsers needs to know of the store below it.
StoreTypes ==
  /\ store \in Seq(Names)
  /\ live \in BOOLEAN
  /\ closed \in BOOLEAN
  /\ status \in [Procs -> {"idle", "called", "begun", "answered"}]
  /\ DOMAIN req = Procs
  /\ ctx \in [Procs -> BOOLEAN]
  /\ out \in [Procs -> CallOutcomes]

\* How far the RPC of p is in the interceptor and in the store.
PlaceInv(p) ==
  /\ at[p] = "handle" => runs[p] \in {0, 1}
  /\ at[p] = "calling" => runs[p] \in {1, 2} /\ status[p] \in {"called", "begun", "idle"}
                          /\ rpc[p] \in CreateRpcs
                          /\ req[p].op = "create" /\ req[p].name = rpc[p].name
  /\ at[p] # "calling" => status[p] = "idle"

\* What the RPC of p has been, or will be, told of the row it saved or did not.
HonestInv(p) ==
  /\ at[p] = "handle" /\ rpc[p].method = "CreateUser" => ~saved[p]
  /\ at[p] = "calling" /\ status[p] # "idle" => ~saved[p]
  /\ at[p] = "calling" /\ status[p] = "idle" =>
        /\ out[p] = Created => saved[p] \/ closed
        /\ out[p] \notin {Created, Failed("cancelled")} => ~saved[p]
  /\ at[p] \in {"handled", "idle"} /\ rpc[p].method = "CreateUser" =>
        /\ code[p] = "Unknown" => ~saved[p]
        /\ code[p] = "OK" => saved[p] \/ closed

\* p has been, or will be, told that it created its user.
Claims(p) ==
  \/ code[p] = "OK"
  \/ at[p] = "calling" /\ status[p] = "idle" /\ out[p] = Created

OwnerInv ==
  /\ live => Rows(Seed) \subseteq Rows(store)
  /\ \A p \in Procs : Claims(p) =>
        /\ rpc[p] \in CreateRpcs
        /\ rpc[p].name \notin Rows(Seed)
        /\ live => rpc[p].name \in Rows(store)
  /\ \A p, q \in Procs : Claims(p) /\ Claims(q) /\ p # q => rpc[p].name # rpc[q].name

IInv ==
  /\ RpcTypes
  /\ StoreTypes
  /\ \A p \in Procs : PlaceInv(p) /\ HonestInv(p)
  /\ OwnerInv

\* Three outcomes that are not one another.
LEMMA OutcomesDiffer ==
  /\ Created # NoOut
  /\ Created # Failed("cancelled")
  /\ Created \notin [kind : Failures]
  /\ Created \in CallOutcomes /\ NoOut \in CallOutcomes
  /\ \A why \in Failures : Failed(why) \in CallOutcomes /\ Failed(why) # Created
  /\ Failed("cancelled") \in CallOutcomes
BY DEF Created, NoOut, Failed, Failures, CallOutcomes

\* The repository stored a row for p, or failed; either way the last connection
\* may have gone with the answer.
Stored(p) ==
  /\ live /\ req[p].name \notin Rows(store)
  /\ \/ store' = Append(store, req[p].name) /\ live' = live
     \/ closed /\ store' = <<>> /\ live' = FALSE
NotStored ==
  \/ store' = store /\ live' = live
  \/ closed /\ store' = <<>> /\ live' = FALSE

\* What an answer does to a call of Create.
LEMMA RespondFacts ==
  ASSUME NEW p \in Procs, StoreTypes, req[p].op = "create", Respond(p)
  PROVE  /\ status[p] \in {"called", "begun"}
         /\ status' = [status EXCEPT ![p] = "idle"]
         /\ ctx' = [ctx EXCEPT ![p] = FALSE]
         /\ UNCHANGED <<closed, req>>
         /\ \/ out' = [out EXCEPT ![p] = Created] /\ Stored(p)
            \/ out' = [out EXCEPT ![p] = Failed("cancelled")] /\ Stored(p)
            \/ \E why \in Failures : out' = [out EXCEPT ![p] = Failed(why)] /\ NotStored
<1>1. ASSUME NEW o, NEW s, Answer(p, o, s)
      PROVE  /\ status[p] \in {"called", "begun"}
             /\ status' = [status EXCEPT ![p] = "idle"]
             /\ ctx' = [ctx EXCEPT ![p] = FALSE]
             /\ UNCHANGED <<closed, req>>
             /\ out' = [out EXCEPT ![p] = o]
             /\ \/ store' = s /\ live' = live
                \/ closed /\ store' = <<>> /\ live' = FALSE
  BY <1>1 DEF Answer, Settle
<1>2. CASE Create(p)
  <2>1. live /\ req[p].name \notin Rows(store)
    BY <1>2 DEF Create
  <2>2. \/ Answer(p, Created, Append(store, req[p].name))
        \/ Answer(p, Failed("cancelled"), Append(store, req[p].name))
    BY <1>2 DEF Create
  <2> QED
    BY <2>1, <2>2, <1>1 DEF Stored
<1>3. CASE Fail(p)
  <2>1. PICK why \in Failures : Answer(p, Failed(why), store)
    BY <1>3 DEF Fail
  <2> QED
    BY <2>1, <1>1 DEF NotStored
<1>4. ~GetAll(p) /\ ~GetByID(p)
  BY DEF GetAll, GetByID
<1> QED
  BY <1>2, <1>3, <1>4 DEF Respond

\* The store stays a store, and only a row that is stored makes it longer.
LEMMA StoredTypes ==
  ASSUME NEW p \in Procs, StoreTypes, req[p].name \in Names, Stored(p) \/ NotStored
  PROVE  /\ store' \in Seq(Names) /\ live' \in BOOLEAN
         /\ live' => live /\ Rows(store) \subseteq Rows(store')
         /\ live' /\ Stored(p) => req[p].name \in Rows(store')
         /\ NotStored => ~(Len(store') > Len(store))
         /\ Stored(p) => Len(store') > Len(store) \/ closed
<1>1. store \in Seq(Names) /\ live \in BOOLEAN
  BY DEF StoreTypes
<1>2. /\ <<>> \in Seq(Names) /\ Len(store) \in Nat
      /\ ~(Len(<<>>) > Len(store)) /\ ~(Len(store) > Len(store))
  BY <1>1
<1>3. CASE Stored(p) /\ store' = Append(store, req[p].name) /\ live' = live
  <2>1. Len(store') > Len(store) /\ store' \in Seq(Names)
        /\ Rows(store') = Rows(store) \cup {req[p].name}
    BY <1>1, <1>3, RowsOfAppend
  <2>2. ~NotStored
    BY <1>2, <2>1 DEF NotStored
  <2>3. req[p].name \in Rows(store') /\ Rows(store) \subseteq Rows(store')
    BY <2>1
  <2> QED
    BY <1>1, <1>3, <2>1, <2>2, <2>3, Zenon
<1>4. CASE closed /\ store' = <<>> /\ live' = FALSE
  BY <1>2, <1>4, Zenon
<1>5. CASE ~Stored(p) /\ store' = store /\ live' = live
  BY <1>1, <1>2, <1>5, Zenon
<1>6. CASE Stored(p) /\ store' = store /\ live' = live /\ ~(closed /\ store' = <<>> /\ live' = FALSE)
  BY <1>3, <1>6 DEF Stored
<1> QED
  BY <1>3, <1>4, <1>5, <1>6 DEF Stored, NotStored

Events == [username : BOOLEAN, userId : BOOLEAN, error : BOOLEAN]

\* The wide event in the context stays a wide event.
LEMMA EventTypes ==
  ASSUME NEW p \in Procs, event \in [Procs -> Events],
         NEW f \in {"username", "userId", "error"}, AddToEvent(p, f)
  PROVE  event' \in [Procs -> Events]
<1>1. \A e \in Events : [e EXCEPT ![f] = TRUE] \in Events
  BY DEF Events
<1>2. CASE Injects(rpc[p])
  <2>1. event' = [event EXCEPT ![p] = [event[p] EXCEPT ![f] = TRUE]]
    BY <1>2 DEF AddToEvent
  <2> QED
    BY <2>1, <1>1
<1>3. CASE ~Injects(rpc[p])
  BY <1>3 DEF AddToEvent
<1> QED
  BY <1>2, <1>3

LEMMA EmptyEventType == EmptyEvent \in Events
BY DEF EmptyEvent, Events

\* An RPC that calls CreateUser carries a username and a password.
LEMMA CreateRpc ==
  ASSUME NEW r \in Rpcs \cup {NoRpc}, r.method = "CreateUser"
  PROVE  r \in CreateRpcs
<1>1. r # NoRpc /\ r # [method |-> "DeleteUser"]
  BY DEF NoRpc
<1> QED
  BY <1>1 DEF Rpcs, CreateRpcs

\* Nothing about the RPC of q changes.
SameFor(q) ==
  /\ at'[q] = at[q] /\ rpc'[q] = rpc[q] /\ runs'[q] = runs[q]
  /\ saved'[q] = saved[q] /\ code'[q] = code[q]
  /\ status'[q] = status[q] /\ req'[q] = req[q] /\ out'[q] = out[q]

LEMMA SameKeeps ==
  ASSUME NEW q \in Procs, PlaceInv(q), HonestInv(q), SameFor(q), closed => closed'
  PROVE  PlaceInv(q)' /\ HonestInv(q)' /\ (Claims(q)' <=> Claims(q))
<1>1. PlaceInv(q)'
  BY DEF PlaceInv, SameFor
<1>2. HonestInv(q)'
  BY Zenon DEF HonestInv, SameFor
<1>3. Claims(q)' <=> Claims(q)
  BY DEF Claims, SameFor
<1> QED
  BY <1>1, <1>2, <1>3

\* A step of p that claims nothing new.
LEMMA StepOfOne ==
  ASSUME IInv, NEW p \in Procs, RpcTypes', StoreTypes', PlaceInv(p)', HonestInv(p)',
         \A q \in Procs \ {p} : SameFor(q),
         closed => closed',
         live' => live /\ Rows(store) \subseteq Rows(store'),
         Claims(p)' => Claims(p) /\ rpc'[p] = rpc[p]
  PROVE  IInv'
<1>1. ASSUME NEW q \in Procs, q # p
      PROVE  PlaceInv(q)' /\ HonestInv(q)' /\ (Claims(q)' <=> Claims(q))
  <2>1. SameFor(q) /\ PlaceInv(q) /\ HonestInv(q)
    BY <1>1 DEF IInv
  <2> QED
    BY <2>1, SameKeeps
<1>2. \A q \in Procs : Claims(q)' => Claims(q) /\ rpc'[q] = rpc[q]
  BY <1>1 DEF SameFor
<1>3. OwnerInv'
  BY <1>2 DEF IInv, OwnerInv
<1> QED
  BY <1>1, <1>3 DEF IInv

LEMMA ReceiveKeeps ==
  ASSUME IInv, NEW p \in Procs, Receive(p)
  PROVE  IInv'
<1>1. RpcTypes /\ StoreTypes /\ PlaceInv(p) /\ HonestInv(p)
  BY DEF IInv
<1>2. RpcTypes'
  <2>1. event' \in [Procs -> Events]
    BY <1>1, EmptyEventType DEF RpcTypes, Receive, Events
  <2>2. at' \in [Procs -> {"idle", "handle", "calling", "handled"}]
    BY <1>1 DEF RpcTypes, Receive
  <2>3. rpc' \in [Procs -> Rpcs \cup {NoRpc}]
    BY <1>1 DEF RpcTypes, Receive
  <2>4. runs' \in [Procs -> 0..2]
    <3>1. 0 \in 0..2
      OBVIOUS
    <3> QED
      BY <1>1, <3>1, Zenon DEF RpcTypes, Receive
  <2>6. saved' \in [Procs -> BOOLEAN]
    BY <1>1 DEF RpcTypes, Receive
  <2>5. /\ code' \in [Procs -> {"none", "OK", "Canceled", "Unknown", "Unimplemented"}]
        /\ line' \in [Procs -> {"none", "User created", "Error creating user"}]
    BY <1>1 DEF RpcTypes, Receive
  <2> QED
    BY <2>1, <2>2, <2>3, <2>4, <2>5, <2>6 DEF RpcTypes, Events
<1>3. StoreTypes' /\ UNCHANGED storeVars
  BY <1>1 DEF StoreTypes, Receive, storeVars
<1>4. /\ at'[p] = "handle" /\ runs'[p] = 0 /\ ~saved'[p] /\ code'[p] = "none"
      /\ status'[p] = "idle"
  BY <1>1, <1>3 DEF RpcTypes, PlaceInv, Receive, storeVars
<1>5. PlaceInv(p)' /\ HonestInv(p)' /\ ~Claims(p)'
  BY <1>4 DEF PlaceInv, HonestInv, Claims
<1>6. \A q \in Procs \ {p} : SameFor(q)
  BY <1>1, <1>3 DEF RpcTypes, SameFor, Receive, storeVars
<1> QED
  BY <1>2, <1>3, <1>5, <1>6, StepOfOne DEF storeVars

LEMMA HandleCreateKeeps ==
  ASSUME IInv, NEW p \in Procs, HandleCreate(p)
  PROVE  IInv'
<1>1. RpcTypes /\ StoreTypes /\ PlaceInv(p) /\ HonestInv(p)
  BY DEF IInv
<1>2. at[p] = "handle" /\ rpc[p] \in CreateRpcs /\ runs[p] \in {0, 1} /\ ~saved[p]
  <2>1. at[p] = "handle" /\ rpc[p].method = "CreateUser"
    BY DEF HandleCreate
  <2>2. rpc[p] \in CreateRpcs
    BY <1>1, <2>1, CreateRpc DEF RpcTypes
  <2>3. ~saved[p]
    BY <1>1, <2>1, Zenon DEF HonestInv
  <2> QED
    BY <1>1, <2>1, <2>2, <2>3 DEF PlaceInv
<1> DEFINE r == [op |-> "create", name |-> rpc[p].name, valid |-> InputErr(rpc[p]) = {}]
<1>3. r.op = "create" /\ r.name = rpc[p].name /\ \E gone \in BOOLEAN : Call(p, r, gone)
  BY DEF HandleCreate
<1> HIDE DEF r
<1>4. /\ at' = [at EXCEPT ![p] = "calling"] /\ runs' = [runs EXCEPT ![p] = runs[p] + 1]
      /\ UNCHANGED <<rpc, saved, code, line>>
  BY DEF HandleCreate
<1>5. RpcTypes'
  <2>1. event' \in [Procs -> Events]
    BY <1>1, EventTypes DEF RpcTypes, HandleCreate, Events
  <2>2. at' \in [Procs -> {"idle", "handle", "calling", "handled"}]
    BY <1>1, <1>4 DEF RpcTypes
  <2>3. runs' \in [Procs -> 0..2]
    <3>1. runs[p] + 1 \in 0..2
      BY <1>2
    <3> QED
      BY <1>1, <1>2, <1>4, <3>1, Zenon DEF RpcTypes
  <2> QED
    BY <1>1, <1>4, <2>1, <2>2, <2>3 DEF RpcTypes, Events
<1>6. StoreTypes'
  BY <1>1, <1>3, OutcomesDiffer DEF StoreTypes, Call
<1>7. /\ at'[p] = "calling" /\ runs'[p] = runs[p] + 1
      /\ status'[p] = "called" /\ out'[p] = NoOut
      /\ req'[p].op = "create" /\ req'[p].name = rpc[p].name
  BY <1>1, <1>3, <1>4 DEF RpcTypes, StoreTypes, Call
<1>8. PlaceInv(p)'
  BY <1>2, <1>4, <1>7 DEF PlaceInv
<1>9. HonestInv(p)' /\ (Claims(p)' => Claims(p) /\ rpc'[p] = rpc[p])
  BY <1>2, <1>4, <1>7 DEF HonestInv, Claims
<1>10. \A q \in Procs \ {p} : SameFor(q)
  BY <1>1, <1>3, <1>4, ZenonT(40) DEF RpcTypes, StoreTypes, SameFor, Call
<1> QED
  BY <1>3, <1>5, <1>6, <1>8, <1>9, <1>10, StepOfOne DEF Call

LEMMA HandleDeleteKeeps ==
  ASSUME IInv, NEW p \in Procs, HandleDelete(p)
  PROVE  IInv'
<1>1. RpcTypes /\ StoreTypes /\ PlaceInv(p) /\ HonestInv(p)
  BY DEF IInv
<1>2. RpcTypes'
  <2>1. runs[p] \in {0, 1}
    BY <1>1 DEF HandleDelete, PlaceInv
  <2>2. at' \in [Procs -> {"idle", "handle", "calling", "handled"}]
    BY <1>1 DEF RpcTypes, HandleDelete
  <2>3. runs' \in [Procs -> 0..2]
    <3>1. runs[p] + 1 \in 0..2
      BY <2>1
    <3> QED
      BY <1>1, <2>1, <3>1, Zenon DEF RpcTypes, HandleDelete
  <2>4. code' \in [Procs -> {"none", "OK", "Canceled", "Unknown", "Unimplemented"}]
    BY <1>1 DEF RpcTypes, HandleDelete
  <2> QED
    BY <1>1, <2>2, <2>3, <2>4 DEF RpcTypes, HandleDelete
<1>3. StoreTypes' /\ UNCHANGED storeVars
  BY <1>1 DEF StoreTypes, HandleDelete, storeVars
<1>4. /\ at'[p] = "handled" /\ rpc' = rpc /\ rpc[p].method = "DeleteUser"
      /\ code'[p] = "Unimplemented" /\ status'[p] = "idle"
  BY <1>1, <1>3 DEF RpcTypes, PlaceInv, HandleDelete, storeVars
<1>5. PlaceInv(p)' /\ HonestInv(p)' /\ ~Claims(p)'
  BY <1>4 DEF PlaceInv, HonestInv, Claims
<1>6. \A q \in Procs \ {p} : SameFor(q)
  BY <1>1, <1>3 DEF RpcTypes, SameFor, HandleDelete, storeVars
<1> QED
  BY <1>2, <1>3, <1>5, <1>6, StepOfOne DEF storeVars

LEMMA AgainKeeps ==
  ASSUME IInv, NEW p \in Procs, Again(p)
  PROVE  IInv'
<1>1. RpcTypes /\ StoreTypes /\ PlaceInv(p) /\ HonestInv(p)
  BY DEF IInv
<1>2. RpcTypes'
  BY <1>1 DEF RpcTypes, Again
<1>3. StoreTypes' /\ UNCHANGED storeVars
  BY <1>1 DEF StoreTypes, Again, storeVars
<1>4. /\ at[p] = "handled" /\ at'[p] = "handle" /\ UNCHANGED <<rpc, runs, saved, code>>
      /\ runs[p] = 1 /\ rpc[p].method # "CreateUser" /\ status'[p] = "idle"
  BY <1>1, <1>3 DEF RpcTypes, PlaceInv, Again, Injects, storeVars
<1>5. PlaceInv(p)' /\ HonestInv(p)' /\ (Claims(p)' => Claims(p) /\ rpc'[p] = rpc[p])
  BY <1>4 DEF PlaceInv, HonestInv, Claims
<1>6. \A q \in Procs \ {p} : SameFor(q)
  BY <1>1, <1>3 DEF RpcTypes, SameFor, Again, storeVars
<1> QED
  BY <1>2, <1>3, <1>5, <1>6, StepOfOne DEF storeVars

LEMMA AnswerKeeps ==
  ASSUME IInv, NEW p \in Procs, AnswerUnlogged(p) \/ AnswerLogged(p)
  PROVE  IInv'
<1>1. RpcTypes /\ StoreTypes /\ PlaceInv(p) /\ HonestInv(p)
  BY DEF IInv
<1>2. /\ at[p] = "handled" /\ at' = [at EXCEPT ![p] = "idle"]
      /\ UNCHANGED <<rpc, event, runs, saved, code>> /\ UNCHANGED storeVars
  BY DEF AnswerUnlogged, AnswerLogged
<1>3. RpcTypes'
  BY <1>1, <1>2 DEF RpcTypes, AnswerUnlogged, AnswerLogged
<1>4. StoreTypes'
  BY <1>1, <1>2 DEF StoreTypes, storeVars
<1>5. at'[p] = "idle" /\ status'[p] = "idle"
  BY <1>1, <1>2 DEF RpcTypes, PlaceInv, storeVars
<1>6. PlaceInv(p)'
  BY <1>5 DEF PlaceInv
<1>7. HonestInv(p)' /\ (Claims(p)' => Claims(p) /\ rpc'[p] = rpc[p])
  BY <1>1, <1>2, <1>5 DEF HonestInv, Claims, storeVars
<1>8. \A q \in Procs \ {p} : SameFor(q)
  BY <1>1, <1>2 DEF RpcTypes, SameFor, storeVars
<1> QED
  BY <1>2, <1>3, <1>4, <1>6, <1>7, <1>8, StepOfOne DEF storeVars

\* A step that leaves the RPCs alone, and the rows too or loses them all.
LEMMA StoreStepKeeps ==
  ASSUME IInv, UNCHANGED <<grpcVars, status, req, out>>, StoreTypes', closed => closed',
         live' => live /\ store' = store
  PROVE  IInv'
<1>1. RpcTypes'
  BY DEF IInv, RpcTypes, grpcVars
<1>2. \A q \in Procs : SameFor(q)
  BY DEF SameFor, grpcVars
<1>3. \A q \in Procs : PlaceInv(q)' /\ HonestInv(q)' /\ (Claims(q)' <=> Claims(q))
  BY <1>2, SameKeeps DEF IInv
<1>4. OwnerInv'
  BY <1>2, <1>3 DEF IInv, OwnerInv, SameFor
<1> QED
  BY <1>1, <1>3, <1>4 DEF IInv

LEMMA HangUpKeeps ==
  ASSUME IInv, NEW p \in Procs, HangUp(p)
  PROVE  IInv'
<1>1. StoreTypes'
  BY DEF IInv, StoreTypes, HangUp, Cancel
<1> QED
  BY <1>1, StoreStepKeeps DEF HangUp, Cancel

LEMMA RunEndsKeeps ==
  ASSUME IInv, RunEnds
  PROVE  IInv'
<1>1. store' \in Seq(Names) /\ live' \in BOOLEAN /\ (live' => live /\ store' = store)
  <2>1. store \in Seq(Names) /\ live \in BOOLEAN /\ <<>> \in Seq(Names)
    BY DEF IInv, StoreTypes
  <2>2. CASE store' = store /\ live' = live
    BY <2>1, <2>2, Zenon
  <2>3. CASE store' = <<>> /\ live' = FALSE
    BY <2>1, <2>3, Zenon
  <2> QED
    BY <2>2, <2>3 DEF RunEnds, Close
<1>2. StoreTypes'
  BY <1>1 DEF IInv, StoreTypes, RunEnds, Close
<1> QED
  BY <1>1, <1>2, StoreStepKeeps DEF RunEnds, Close

\* The rest of Server.CreateUser only turns what the store said into a code.
LEMMA HandledKeeps ==
  ASSUME IInv, NEW p \in Procs, Handled(p)
  PROVE  IInv'
<1>1. RpcTypes /\ StoreTypes /\ PlaceInv(p) /\ HonestInv(p)
  BY DEF IInv
<1>2. /\ at[p] = "calling" /\ status[p] = "idle" /\ UNCHANGED storeVars
      /\ at' = [at EXCEPT ![p] = "handled"] /\ code' = [code EXCEPT ![p] = CodeOf(out[p])]
      /\ UNCHANGED <<rpc, runs, saved, line>>
  BY DEF Handled
<1>3. /\ CodeOf(out[p]) \in {"OK", "Canceled", "Unknown"}
      /\ CodeOf(out[p]) = "OK" <=> out[p] = Created
      /\ CodeOf(out[p]) = "Unknown" => out[p] \notin {Created, Failed("cancelled")}
  BY OutcomesDiffer DEF CodeOf
<1>4. RpcTypes'
  <2>1. event' \in [Procs -> Events]
    <3>1. (IF out[p] = Created THEN "userId" ELSE "error") \in {"username", "userId", "error"}
      OBVIOUS
    <3>2. AddToEvent(p, IF out[p] = Created THEN "userId" ELSE "error")
      BY DEF Handled
    <3>3. event \in [Procs -> Events]
      BY <1>1 DEF RpcTypes, Events
    <3> QED
      BY <3>1, <3>2, <3>3, EventTypes
  <2>2. at' \in [Procs -> {"idle", "handle", "calling", "handled"}]
    BY <1>1, <1>2 DEF RpcTypes
  <2>3. code' \in [Procs -> {"none", "OK", "Canceled", "Unknown", "Unimplemented"}]
    BY <1>1, <1>2, <1>3 DEF RpcTypes
  <2> QED
    BY <1>1, <1>2, <2>1, <2>2, <2>3 DEF RpcTypes, Events
<1>5. StoreTypes'
  BY <1>1, <1>2 DEF StoreTypes, storeVars
<1>6. at'[p] = "handled" /\ code'[p] = CodeOf(out[p]) /\ status'[p] = "idle"
  BY <1>1, <1>2 DEF RpcTypes, storeVars
<1>7. PlaceInv(p)'
  BY <1>1, <1>2, <1>6 DEF PlaceInv
<1>8. /\ out[p] = Created => saved[p] \/ closed
      /\ out[p] \notin {Created, Failed("cancelled")} => ~saved[p]
  BY <1>1, <1>2, Zenon DEF HonestInv
<1>9. HonestInv(p)'
  <2>1. /\ code'[p] = "Unknown" => ~saved'[p]
        /\ code'[p] = "OK" => saved'[p] \/ closed'
    BY <1>2, <1>3, <1>6, <1>8 DEF storeVars
  <2> QED
    BY <1>6, <2>1 DEF HonestInv
<1>10. Claims(p)' => Claims(p) /\ rpc'[p] = rpc[p]
  BY <1>2, <1>3, <1>6 DEF Claims
<1>11. \A q \in Procs \ {p} : SameFor(q)
  BY <1>1, <1>2 DEF RpcTypes, SameFor, storeVars
<1> QED
  BY <1>2, <1>4, <1>5, <1>7, <1>9, <1>10, <1>11, StepOfOne DEF storeVars

\* The repository gets a connection for the call.
LEMMA StartKeeps ==
  ASSUME IInv, NEW p \in Procs, Repository(p), Start(p)
  PROVE  IInv'
<1>1. RpcTypes /\ StoreTypes /\ PlaceInv(p) /\ HonestInv(p)
  BY DEF IInv
<1>2. /\ at[p] = "calling" /\ UNCHANGED <<at, rpc, event, runs, code, line>>
      /\ saved' = [saved EXCEPT ![p] = saved[p] \/ Len(store') > Len(store)]
  BY DEF Repository
<1>3. /\ status[p] = "called" /\ status' = [status EXCEPT ![p] = "begun"]
      /\ UNCHANGED <<store, live, closed, req, ctx, out>>
  BY DEF Start
<1>4. saved' = saved
  <2>1. ~(Len(store') > Len(store))
    BY <1>1, <1>3 DEF StoreTypes
  <2>2. saved \in [Procs -> BOOLEAN]
    BY <1>1 DEF RpcTypes
  <2> QED
    BY <1>2, <2>1, <2>2, Zenon
<1>5. RpcTypes'
  BY <1>1, <1>2, <1>4 DEF RpcTypes
<1>6. StoreTypes'
  BY <1>1, <1>3 DEF StoreTypes
<1>7. status'[p] = "begun"
  BY <1>1, <1>3 DEF StoreTypes
<1>8. PlaceInv(p)'
  BY <1>1, <1>2, <1>3, <1>7 DEF PlaceInv
<1>9. ~saved[p]
  BY <1>1, <1>2, <1>3 DEF HonestInv
<1>10. HonestInv(p)' /\ (Claims(p)' => Claims(p) /\ rpc'[p] = rpc[p])
  BY <1>2, <1>4, <1>7, <1>9 DEF HonestInv, Claims
<1>11. \A q \in Procs \ {p} : SameFor(q)
  BY <1>1, <1>2, <1>3, <1>4 DEF StoreTypes, SameFor
<1> QED
  BY <1>3, <1>5, <1>6, <1>8, <1>10, <1>11, StepOfOne

\* The only step that makes a new claim: the row of p was not there, and is now,
\* unless the table went with it.
LEMMA RespondKeeps ==
  ASSUME IInv, NEW p \in Procs, Repository(p), Respond(p)
  PROVE  IInv'
<1>1. RpcTypes /\ StoreTypes /\ PlaceInv(p) /\ HonestInv(p) /\ OwnerInv
  BY DEF IInv
<1>2. /\ at[p] = "calling" /\ UNCHANGED <<at, rpc, event, runs, code, line>>
      /\ saved' = [saved EXCEPT ![p] = saved[p] \/ Len(store') > Len(store)]
  BY DEF Repository
<1>3. rpc[p] \in CreateRpcs /\ req[p].op = "create" /\ req[p].name = rpc[p].name
      /\ req[p].name \in Names
  BY <1>1, <1>2 DEF PlaceInv, CreateRpcs
<1>4. /\ status[p] \in {"called", "begun"}
      /\ status' = [status EXCEPT ![p] = "idle"]
      /\ ctx' = [ctx EXCEPT ![p] = FALSE]
      /\ UNCHANGED <<closed, req>>
  BY <1>1, <1>2, <1>3, RespondFacts
<1>5. PICK o \in CallOutcomes :
        /\ out' = [out EXCEPT ![p] = o]
        /\ \/ o \in {Created, Failed("cancelled")} /\ Stored(p)
           \/ o # Created /\ NotStored
  BY <1>1, <1>2, <1>3, RespondFacts, OutcomesDiffer
<1>6. /\ store' \in Seq(Names) /\ live' \in BOOLEAN
      /\ live' => live /\ Rows(store) \subseteq Rows(store')
      /\ live' /\ Stored(p) => req[p].name \in Rows(store')
      /\ NotStored => ~(Len(store') > Len(store))
      /\ Stored(p) => Len(store') > Len(store) \/ closed
  BY <1>1, <1>3, <1>5, StoredTypes
<1>7. saved' \in [Procs -> BOOLEAN] /\ (saved'[p] <=> saved[p] \/ Len(store') > Len(store))
  BY <1>1, <1>2, Zenon DEF RpcTypes
<1>8. RpcTypes'
  BY <1>1, <1>2, <1>7 DEF RpcTypes
<1>9. StoreTypes'
  BY <1>1, <1>4, <1>5, <1>6 DEF StoreTypes
<1>10. at'[p] = "calling" /\ status'[p] = "idle" /\ out'[p] = o /\ rpc' = rpc
  BY <1>1, <1>2, <1>4, <1>5 DEF StoreTypes
<1>11. PlaceInv(p)'
  BY <1>1, <1>2, <1>4, <1>10 DEF PlaceInv
<1>12. ~saved[p]
  BY <1>1, <1>2, <1>4, Zenon DEF HonestInv
<1>13. o = Created => saved'[p] \/ closed'
  BY <1>4, <1>5, <1>6, <1>7
<1>14. o \notin {Created, Failed("cancelled")} => ~saved'[p]
  BY <1>5, <1>6, <1>7, <1>12
<1>15. HonestInv(p)'
  BY <1>10, <1>13, <1>14 DEF HonestInv
<1>16. \A q \in Procs \ {p} : at'[q] = at[q] /\ rpc'[q] = rpc[q] /\ runs'[q] = runs[q]
         /\ saved'[q] = saved[q] /\ code'[q] = code[q]
         /\ status'[q] = status[q] /\ req'[q] = req[q] /\ out'[q] = out[q]
  BY <1>1, <1>2, <1>4, <1>5 DEF RpcTypes, StoreTypes
<1>17. \A q \in Procs \ {p} : SameFor(q)
  BY <1>16 DEF SameFor
<1>18. CASE Claims(p)' => Claims(p)
  BY <1>4, <1>6, <1>8, <1>9, <1>10, <1>11, <1>15, <1>17, <1>18, StepOfOne
<1>19. CASE Claims(p)' /\ ~Claims(p)
  <2>1. o = Created /\ Stored(p) /\ live /\ rpc[p].name \notin Rows(store)
    BY <1>2, <1>3, <1>5, <1>10, <1>19 DEF Claims, Stored
  <2>2. rpc[p].name \notin Rows(Seed)
    BY <1>1, <2>1 DEF OwnerInv
  <2>3. \A q \in Procs \ {p} : PlaceInv(q)' /\ HonestInv(q)' /\ (Claims(q)' <=> Claims(q))
    BY <1>4, <1>17, SameKeeps DEF IInv
  <2>4. \A q \in Procs \ {p} : Claims(q) => rpc[q].name # rpc[p].name
    BY <1>1, <2>1 DEF OwnerInv
  <2>5. OwnerInv'
    BY <1>1, <1>3, <1>6, <1>10, <2>1, <2>2, <2>3, <2>4 DEF OwnerInv
  <2> QED
    BY <1>8, <1>9, <1>11, <1>15, <2>3, <2>5 DEF IInv
<1> QED
  BY <1>18, <1>19

LEMMA InitInv == Init => IInv
<1> SUFFICES ASSUME Init
             PROVE  IInv
  OBVIOUS
<1>1. RpcTypes
  <2>1. event \in [Procs -> Events]
    BY EmptyEventType DEF Init
  <2>2. runs \in [Procs -> 0..2]
    <3>1. 0 \in 0..2
      OBVIOUS
    <3> QED
      BY <3>1, Zenon DEF Init
  <2> QED
    BY <2>1, <2>2 DEF Init, RpcTypes, Events
<1>2. StoreTypes
  BY SeedAssumption, OutcomesDiffer DEF Init, StoreInit, StoreTypes
<1>3. ASSUME NEW p \in Procs
      PROVE  PlaceInv(p) /\ HonestInv(p) /\ ~Claims(p)
  <2>1. at[p] = "idle" /\ status[p] = "idle" /\ code[p] = "none"
    BY DEF Init, StoreInit
  <2> QED
    BY <2>1 DEF PlaceInv, HonestInv, Claims
<1>4. OwnerInv
  BY <1>3 DEF OwnerInv, Init, StoreInit
<1> QED
  BY <1>1, <1>2, <1>3, <1>4 DEF IInv

LEMMA NextKeeps == IInv /\ [Next]_vars => IInv'
<1> SUFFICES ASSUME IInv, [Next]_vars
             PROVE  IInv'
  OBVIOUS
<1>1. CASE Running /\ RunEnds
  BY <1>1, RunEndsKeeps
<1>2. ASSUME NEW p \in Procs, Running /\ (Receive(p) \/ HangUp(p))
      PROVE  IInv'
  BY <1>2, ReceiveKeeps, HangUpKeeps
<1>3. ASSUME NEW p \in Procs, Serve(p)
      PROVE  IInv'
  <2>1. Repository(p) => Start(p) \/ Respond(p)
    BY DEF Repository
  <2> QED
    BY <1>3, <2>1, HandleCreateKeeps, HandleDeleteKeeps, StartKeeps, RespondKeeps,
       HandledKeeps, AgainKeeps, AnswerKeeps DEF Serve
<1>4. CASE Exit \/ UNCHANGED vars
  <2>1. UNCHANGED <<grpcVars, status, req, out>> /\ UNCHANGED storeVars
    BY <1>4 DEF Exit, vars, storeVars
  <2>2. StoreTypes'
    BY <2>1 DEF IInv, StoreTypes, storeVars
  <2> QED
    BY <2>1, <2>2, StoreStepKeeps DEF storeVars
<1> QED
  BY <1>1, <1>2, <1>3, <1>4 DEF Next

\* The inductive invariant holds for any number of RPCs at a time.
THEOREM GrpcInvariant == Spec => []IInv
<1> QED
  BY InitInv, NextKeeps, PTL DEF Spec

\* Type correctness of GrpcUsers; in particular no handler runs a third time.
THEOREM GrpcTypes == Spec => []TypeOK
<1>1. Init => exited \in BOOLEAN
  BY DEF Init
<1>2. exited \in BOOLEAN /\ [Next]_vars => (exited \in BOOLEAN)'
  BY DEF Next, Exit, Running, Serve, vars
<1>3. IInv /\ exited \in BOOLEAN => TypeOK
  BY DEF IInv, TypeOK
<1> QED
  BY <1>1, <1>2, <1>3, GrpcInvariant, PTL DEF Spec

\* An RPC that is answered with an error saved nobody, and one answered OK saved its
\* user, although the interceptor may run a handler twice.
THEOREM AnswersAreHonest == Spec => []HonestAnswer
<1>1. IInv => HonestAnswer
  BY Zenon DEF IInv, HonestInv, HonestAnswer
<1> QED
  BY <1>1, GrpcInvariant, PTL

\* No two RPCs are told that they created the same user, nor a seeded one.
THEOREM NamesHaveOneOwner == Spec => []OneOwnerPerName
<1>1. IInv => OneOwnerPerName
  BY DEF IInv, OwnerInv, Claims, OneOwnerPerName
<1> QED
  BY <1>1, GrpcInvariant, PTL

\* No RPC passes the checks of its input and fails at the hash of its password.
THEOREM HashNeverFails == Spec => []HashingNeverFails
<1>1. IInv => HashingNeverFails
  <2> SUFFICES ASSUME IInv, NEW p \in Procs, at[p] = "calling"
               PROVE  InputErr(rpc[p]) \cap HashErr(TextOf[rpc[p].password]) = {}
    BY DEF HashingNeverFails
  <2> DEFINE u == TextOf[rpc[p].name]
             w == TextOf[rpc[p].password]
  <2>1. rpc[p] \in CreateRpcs
    BY DEF IInv, PlaceInv
  <2>2. IsText(w)
    BY <2>1, TextOfAssumption DEF CreateRpcs
  <2>3. InputErr(rpc[p]) = NewNewUserErr(u, w)
    BY DEF InputErr
  <2> HIDE DEF u, w
  <2>4. CASE PasswordErr(w) = {}
    BY <2>2, <2>4, AcceptedPasswordIsHashed DEF w
  <2>5. CASE PasswordErr(w) # {}
    <3>1. NewNewUserErr(u, w) = UsernameErr(u) \cup PasswordErr(w)
      BY <2>5 DEF NewNewUserErr
    <3>2. "ErrPasswordTooLong of bcrypt" \notin UsernameErr(u) \cup PasswordErr(w)
      BY DEF UsernameErr, PasswordErr
    <3>3. HashErr(w) \subseteq {"ErrPasswordTooLong of bcrypt"}
      BY DEF HashErr
    <3> QED
      BY <2>3, <3>1, <3>2, <3>3 DEF w
  <2> QED
    BY <2>4, <2>5
<1> QED
  BY <1>1, GrpcInvariant, PTL

\* The gRPC server uses the repository as its interface allows: what it does to
\* the store is what UserStore describes.  So the theorems above hold over every
\* repository that implements UserStore.
THEOREM GrpcUsesStore == Spec => StoreSpec
<1>1. Init => StoreInit
  BY DEF Init
<1>2. IInv /\ [Next]_vars => [StoreNext]_storeVars
  <2> SUFFICES ASSUME IInv, [Next]_vars PROVE StoreNext \/ UNCHANGED storeVars
    OBVIOUS
  <2>1. CASE Exit \/ UNCHANGED vars
    BY <2>1 DEF Exit, vars
  <2>2. CASE RunEnds
    BY <2>2 DEF RunEnds, StoreNext
  <2>3. ASSUME NEW p \in Procs, Receive(p) \/ HangUp(p)
        PROVE  StoreNext \/ UNCHANGED storeVars
    BY <2>3 DEF Receive, HangUp, StoreNext
  <2>4. ASSUME NEW p \in Procs, HandleCreate(p) PROVE StoreNext
    <3> DEFINE r == [op |-> "create", name |-> rpc[p].name, valid |-> InputErr(rpc[p]) = {}]
    <3>1. PICK gone \in BOOLEAN : Call(p, r, gone)
      BY <2>4 DEF HandleCreate
    <3>2. rpc[p] \in CreateRpcs
      BY <2>4, CreateRpc DEF HandleCreate, IInv, RpcTypes
    <3>3. r \in Requests
      BY <3>2 DEF CreateRpcs, Requests, Creates
    <3> QED
      BY <3>1, <3>3 DEF StoreNext
  <2>5. ASSUME NEW p \in Procs, Repository(p) PROVE StoreNext
    BY <2>5 DEF Repository, StoreNext
  <2>6. ASSUME NEW p \in Procs, \/ HandleDelete(p) \/ Handled(p) \/ Again(p)
                                \/ AnswerUnlogged(p) \/ AnswerLogged(p)
        PROVE  UNCHANGED storeVars
    BY <2>6 DEF HandleDelete, Handled, Again, AnswerUnlogged, AnswerLogged
  <2> QED
    BY <2>1, <2>2, <2>3, <2>4, <2>5, <2>6 DEF Next, Serve
<1> QED
  BY <1>1, <1>2, GrpcInvariant, PTL DEF Spec, StoreSpec
=============================================================================
