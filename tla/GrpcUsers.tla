------------------------------ MODULE GrpcUsers ------------------------------
(***************************************************************************)
(* The gRPC server: the unary interceptor AddCreateUserWideEvent           *)
(* (internal/config/logging/wideevents.go), the handlers of                *)
(* internal/infrastructure/api/grpc/server.go, the service CreateUser and, *)
(* under it, the repository as UserStore describes it.  Every goroutine of *)
(* Procs serves one RPC after another; they share the store only.          *)
(*                                                                         *)
(* The interceptor keeps two wide events apart, as the code does: the one  *)
(* it allocates itself (line 66) and the one injectWideEventFn puts into   *)
(* the context (main.go lines 135-142), which the handlers write to.       *)
(***************************************************************************)
EXTENDS UserStore, UserInput

CONSTANTS
    Passwords,  \* passwords clients send
    TextOf      \* of each username and password, the text it is

ASSUME SeedAssumption == Seed \in Seq(Names)
ASSUME TextOfAssumption == \A x \in Names \cup Passwords : IsText(TextOf[x])

VARIABLES
    at,         \* where the RPC of p is
    rpc,        \* the RPC p serves
    event,      \* the wide event in its context
    runs,       \* how often the handler ran for it
    saved,      \* whether a row was committed on its behalf
    code,       \* the status code it is answered with
    line,       \* the wide event line it logged
    exited      \* main has returned: the process is gone

grpcVars == <<at, rpc, event, runs, saved, code, line>>
vars == <<storeVars, grpcVars, exited>>

Rpcs == [method : {"CreateUser"}, name : Names, password : Passwords]
            \cup {[method |-> "DeleteUser"]}

NoRpc == [method |-> "none"]

\* createUserLogEvent: which of its fields are set.
EmptyEvent == [username |-> FALSE, userId |-> FALSE, error |-> FALSE]

Init ==
    /\ StoreInit
    /\ at = [p \in Procs |-> "idle"]
    /\ rpc = [p \in Procs |-> NoRpc]
    /\ event = [p \in Procs |-> EmptyEvent]
    /\ runs = [p \in Procs |-> 0]
    /\ saved = [p \in Procs |-> FALSE]
    /\ code = [p \in Procs |-> "none"]
    /\ line = [p \in Procs |-> "none"]
    /\ exited = FALSE

\* A faulty Injects: no RPC gets an event, so every handler runs twice.
InjectsNever(r) == FALSE

\* injectWideEventFn: whether it put an event into the context.
Injects(r) == r.method = "CreateUser"

\* AddUsername, AddUserID, AddError: without an event in the context, nothing.
AddToEvent(p, field) ==
    event' = IF Injects(rpc[p]) THEN [event EXCEPT ![p][field] = TRUE] ELSE event

\* The interceptor's own event; nothing ever writes to it.
OwnEvent == EmptyEvent
IsSuccessful(e) == ~e.error

\* An RPC arrives and the interceptor runs injectWideEventFn.
Receive(p) ==
    /\ at[p] = "idle"
    /\ at' = [at EXCEPT ![p] = "handle"]
    /\ \E r \in Rpcs : rpc' = [rpc EXCEPT ![p] = r]
    /\ event' = [event EXCEPT ![p] = EmptyEvent]
    /\ runs' = [runs EXCEPT ![p] = 0]
    /\ saved' = [saved EXCEPT ![p] = FALSE]
    /\ code' = [code EXCEPT ![p] = "none"]
    /\ line' = [line EXCEPT ![p] = "none"]
    /\ UNCHANGED storeVars

\* What newNewUser says of the username and the password of an RPC.
InputErr(r) == NewNewUserErr(TextOf[r.name], TextOf[r.password])

\* Server.CreateUser up to its call of the service, which calls the repository;
\* the client may have hung up already (gone).
HandleCreate(p) ==
    /\ at[p] = "handle" /\ rpc[p].method = "CreateUser"
    /\ AddToEvent(p, "username")
    /\ \E gone \in BOOLEAN :
        Call(p, [op |-> "create", name |-> rpc[p].name, valid |-> InputErr(rpc[p]) = {}], gone)
    /\ at' = [at EXCEPT ![p] = "calling"]
    /\ runs' = [runs EXCEPT ![p] = @ + 1]
    /\ UNCHANGED <<rpc, saved, code, line>>

\* Server.DeleteUser is not implemented.
HandleDelete(p) ==
    /\ at[p] = "handle" /\ rpc[p].method = "DeleteUser"
    /\ code' = [code EXCEPT ![p] = "Unimplemented"]
    /\ at' = [at EXCEPT ![p] = "handled"]
    /\ runs' = [runs EXCEPT ![p] = @ + 1]
    /\ UNCHANGED <<storeVars, rpc, event, saved, line>>

\* The repository works on the call; saved remembers that it stored the row.
Repository(p) ==
    /\ at[p] = "calling"
    /\ Start(p) \/ Respond(p)
    /\ saved' = [saved EXCEPT ![p] = @ \/ Len(store') > Len(store)]
    /\ UNCHANGED <<at, rpc, event, runs, code, line>>

\* The code grpc gives an error that carries none: of the context, or Unknown.
CodeOf(o) ==
    IF o = Created THEN "OK"
    ELSE IF o = Failed("cancelled") THEN "Canceled" ELSE "Unknown"

\* A faulty Handled: the service tries again while the table is locked.
HandledRetries(p) ==
    /\ at[p] = "calling" /\ status[p] = "idle"
    /\ IF out[p] = Failed("locked")
       THEN Call(p, req[p], FALSE) /\ UNCHANGED <<event, code, at>>
       ELSE /\ AddToEvent(p, IF out[p] = Created THEN "userId" ELSE "error")
            /\ code' = [code EXCEPT ![p] = CodeOf(out[p])]
            /\ at' = [at EXCEPT ![p] = "handled"]
            /\ UNCHANGED storeVars
    /\ UNCHANGED <<rpc, runs, saved, line>>

\* The rest of Server.CreateUser: AddError, or AddUserID and the response.
Handled(p) ==
    /\ at[p] = "calling" /\ status[p] = "idle"
    /\ AddToEvent(p, IF out[p] = Created THEN "userId" ELSE "error")
    /\ code' = [code EXCEPT ![p] = CodeOf(out[p])]
    /\ at' = [at EXCEPT ![p] = "handled"]
    /\ UNCHANGED <<storeVars, rpc, runs, saved, line>>

\* A faulty Again: the handler runs a third time.
AgainUnbounded(p) ==
    /\ at[p] = "handled" /\ ~Injects(rpc[p])
    /\ at' = [at EXCEPT ![p] = "handle"]
    /\ UNCHANGED <<storeVars, rpc, event, runs, saved, code, line>>

\* Without an injected event the interceptor calls the handler once more and
\* answers what that returns.
Again(p) ==
    /\ at[p] = "handled" /\ ~Injects(rpc[p]) /\ runs[p] = 1
    /\ at' = [at EXCEPT ![p] = "handle"]
    /\ UNCHANGED <<storeVars, rpc, event, runs, saved, code, line>>

AnswerUnlogged(p) ==
    /\ at[p] = "handled" /\ ~Injects(rpc[p]) /\ runs[p] = 2
    /\ at' = [at EXCEPT ![p] = "idle"]
    /\ UNCHANGED <<storeVars, rpc, event, runs, saved, code, line>>

\* With one it logs its own event and answers what the handler returned.
AnswerLogged(p) ==
    /\ at[p] = "handled" /\ Injects(rpc[p])
    /\ line' = [line EXCEPT ![p] =
           IF IsSuccessful(OwnEvent) THEN "User created" ELSE "Error creating user"]
    /\ at' = [at EXCEPT ![p] = "idle"]
    /\ UNCHANGED <<storeVars, rpc, event, runs, saved, code>>

\* The client's deadline passes, or it hangs up, while the repository works.
HangUp(p) == Cancel(p) /\ UNCHANGED grpcVars

\* run returns: its deferred call closes the pool under the RPCs in progress ...
RunEnds == Close /\ UNCHANGED grpcVars

\* ... and main returns, whatever is in progress: nobody waits for it.
Exit ==
    /\ closed /\ ~exited
    /\ exited' = TRUE
    /\ UNCHANGED <<storeVars, grpcVars>>

Running == ~exited /\ UNCHANGED exited

Serve(p) ==
    /\ Running
    /\ \/ HandleCreate(p) \/ HandleDelete(p) \/ Repository(p) \/ Handled(p)
       \/ Again(p) \/ AnswerUnlogged(p) \/ AnswerLogged(p)

Next ==
    \/ Exit
    \/ Running /\ RunEnds
    \/ \E p \in Procs : Serve(p) \/ (Running /\ (Receive(p) \/ HangUp(p)))

\* grpc-go serves every RPC on a goroutine of its own, which the scheduler runs
\* while the process is there.
Spec == Init /\ [][Next]_vars /\ \A p \in Procs : WF_vars(Serve(p))

(***************************************************************************)
(* Correctness.                                                            *)
(***************************************************************************)
\* The types of the variables of this module.
RpcTypes ==
    /\ at \in [Procs -> {"idle", "handle", "calling", "handled"}]
    /\ rpc \in [Procs -> Rpcs \cup {NoRpc}]
    /\ event \in [Procs -> [username : BOOLEAN, userId : BOOLEAN, error : BOOLEAN]]
    /\ runs \in [Procs -> 0..2]
    /\ saved \in [Procs -> BOOLEAN]
    /\ code \in [Procs -> {"none", "OK", "Canceled", "Unknown", "Unimplemented"}]
    /\ line \in [Procs -> {"none", "User created", "Error creating user"}]

TypeOK == RpcTypes /\ exited \in BOOLEAN

\* An RPC that is answered with an error saved nobody, and one answered OK saved
\* its user: the interceptor, which may call the handler twice, never turns a
\* user it saved into a duplicate.  A cancelled RPC may have saved its user, and
\* a closed pool may have dropped the row together with the database.
HonestAnswer ==
    \A p \in Procs : at[p] = "idle" /\ rpc[p].method = "CreateUser" =>
        /\ code[p] = "Unknown" => ~saved[p]
        /\ code[p] = "OK" => saved[p] \/ closed

\* No two RPCs in progress or just answered were both told that they created
\* the same user, nor one of the seeded ones.
OneOwnerPerName ==
    \A p, q \in Procs : code[p] = "OK" =>
        /\ rpc[p].name \notin Rows(Seed)
        /\ p # q /\ code[q] = "OK" => rpc[p].name # rpc[q].name

\* Every RPC is answered, those without a wide event too, unless the process exits
\* first: it exits under the RPCs in progress, and then they never are.
EveryRpcAnswered == \A p \in Procs : at[p] # "idle" ~> (at[p] = "idle" \/ exited)

\* wideevents.go lines 55-56 and 81-87: the interceptor injects the event and
\* logs "Error creating user" for an RPC whose handler put an error into it.
WideEventTellsOutcome ==
    \A p \in Procs : at[p] = "idle" /\ line[p] # "none" =>
        (line[p] = "Error creating user" <=> event[p].error)

\* model.go lines 64-95: a password that its check accepts is one that bcrypt can
\* hash; no RPC gets past the check only to fail at the hash.
HashingNeverFails ==
    \A p \in Procs : at[p] = "calling" =>
        InputErr(rpc[p]) \cap HashErr(TextOf[rpc[p].password]) = {}

\* openapi.yml lines 425-430: the username of every stored user, which the REST API
\* shows as it is, has 3 to 32 characters out of a-z, A-Z, 0-9, _ and -.
ShownAsDocumented == \A n \in Rows(store) : OpenApiUsername(TextOf[n])
=============================================================================
