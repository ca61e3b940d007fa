---------------------------- MODULE AppLifecycle ----------------------------
(***************************************************************************)
(* cmd/go-web-layout/main.go: run and setupOTelSDK, from the environment   *)
(* (config/appenv.go) over the telemetry (config/observability) and the    *)
(* database (config/dbconfig.go) to the end of the process, with           *)
(* everything that can fail on the way.                                    *)
(*                                                                         *)
(* The goroutine of run is the variable pc; the two goroutines it starts   *)
(* (lines 118-120 and 158-160) are the servers http and grpc.  A deferred  *)
(* call is a label of its own: deferDb, then deferOtel, in the reverse of  *)
(* their order in run.                                                     *)
(***************************************************************************)
EXTENDS Naturals, Sequences, FiniteSets

VARIABLES
    pc,         \* where run is
    process,    \* running, exited, killed
    registered, \* shutdownFuncs: the providers whose shutdown is registered
    shutdowns,  \* how often each provider was shut down
    exporters,  \* the providers whose exporter runs
    db,         \* none, open, leaked, closed
    schema,     \* how many migrations have been applied
    server,     \* of each server: off, serving, failed, ended
    srvErr,     \* the buffered channel of the same name
    failed,     \* everything that has failed
    ret         \* the causes joined in the error run returns

telemetry == <<registered, shutdowns, exporters>>
database == <<db, schema>>
servers == <<server, srvErr>>
vars == <<pc, process, telemetry, database, servers, failed, ret>>

\* The three providers of setupOTelSDK, in the order it initialises them.
Providers == <<"tracer", "meter", "logger">>
ProviderSet == {"tracer", "meter", "logger"}
Servers == {"http", "grpc"}

\* The steps of Migrate, and the files of resources/migrations its last one applies.
MigrateSteps == <<"open", "driver", "source", "migrator", "up">>
Migrations == <<"create_table_users", "mock_data_users">>

\* A faulty Capacity: make(chan error).
CapacityNone == 0

\* make(chan error, 1)
Capacity == 1

Init ==
    /\ pc = "config"
    /\ process = "running"
    /\ registered = {}
    /\ shutdowns = [x \in ProviderSet |-> 0]
    /\ exporters = {}
    /\ db = "none"
    /\ schema = 0
    /\ server = [s \in Servers |-> "off"]
    /\ srvErr = <<>>
    /\ failed = {}
    /\ ret = {}

Running(l) == process = "running" /\ pc = l

\* run returns the errors es; its deferred calls are at label l.
ReturnErr(es, l) ==
    /\ ret' = es
    /\ pc' = l

\* The environment is parsed, and without HOSTNAME the kernel is asked.
GetAppEnv ==
    /\ Running("config")
    /\ \/ pc' = "otel1" /\ UNCHANGED <<failed, ret>>
       \/ \E why \in {"environment", "hostname"} :
            failed' = failed \cup {why} /\ ReturnErr({why}, "return")
    /\ UNCHANGED <<process, telemetry, database, servers>>

CountShutdowns ==
    shutdowns' = [x \in ProviderSet |->
                     IF x \in registered THEN shutdowns[x] + 1 ELSE shutdowns[x]]

\* A faulty Shutdown: shutdownFuncs is not reset.
ShutdownKeepsFuncs(errs) ==
    /\ errs \subseteq registered
    /\ CountShutdowns
    /\ registered' = registered

\* shutdown: every registered cleanup once, then none is registered any more.
\* errs: the providers whose shutdown fails.
Shutdown(errs) ==
    /\ errs \subseteq registered
    /\ CountShutdowns
    /\ registered' = {}

\* A faulty SetupErr: the errors of the shutdown are dropped.
SetupErrAlone(errs) == {"setup"}

\* handleErr joins the errors of the shutdown to the one that caused it.
SetupErr(errs) == {"setup"} \cup errs

\* The i-th Init...Provider creates its exporter, then the resource, then the
\* provider.  When one of the first two fails, handleErr shuts down the earlier
\* providers and joins their errors; nobody stops the exporter that exists already.
InitProvider(i) ==
    /\ Running(<<"otel1", "otel2", "otel3">>[i])
    /\ \/ /\ registered' = registered \cup {Providers[i]}
          /\ exporters' = exporters \cup {Providers[i]}
          /\ pc' = <<"otel2", "otel3", "open">>[i]
          /\ UNCHANGED <<shutdowns, failed, ret>>
       \/ \E errs \in SUBSET registered, started \in SUBSET {Providers[i]} :
            /\ Shutdown(errs)
            /\ exporters' = (exporters \ registered) \cup started
            /\ failed' = failed \cup {"setup"} \cup errs
            /\ ReturnErr(SetupErr(errs), "return")
    /\ UNCHANGED <<process, database, servers>>

\* Migrate fails; the deferred shutdown of the providers is in force already.  The
\* sql.DB, once it is open, is dropped without a Close (leaked).
MigrateFails(why) ==
    /\ failed' = failed \cup {why}
    /\ ReturnErr({why}, "deferOtel")
    /\ db' = IF db = "open" THEN "leaked" ELSE db
    /\ UNCHANGED schema

\* sql.Open, the driver, the source and the migrator of Migrate.
MigrateStep(i) ==
    /\ Running(MigrateSteps[i]) /\ i < Len(MigrateSteps)
    /\ \/ db' = "open" /\ pc' = MigrateSteps[i + 1] /\ UNCHANGED <<schema, failed, ret>>
       \/ MigrateFails(MigrateSteps[i])
    /\ UNCHANGED <<process, telemetry, servers>>

\* A faulty MigrateUp: its error is not looked at.
MigrateUpUnchecked ==
    /\ Running("up")
    /\ schema' \in schema..Len(Migrations)
    /\ pc' = "start"
    /\ UNCHANGED <<process, telemetry, db, servers, failed, ret>>

\* migrator.Up applies one migration after the other; the database is new, so
\* there is always one to apply.
MigrateUp ==
    /\ Running("up")
    /\ \/ /\ schema' = schema + 1
          /\ pc' = IF schema + 1 = Len(Migrations) THEN "start" ELSE "up"
          /\ UNCHANGED <<db, failed, ret>>
       \/ MigrateFails("up")
    /\ UNCHANGED <<process, telemetry, servers>>

StartHttp ==
    /\ Running("start")
    /\ server' = [server EXCEPT !["http"] = "serving"]
    /\ pc' = "listen"
    /\ UNCHANGED <<process, telemetry, database, srvErr, failed, ret>>

\* Listen for gRPC; when it fails, run returns with the HTTP server going.
ListenGrpc ==
    /\ Running("listen")
    /\ \/ /\ server' = [server EXCEPT !["grpc"] = "serving"]
          /\ pc' = "select"
          /\ UNCHANGED <<failed, ret>>
       \/ /\ failed' = failed \cup {"listen"}
          /\ ReturnErr({"listen"}, "deferDb")
          /\ UNCHANGED server
    /\ UNCHANGED <<process, telemetry, database, srvErr>>

\* ListenAndServe or Serve returns an error, which its goroutine will send.
ServerFails(s) ==
    /\ process = "running" /\ server[s] = "serving"
    /\ server' = [server EXCEPT ![s] = "failed"]
    /\ failed' = failed \cup {s}
    /\ UNCHANGED <<pc, process, telemetry, database, srvErr, ret>>

\* Faulty forms of Send: the buffer grows; the error is logged only.
SendUnbounded(s) ==
    /\ process = "running" /\ server[s] = "failed"
    /\ srvErr' = Append(srvErr, s)
    /\ server' = [server EXCEPT ![s] = "ended"]
    /\ UNCHANGED <<pc, process, telemetry, database, failed, ret>>

SendNothing(s) ==
    /\ process = "running" /\ server[s] = "failed"
    /\ server' = [server EXCEPT ![s] = "ended"]
    /\ UNCHANGED <<pc, process, telemetry, database, srvErr, failed, ret>>

\* srvErr <- err blocks while the buffer is full.
Send(s) ==
    /\ process = "running" /\ server[s] = "failed"
    /\ Len(srvErr) < Capacity
    /\ srvErr' = Append(srvErr, s)
    /\ server' = [server EXCEPT ![s] = "ended"]
    /\ UNCHANGED <<pc, process, telemetry, database, failed, ret>>

\* A faulty ReceiveErr: the deferred calls run in the order of the code.
ReceiveErrOtelFirst ==
    /\ Running("select")
    /\ srvErr # <<>>
    /\ srvErr' = Tail(srvErr)
    /\ ReturnErr({Head(srvErr)}, "deferOtel")
    /\ UNCHANGED <<process, telemetry, database, server, failed>>

\* The select: the context is the background context and is never done.
ReceiveErr ==
    /\ Running("select")
    /\ srvErr # <<>>
    /\ srvErr' = Tail(srvErr)
    /\ ReturnErr({Head(srvErr)}, "deferDb")
    /\ UNCHANGED <<process, telemetry, database, server, failed>>

DeferDb ==
    /\ Running("deferDb")
    /\ db' = "closed"
    /\ pc' = "deferOtel"
    /\ UNCHANGED <<process, telemetry, schema, servers, failed, ret>>

\* A faulty DeferOtel: run has a named result, and the error of otelShutdown
\* replaces the one it holds.
DeferOtelReplaces ==
    /\ Running("deferOtel")
    /\ \E errs \in SUBSET registered :
        /\ Shutdown(errs)
        /\ failed' = failed \cup errs
        /\ ret' = errs
    /\ exporters' = exporters \ registered
    /\ pc' = "return"
    /\ UNCHANGED <<process, database, servers>>

\* The join with the error of otelShutdown is assigned to a variable that run
\* has returned already.
DeferOtel ==
    /\ Running("deferOtel")
    /\ \E errs \in SUBSET registered :
        /\ Shutdown(errs)
        /\ failed' = failed \cup errs
    /\ exporters' = exporters \ registered
    /\ pc' = "return"
    /\ UNCHANGED <<process, database, servers, ret>>

\* main logs the error and returns: the process ends, goroutines and all.
Exit ==
    /\ Running("return")
    /\ process' = "exited"
    /\ UNCHANGED <<pc, telemetry, database, servers, failed, ret>>

\* SIGINT or SIGTERM: nothing in the program asks for them, so they kill it.
Interrupt ==
    /\ process = "running"
    /\ process' = "killed"
    /\ UNCHANGED <<pc, telemetry, database, servers, failed, ret>>

Run ==
    \/ GetAppEnv \/ (\E i \in 1..3 : InitProvider(i))
    \/ (\E i \in 1..4 : MigrateStep(i)) \/ MigrateUp \/ StartHttp \/ ListenGrpc
    \/ ReceiveErr \/ DeferDb \/ DeferOtel \/ Exit

Next == Run \/ Interrupt \/ \E s \in Servers : ServerFails(s) \/ Send(s)

\* The scheduler runs run and the two goroutines; servers need not fail.
Spec ==
    /\ Init /\ [][Next]_vars
    /\ WF_vars(Run) /\ \A s \in Servers : WF_vars(Send(s))

(***************************************************************************)
(* Correctness.                                                            *)
(***************************************************************************)
\* What makes run return early.
Causes == {"environment", "hostname", "setup", "open", "driver", "source", "migrator",
           "up", "listen"}

\* The types of the variables.
TypeOK ==
    /\ pc \in {"config", "otel1", "otel2", "otel3", "open", "driver", "source", "migrator",
               "up", "start", "listen", "select", "deferDb", "deferOtel", "return"}
    /\ process \in {"running", "exited", "killed"}
    /\ registered \in SUBSET ProviderSet
    /\ shutdowns \in [ProviderSet -> Nat]
    /\ exporters \in SUBSET ProviderSet
    /\ db \in {"none", "open", "leaked", "closed"}
    /\ schema \in 0..Len(Migrations)
    /\ server \in [Servers -> {"off", "serving", "failed", "ended"}]
    /\ srvErr \in Seq(Servers) /\ Len(srvErr) <= Capacity
    /\ failed \in SUBSET (Causes \cup ProviderSet \cup Servers)
    /\ ret \in SUBSET failed

\* main.go lines 196-208: on every way out of run, a provider that was
\* initialised has been shut down exactly once, and the database that run was
\* given is closed.  An exporter runs on only when its own provider could not be
\* built around it.
CleanedUpOnce ==
    /\ \A x \in ProviderSet : shutdowns[x] <= 1
    /\ process = "exited" => registered = {} /\ db # "open"
    /\ process = "exited" => \A x \in exporters : "setup" \in failed /\ shutdowns[x] = 0

\* main.go lines 47-66: run returns an error, never nil, and with it whatever made
\* it return early, whatever fails while the deferred calls run; when nothing did, the
\* error of a server.
CauseIsReturned ==
    process = "exited" =>
        IF failed \cap Causes # {} THEN failed \cap Causes \subseteq ret
        ELSE ret # {} /\ ret \subseteq Servers

\* dbconfig.go lines 14-48: a server only ever runs over a database to which every
\* migration was applied, and which run knows of, so that it can close it.
ServesMigratedDatabase ==
    (\E s \in Servers : server[s] # "off") =>
        schema = Len(Migrations) /\ db \in {"open", "closed"}

\* Line 213: when setupOTelSDK fails, run returns every error there was.
SetupErrorsReturned ==
    process = "exited" /\ "setup" \in failed => failed = ret

\* Lines 63-79: telemetry outlives the database, whose Close may have to log.
TelemetryOutlivesDatabase ==
    db = "open" => \A x \in ProviderSet : shutdowns[x] = 0

\* Line 105: once run no longer receives, the buffer has room for every server
\* that may still fail, so that its goroutine does not block for ever.
NoSenderIsStuck ==
    pc \in {"deferDb", "deferOtel", "return"} =>
        Len(srvErr) + Cardinality({s \in Servers : server[s] \in {"serving", "failed"}})
            <= Capacity

\* Lines 163-165: a server that fails takes the process with it.
FailureEndsProcess ==
    \A s \in Servers : server[s] = "failed" ~> process # "running"

\* Lines 162 and 167-178: an interruption of the select, where run waits for it, stops
\* the servers and cleans up.
InterruptionCleansUp ==
    process = "killed" /\ pc = "select" => registered = {} /\ db # "open"
=============================================================================
