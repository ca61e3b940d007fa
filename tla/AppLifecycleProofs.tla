------------------------- MODULE AppLifecycleProofs -------------------------
(***************************************************************************)
(* Proofs about AppLifecycle: what run of cmd/go-web-layout/main.go leaves *)
(* behind on each of its ways out, whatever fails on the way, and whenever *)
(* the servers fail.                                                       *)
(***************************************************************************)
EXTENDS AppLifecycle, FiniteSetTheorems, TLAPS

\* The labels of run before a server is started, and those of its ways out.
Setup == {"config", "otel1", "otel2", "otel3"}
Migrating == {"open", "driver", "source", "migrator", "up"}
Early == Setup \cup Migrating \cup {"start"}
Leaving == {"deferDb", "deferOtel", "return"}

\* Until run has shut the providers down, exactly the initialised ones export.
TelemetryInv ==
  /\ pc \in {"config", "otel1", "return"} => registered = {}
  /\ pc = "otel2" => registered = {"tracer"}
  /\ pc = "otel3" => registered = {"tracer", "meter"}
  /\ pc # "return" => exporters = registered /\ \A x \in ProviderSet : shutdowns[x] = 0
  /\ \A x \in ProviderSet : shutdowns[x] <= 1
  /\ \A x \in exporters : shutdowns[x] = 0
  /\ pc = "return" => \A x \in exporters : "setup" \in failed

\* The database is open from sql.Open to its deferred Close, and servers are started
\* over a migrated one.
DatabaseInv ==
  /\ pc \in Setup \cup {"open"} => db = "none"
  /\ pc \in {"driver", "source", "migrator", "up", "start", "listen", "select", "deferDb"}
       => db = "open"
  /\ pc \in {"deferOtel", "return"} => db # "open"
  /\ pc \in Setup \cup Migrating => schema < Len(Migrations)
  /\ pc \in {"start", "listen", "select", "deferDb"} => schema = Len(Migrations)

\* What a server may still send, and all that may still be in the buffer.
Load(s) == IF server[s] \in {"serving", "failed"} THEN 1 ELSE 0
Pending == Len(srvErr) + Load("http") + Load("grpc")

\* Each server sends at most one error, and run has received one before it leaves.
ServerInv ==
  /\ pc \in Early => srvErr = <<>> /\ \A s \in Servers : server[s] = "off"
  /\ pc = "listen" => server["grpc"] = "off" /\ Pending <= 1
  /\ pc = "select" => Pending <= 2
  /\ pc \in Leaving => Pending <= 1
  /\ (\E s \in Servers : server[s] # "off") =>
       schema = Len(Migrations) /\ db \in {"open", "closed"}

\* Whatever has failed: nothing before run leaves, but for servers; then its cause.
ErrorInv ==
  /\ pc \in Early => failed = {}
  /\ pc \in {"listen", "select"} => failed \subseteq Servers
  /\ \A i \in 1..Len(srvErr) : srvErr[i] \in failed
  /\ \A s \in Servers : server[s] = "failed" => s \in failed
  /\ pc \in Leaving =>
       IF failed \cap Causes # {} THEN failed \cap Causes \subseteq ret
       ELSE ret # {} /\ ret \subseteq Servers
  /\ "setup" \in failed =>
       pc = "return" /\ failed = ret /\ \A s \in Servers : server[s] = "off"

IInv ==
  /\ TypeOK
  /\ TelemetryInv
  /\ DatabaseInv
  /\ ServerInv
  /\ ErrorInv
  /\ process = "exited" => pc = "return"

LEMMA InitInv == Init => IInv
<1> SUFFICES ASSUME Init
             PROVE  IInv
  OBVIOUS
<1>1. srvErr = <<>> /\ srvErr \in Seq(Servers) /\ Len(srvErr) = 0
  BY DEF Init
<1>2. TypeOK
  BY <1>1 DEF Init, TypeOK, Capacity, Migrations
<1>3. TelemetryInv /\ DatabaseInv
  BY DEF Init, TelemetryInv, DatabaseInv, Migrations, ProviderSet, Setup
<1>4. ServerInv
  BY <1>1 DEF Init, ServerInv, Leaving
<1>5. ErrorInv
  BY <1>1 DEF Init, ErrorInv, Leaving, Servers
<1> QED
  BY <1>2, <1>3, <1>4, <1>5 DEF Init, IInv

\* While no server was started, nothing is pending.
LEMMA NothingPending ==
  ASSUME srvErr = <<>>, \A s \in Servers : server[s] = "off"
  PROVE  Pending = 0
BY DEF Pending, Load, Servers

\* What steps that start no server and receive nothing leave as it is.
LEMMA ServersUntouched ==
  ASSUME UNCHANGED <<server, srvErr>>
  PROVE  Pending' = Pending
BY DEF Pending, Load

\* An early return names its cause.
LEMMA CauseIsNamed ==
  ASSUME NEW why \in Causes, failed \subseteq Servers, failed' = failed \cup {why}, ret' = {why}
  PROVE  failed' \cap Causes = {why} /\ failed' \cap Causes \subseteq ret'
BY DEF Causes, Servers

LEMMA GetAppEnvKeeps == IInv /\ GetAppEnv => IInv'
<1> SUFFICES ASSUME IInv, GetAppEnv
             PROVE  IInv'
  OBVIOUS
<1>1. /\ pc = "config" /\ process = "running"
      /\ UNCHANGED <<process, registered, shutdowns, exporters, db, schema, server, srvErr>>
      /\ \/ pc' = "otel1" /\ UNCHANGED <<failed, ret>>
         \/ \E why \in {"environment", "hostname"} :
              failed' = failed \cup {why} /\ ret' = {why} /\ pc' = "return"
  BY DEF GetAppEnv, Running, ReturnErr, telemetry, database, servers
<1>2. /\ TypeOK /\ registered = {} /\ exporters = {} /\ db = "none"
      /\ failed = {} /\ srvErr = <<>> /\ \A s \in Servers : server[s] = "off"
  BY <1>1 DEF IInv, TelemetryInv, DatabaseInv, ServerInv, ErrorInv, Setup, Early
<1>3. Pending' = 0
  BY <1>1, <1>2, NothingPending, ServersUntouched
<1>4. TypeOK'
  BY <1>1, <1>2 DEF TypeOK, Causes
<1>5. TelemetryInv' /\ DatabaseInv'
  BY <1>1, <1>2 DEF IInv, TelemetryInv, DatabaseInv, Setup, Migrating
<1>6. ServerInv'
  BY <1>1, <1>2, <1>3 DEF ServerInv, Early
<1>7. ErrorInv'
  <2>1. CASE pc' = "otel1" /\ UNCHANGED <<failed, ret>>
    BY <1>1, <1>2, <2>1 DEF ErrorInv, Leaving
  <2>2. ASSUME NEW why \in {"environment", "hostname"},
               failed' = failed \cup {why}, ret' = {why}, pc' = "return"
        PROVE  ErrorInv'
    <3>1. failed' \cap Causes # {} /\ failed' \cap Causes \subseteq ret'
      <4>1. why \in Causes /\ failed \subseteq Servers
        BY <1>2, <2>2 DEF Causes
      <4> QED
        BY <2>2, <4>1, CauseIsNamed
    <3> QED
      BY <1>1, <1>2, <2>2, <3>1 DEF ErrorInv, Early, Setup, Migrating
  <2> QED
    BY <1>1, <2>1, <2>2
<1> QED
  BY <1>1, <1>4, <1>5, <1>6, <1>7 DEF IInv

\* What InitProvider does, provider by provider: pc leads on, or to the return.
LEMMA InitProviderFacts ==
  ASSUME NEW i \in 1..3, InitProvider(i), TelemetryInv
  PROVE  /\ process = "running" /\ pc \in {"otel1", "otel2", "otel3"}
         /\ Providers[i] \in ProviderSet /\ Providers[i] \notin registered
         /\ UNCHANGED <<process, db, schema, server, srvErr>>
         /\ \/ /\ registered' = registered \cup {Providers[i]}
               /\ exporters' = exporters \cup {Providers[i]}
               /\ pc' \in {"otel2", "otel3", "open"}
               /\ pc' = "otel2" => registered' = {"tracer"}
               /\ pc' = "otel3" => registered' = {"tracer", "meter"}
               /\ UNCHANGED <<shutdowns, failed, ret>>
            \/ \E errs \in SUBSET registered, started \in SUBSET {Providers[i]} :
                 /\ Shutdown(errs)
                 /\ exporters' = (exporters \ registered) \cup started
                 /\ failed' = failed \cup {"setup"} \cup errs
                 /\ ret' = {"setup"} \cup errs
                 /\ pc' = "return"
<1>1. i = 1 \/ i = 2 \/ i = 3
  OBVIOUS
<1>2. /\ process = "running" /\ pc = <<"otel1", "otel2", "otel3">>[i]
      /\ UNCHANGED <<process, db, schema, server, srvErr>>
      /\ \/ /\ registered' = registered \cup {Providers[i]}
            /\ exporters' = exporters \cup {Providers[i]}
            /\ pc' = <<"otel2", "otel3", "open">>[i]
            /\ UNCHANGED <<shutdowns, failed, ret>>
         \/ \E errs \in SUBSET registered, started \in SUBSET {Providers[i]} :
              /\ Shutdown(errs)
              /\ exporters' = (exporters \ registered) \cup started
              /\ failed' = failed \cup {"setup"} \cup errs
              /\ ret' = {"setup"} \cup errs
              /\ pc' = "return"
  BY DEF InitProvider, Running, ReturnErr, SetupErr, database, servers
<1>3. CASE i = 1
  <2>1. pc = "otel1" /\ Providers[i] = "tracer" /\ <<"otel2", "otel3", "open">>[i] = "otel2"
    BY <1>2, <1>3 DEF Providers
  <2>2. registered = {}
    BY <2>1 DEF TelemetryInv
  <2> QED
    BY <1>2, <2>1, <2>2 DEF ProviderSet
<1>4. CASE i = 2
  <2>1. pc = "otel2" /\ Providers[i] = "meter" /\ <<"otel2", "otel3", "open">>[i] = "otel3"
    BY <1>2, <1>4 DEF Providers
  <2>2. registered = {"tracer"}
    BY <2>1 DEF TelemetryInv
  <2> QED
    BY <1>2, <2>1, <2>2 DEF ProviderSet
<1>5. CASE i = 3
  <2>1. pc = "otel3" /\ Providers[i] = "logger" /\ <<"otel2", "otel3", "open">>[i] = "open"
    BY <1>2, <1>5 DEF Providers
  <2>2. registered = {"tracer", "meter"}
    BY <2>1 DEF TelemetryInv
  <2> QED
    BY <1>2, <2>1, <2>2 DEF ProviderSet
<1> QED
  BY <1>1, <1>3, <1>4, <1>5

\* Each registered provider is shut down once more, and none stays registered.
LEMMA ShutdownFacts ==
  ASSUME TypeOK, \A x \in ProviderSet : shutdowns[x] = 0, NEW errs, Shutdown(errs)
  PROVE  /\ errs \subseteq registered /\ registered' = {}
         /\ shutdowns' \in [ProviderSet -> Nat]
         /\ \A x \in ProviderSet : shutdowns'[x] = IF x \in registered THEN 1 ELSE 0
BY DEF Shutdown, CountShutdowns, TypeOK

LEMMA InitProviderKeeps == ASSUME IInv, NEW i \in 1..3, InitProvider(i) PROVE IInv'
<1>1. /\ pc \in {"otel1", "otel2", "otel3"}
      /\ Providers[i] \in ProviderSet /\ Providers[i] \notin registered
      /\ process = "running"
      /\ UNCHANGED <<process, db, schema, server, srvErr>>
  BY InitProviderFacts DEF IInv
<1>2. /\ TypeOK /\ TelemetryInv /\ exporters = registered /\ db = "none"
      /\ \A x \in ProviderSet : shutdowns[x] = 0
      /\ schema < Len(Migrations)
      /\ failed = {} /\ srvErr = <<>> /\ \A s \in Servers : server[s] = "off"
  BY <1>1 DEF IInv, TelemetryInv, DatabaseInv, ServerInv, ErrorInv, Setup, Early
<1>3. Pending' = 0
  BY <1>1, <1>2, NothingPending, ServersUntouched
<1>4. ASSUME registered' = registered \cup {Providers[i]},
             exporters' = exporters \cup {Providers[i]},
             pc' \in {"otel2", "otel3", "open"},
             pc' = "otel2" => registered' = {"tracer"},
             pc' = "otel3" => registered' = {"tracer", "meter"},
             UNCHANGED <<shutdowns, failed, ret>>
      PROVE  IInv'
  <2>1. TypeOK'
    BY <1>1, <1>2, <1>4 DEF TypeOK
  <2>2. TelemetryInv'
    BY <1>1, <1>2, <1>4 DEF TelemetryInv, TypeOK
  <2>3. DatabaseInv' /\ ServerInv'
    BY <1>1, <1>2, <1>4 DEF DatabaseInv, ServerInv, Leaving
  <2>4. ErrorInv'
    BY <1>1, <1>2, <1>4 DEF ErrorInv, Leaving
  <2> QED
    BY <1>1, <2>1, <2>2, <2>3, <2>4 DEF IInv
<1>5. ASSUME NEW errs \in SUBSET registered, NEW started \in SUBSET {Providers[i]},
             Shutdown(errs),
             exporters' = (exporters \ registered) \cup started,
             failed' = failed \cup {"setup"} \cup errs,
             ret' = {"setup"} \cup errs,
             pc' = "return"
      PROVE  IInv'
  <2>1. /\ registered' = {} /\ shutdowns' \in [ProviderSet -> Nat]
        /\ \A x \in ProviderSet : shutdowns'[x] = IF x \in registered THEN 1 ELSE 0
    BY <1>2, <1>5, ShutdownFacts
  <2>2. errs \in SUBSET ProviderSet /\ exporters' \subseteq {Providers[i]}
    BY <1>2, <1>5 DEF TypeOK
  <2>3. failed' = {"setup"} \cup errs /\ ret' = failed'
    BY <1>2, <1>5
  <2>4. TypeOK'
    <3>1. failed' \in SUBSET (Causes \cup ProviderSet \cup Servers) /\ ret' \in SUBSET failed'
      BY <2>2, <2>3 DEF Causes
    <3>2. exporters' \in SUBSET ProviderSet /\ registered' \in SUBSET ProviderSet
      BY <1>1, <2>1, <2>2
    <3> QED
      BY <1>1, <1>2, <1>5, <2>1, <3>1, <3>2 DEF TypeOK
  <2>5. TelemetryInv'
    BY <1>1, <1>5, <2>1, <2>2 DEF TelemetryInv
  <2>6. DatabaseInv' /\ ServerInv'
    BY <1>1, <1>2, <1>3, <1>5 DEF DatabaseInv, ServerInv, Setup, Migrating, Early
  <2>7. ErrorInv'
    <3>1. failed' \cap Causes # {} /\ failed' \cap Causes \subseteq ret'
      BY <2>3 DEF Causes
    <3> QED
      BY <1>1, <1>2, <1>5, <2>3, <3>1 DEF ErrorInv, Early, Setup, Migrating
  <2> QED
    BY <1>1, <1>5, <2>4, <2>5, <2>6, <2>7 DEF IInv
<1> QED
  BY <1>2, <1>4, <1>5, InitProviderFacts

\* A step of Migrate that fails: the error is returned, the providers are shut down next.
LEMMA MigrateFailsKeeps ==
  ASSUME IInv, pc \in Migrating, process = "running",
         NEW why \in {"open", "driver", "source", "migrator", "up"}, MigrateFails(why),
         UNCHANGED <<process, registered, shutdowns, exporters, server, srvErr>>
  PROVE  IInv'
<1>1. /\ failed' = failed \cup {why} /\ ret' = {why} /\ pc' = "deferOtel"
      /\ db' = IF db = "open" THEN "leaked" ELSE db
      /\ UNCHANGED schema
  BY DEF MigrateFails, ReturnErr
<1>2. /\ TypeOK /\ exporters = registered /\ db \in {"none", "open"}
      /\ \A x \in ProviderSet : shutdowns[x] = 0
      /\ failed = {} /\ srvErr = <<>> /\ \A s \in Servers : server[s] = "off"
  BY DEF IInv, TelemetryInv, DatabaseInv, ServerInv, ErrorInv, Setup, Migrating, Early
<1>3. Pending' = 0
  BY <1>2, NothingPending, ServersUntouched
<1>4. TypeOK'
  BY <1>1, <1>2 DEF TypeOK, Causes
<1>5. TelemetryInv'
  BY <1>1, <1>2 DEF IInv, TelemetryInv
<1>6. DatabaseInv' /\ ServerInv'
  BY <1>1, <1>2, <1>3 DEF DatabaseInv, ServerInv, Setup, Migrating, Early
<1>7. ErrorInv'
  <2>1. why \in Causes /\ failed \subseteq Servers
    BY <1>2 DEF Causes
  <2>2. failed' \cap Causes # {} /\ failed' \cap Causes \subseteq ret'
    BY <1>1, <2>1, CauseIsNamed
  <2> QED
    BY <1>1, <1>2, <2>2 DEF ErrorInv, Setup, Migrating, Early
<1> QED
  BY <1>1, <1>4, <1>5, <1>6, <1>7 DEF IInv

LEMMA MigrateStepKeeps == ASSUME IInv, NEW i \in 1..4, MigrateStep(i) PROVE IInv'
<1>1. /\ process = "running" /\ pc = MigrateSteps[i]
      /\ UNCHANGED <<process, registered, shutdowns, exporters, server, srvErr>>
      /\ \/ db' = "open" /\ pc' = MigrateSteps[i + 1] /\ UNCHANGED <<schema, failed, ret>>
         \/ MigrateFails(MigrateSteps[i])
  BY DEF MigrateStep, Running, telemetry, servers
<1>2. /\ pc \in {"open", "driver", "source", "migrator"}
      /\ MigrateSteps[i] = pc
      /\ MigrateSteps[i + 1] \in {"driver", "source", "migrator", "up"}
  <2>1. i = 1 \/ i = 2 \/ i = 3 \/ i = 4
    OBVIOUS
  <2> QED
    BY <1>1, <2>1 DEF MigrateSteps
<1>3. /\ TypeOK /\ exporters = registered /\ db \in {"none", "open"}
      /\ \A x \in ProviderSet : shutdowns[x] = 0
      /\ schema < Len(Migrations)
      /\ failed = {} /\ srvErr = <<>> /\ \A s \in Servers : server[s] = "off"
  BY <1>2
     DEF IInv, TelemetryInv, DatabaseInv, ServerInv, ErrorInv, Setup, Migrating, Early
<1>4. CASE db' = "open" /\ pc' = MigrateSteps[i + 1] /\ UNCHANGED <<schema, failed, ret>>
  <2>1. TypeOK'
    BY <1>1, <1>2, <1>3, <1>4 DEF TypeOK
  <2>2. TelemetryInv' /\ DatabaseInv'
    BY <1>1, <1>2, <1>3, <1>4 DEF IInv, TelemetryInv, DatabaseInv, Setup
  <2>3. ServerInv' /\ ErrorInv'
    BY <1>1, <1>2, <1>3, <1>4 DEF ServerInv, ErrorInv, Leaving
  <2> QED
    BY <1>1, <2>1, <2>2, <2>3 DEF IInv
<1>5. CASE MigrateFails(MigrateSteps[i])
  <2>1. MigrateFails(pc) /\ pc \in Migrating
    BY <1>2, <1>5 DEF Migrating
  <2> QED
    BY <1>1, <1>2, <2>1, MigrateFailsKeeps
<1> QED
  BY <1>1, <1>4, <1>5

LEMMA MigrateUpKeeps == IInv /\ MigrateUp => IInv'
<1> SUFFICES ASSUME IInv, MigrateUp
             PROVE  IInv'
  OBVIOUS
<1>1. /\ process = "running" /\ pc = "up"
      /\ UNCHANGED <<process, registered, shutdowns, exporters, server, srvErr>>
      /\ \/ /\ schema' = schema + 1
            /\ pc' = IF schema + 1 = Len(Migrations) THEN "start" ELSE "up"
            /\ UNCHANGED <<db, failed, ret>>
         \/ MigrateFails("up")
  BY DEF MigrateUp, Running, telemetry, servers
<1>2. /\ TypeOK /\ exporters = registered /\ db = "open"
      /\ \A x \in ProviderSet : shutdowns[x] = 0
      /\ schema \in 0..Len(Migrations) /\ schema < Len(Migrations)
      /\ failed = {} /\ srvErr = <<>> /\ \A s \in Servers : server[s] = "off"
  BY <1>1
     DEF IInv, TypeOK, TelemetryInv, DatabaseInv, ServerInv, ErrorInv, Setup, Migrating, Early
<1>3. CASE /\ schema' = schema + 1
           /\ pc' = IF schema + 1 = Len(Migrations) THEN "start" ELSE "up"
           /\ UNCHANGED <<db, failed, ret>>
  <2>0. Len(Migrations) = 2
    BY DEF Migrations
  <2>1. /\ pc' \in {"start", "up"} /\ schema' \in 0..Len(Migrations)
        /\ pc' = "start" => schema' = Len(Migrations)
        /\ pc' = "up" => schema' < Len(Migrations)
    BY <1>2, <1>3, <2>0
  <2>2. TypeOK'
    BY <1>1, <1>2, <1>3, <2>1 DEF TypeOK
  <2>3. TelemetryInv'
    BY <1>1, <1>2, <2>1 DEF IInv, TelemetryInv
  <2>4. DatabaseInv'
    BY <1>1, <1>2, <1>3, <2>1 DEF DatabaseInv, Setup, Migrating
  <2>5. ServerInv' /\ ErrorInv'
    BY <1>1, <1>2, <1>3, <2>1 DEF ServerInv, ErrorInv, Leaving
  <2> QED
    BY <1>1, <2>2, <2>3, <2>4, <2>5 DEF IInv
<1>4. CASE MigrateFails("up")
  BY <1>1, <1>4, MigrateFailsKeeps DEF Migrating
<1> QED
  BY <1>1, <1>3, <1>4

LEMMA StartHttpKeeps == IInv /\ StartHttp => IInv'
<1> SUFFICES ASSUME IInv, StartHttp
             PROVE  IInv'
  OBVIOUS
<1>1. /\ process = "running" /\ pc = "start" /\ pc' = "listen"
      /\ server' = [server EXCEPT !["http"] = "serving"]
      /\ UNCHANGED <<process, registered, shutdowns, exporters, db, schema, srvErr, failed, ret>>
  BY DEF StartHttp, Running, telemetry, database
<1>2. /\ TypeOK /\ exporters = registered /\ db = "open" /\ schema = Len(Migrations)
      /\ \A x \in ProviderSet : shutdowns[x] = 0
      /\ failed = {} /\ srvErr = <<>> /\ \A s \in Servers : server[s] = "off"
  BY <1>1 DEF IInv, TelemetryInv, DatabaseInv, ServerInv, ErrorInv, Early
<1>3. /\ server \in [Servers -> {"off", "serving", "failed", "ended"}]
      /\ server'["http"] = "serving" /\ server'["grpc"] = "off"
  BY <1>1, <1>2 DEF TypeOK, Servers
<1>4. Pending' = 1
  BY <1>1, <1>2, <1>3 DEF Pending, Load
<1>5. TypeOK'
  BY <1>1, <1>2, <1>3 DEF TypeOK
<1>6. TelemetryInv' /\ DatabaseInv'
  BY <1>1, <1>2 DEF IInv, TelemetryInv, DatabaseInv, Setup, Migrating
<1>7. ServerInv'
  BY <1>1, <1>2, <1>3, <1>4 DEF ServerInv, Early, Setup, Migrating, Leaving
<1>8. ErrorInv'
  BY <1>1, <1>2, <1>3 DEF ErrorInv, Leaving, Servers
<1> QED
  BY <1>1, <1>5, <1>6, <1>7, <1>8 DEF IInv

LEMMA ListenGrpcKeeps == IInv /\ ListenGrpc => IInv'
<1> SUFFICES ASSUME IInv, ListenGrpc
             PROVE  IInv'
  OBVIOUS
<1>1. /\ process = "running" /\ pc = "listen"
      /\ UNCHANGED <<process, registered, shutdowns, exporters, db, schema, srvErr>>
      /\ \/ /\ server' = [server EXCEPT !["grpc"] = "serving"]
            /\ pc' = "select" /\ UNCHANGED <<failed, ret>>
         \/ /\ failed' = failed \cup {"listen"} /\ ret' = {"listen"} /\ pc' = "deferDb"
            /\ UNCHANGED server
  BY DEF ListenGrpc, Running, ReturnErr, telemetry, database
<1>2. /\ TypeOK /\ exporters = registered /\ db = "open" /\ schema = Len(Migrations)
      /\ \A x \in ProviderSet : shutdowns[x] = 0
      /\ server["grpc"] = "off" /\ Pending <= 1 /\ failed \subseteq Servers
      /\ \A i \in 1..Len(srvErr) : srvErr[i] \in failed
      /\ \A s \in Servers : server[s] = "failed" => s \in failed
  BY <1>1 DEF IInv, TelemetryInv, DatabaseInv, ServerInv, ErrorInv
<1>3. TelemetryInv' /\ DatabaseInv'
  BY <1>1, <1>2 DEF IInv, TelemetryInv, DatabaseInv, Setup, Migrating
<1>4. CASE /\ server' = [server EXCEPT !["grpc"] = "serving"]
           /\ pc' = "select" /\ UNCHANGED <<failed, ret>>
  <2>1. /\ server \in [Servers -> {"off", "serving", "failed", "ended"}]
        /\ server'["http"] = server["http"] /\ server'["grpc"] = "serving"
        /\ server' \in [Servers -> {"off", "serving", "failed", "ended"}]
    BY <1>2, <1>4 DEF TypeOK, Servers
  <2>2. Len(srvErr) \in Nat /\ srvErr' = srvErr
    BY <1>1, <1>2 DEF TypeOK
  <2>3. Pending' <= 2
    BY <1>2, <2>1, <2>2 DEF Pending, Load
  <2>4. TypeOK'
    BY <1>1, <1>2, <1>4, <2>1 DEF TypeOK
  <2>5. ServerInv'
    BY <1>1, <1>2, <1>4, <2>3 DEF ServerInv, Early, Setup, Migrating, Leaving
  <2>6. ErrorInv'
    BY <1>1, <1>2, <1>4, <2>1 DEF ErrorInv, Early, Setup, Migrating, Leaving, Servers
  <2> QED
    BY <1>1, <1>3, <2>4, <2>5, <2>6 DEF IInv
<1>5. CASE /\ failed' = failed \cup {"listen"} /\ ret' = {"listen"} /\ pc' = "deferDb"
           /\ UNCHANGED server
  <2>1. Pending' <= 1
    BY <1>1, <1>2, <1>5, ServersUntouched
  <2>2. TypeOK'
    BY <1>1, <1>2, <1>5 DEF TypeOK, Causes
  <2>3. ServerInv'
    BY <1>1, <1>2, <1>5, <2>1 DEF ServerInv, Early, Setup, Migrating
  <2>4. failed' \cap Causes # {} /\ failed' \cap Causes \subseteq ret'
    BY <1>2, <1>5, CauseIsNamed DEF Causes
  <2>5. ErrorInv'
    <3>1. "setup" \notin failed'
      BY <1>2, <1>5 DEF Servers
    <3> QED
      BY <1>1, <1>2, <1>5, <2>4, <3>1 DEF ErrorInv, Early, Setup, Migrating
  <2> QED
    BY <1>1, <1>3, <2>2, <2>3, <2>5 DEF IInv
<1> QED
  BY <1>1, <1>4, <1>5

\* A server that fails still has its error to send.
LEMMA ServerFailsKeeps == ASSUME IInv, NEW s \in Servers, ServerFails(s) PROVE IInv'
<1>1. /\ process = "running" /\ server[s] = "serving"
      /\ server' = [server EXCEPT ![s] = "failed"] /\ failed' = failed \cup {s}
      /\ UNCHANGED <<pc, process, registered, shutdowns, exporters, db, schema, srvErr, ret>>
  BY DEF ServerFails, telemetry, database
<1>2. /\ TypeOK /\ server \in [Servers -> {"off", "serving", "failed", "ended"}]
      /\ server' \in [Servers -> {"off", "serving", "failed", "ended"}]
      /\ \A x \in Servers : server'[x] = IF x = s THEN "failed" ELSE server[x]
  BY <1>1 DEF IInv, TypeOK
<1>3. pc \notin Early /\ "setup" \notin failed
  BY <1>1 DEF IInv, ServerInv, ErrorInv
<1>4. Pending' = Pending
  BY <1>1, <1>2 DEF Pending, Load, Servers
<1>5. TypeOK'
  BY <1>1, <1>2 DEF TypeOK
<1>6. TelemetryInv' /\ DatabaseInv'
  BY <1>1 DEF IInv, TelemetryInv, DatabaseInv
<1>7. ServerInv'
  <2>1. schema = Len(Migrations) /\ db \in {"open", "closed"}
    BY <1>1 DEF IInv, ServerInv
  <2>2. pc = "listen" => server'["grpc"] = "off"
    BY <1>1, <1>2 DEF IInv, ServerInv, Servers
  <2> QED
    BY <1>1, <1>3, <1>4, <2>1, <2>2 DEF IInv, ServerInv
<1>8. ErrorInv'
  <2>1. failed' \cap Causes = failed \cap Causes /\ "setup" \notin failed'
    BY <1>1, <1>3 DEF Causes, Servers
  <2> QED
    BY <1>1, <1>2, <1>3, <2>1 DEF IInv, ErrorInv
<1> QED
  BY <1>1, <1>5, <1>6, <1>7, <1>8 DEF IInv

\* An error moves from its server to the buffer.
LEMMA SendKeeps == ASSUME IInv, NEW s \in Servers, Send(s) PROVE IInv'
<1>1. /\ process = "running" /\ server[s] = "failed" /\ Len(srvErr) < Capacity
      /\ server' = [server EXCEPT ![s] = "ended"] /\ srvErr' = Append(srvErr, s)
      /\ UNCHANGED <<pc, process, registered, shutdowns, exporters, db, schema, failed, ret>>
  BY DEF Send, telemetry, database
<1>2. /\ TypeOK /\ server \in [Servers -> {"off", "serving", "failed", "ended"}]
      /\ server' \in [Servers -> {"off", "serving", "failed", "ended"}]
      /\ \A x \in Servers : server'[x] = IF x = s THEN "ended" ELSE server[x]
  BY <1>1 DEF IInv, TypeOK
<1>3. /\ srvErr \in Seq(Servers) /\ srvErr' \in Seq(Servers) /\ Len(srvErr) \in Nat
      /\ Len(srvErr') = Len(srvErr) + 1 /\ Len(srvErr') <= Capacity
      /\ \A i \in 1..Len(srvErr') : srvErr'[i] = IF i = Len(srvErr') THEN s ELSE srvErr[i]
  BY <1>1, <1>2 DEF TypeOK, Capacity
<1>4. pc \notin Early /\ "setup" \notin failed /\ s \in failed
  BY <1>1 DEF IInv, ServerInv, ErrorInv
<1>5. Pending' = Pending
  <2>1. CASE s = "http"
    <3>1. /\ Load("http") = 1 /\ Load("http")' = 0
          /\ Load("grpc")' = Load("grpc") /\ Load("grpc") \in 0..1
      BY <1>1, <1>2, <2>1 DEF Load, Servers
    <3> QED
      BY <1>3, <3>1 DEF Pending
  <2>2. CASE s = "grpc"
    <3>1. /\ Load("grpc") = 1 /\ Load("grpc")' = 0
          /\ Load("http")' = Load("http") /\ Load("http") \in 0..1
      BY <1>1, <1>2, <2>2 DEF Load, Servers
    <3> QED
      BY <1>3, <3>1 DEF Pending
  <2> QED
    BY <2>1, <2>2 DEF Servers
<1>6. TypeOK'
  BY <1>1, <1>2, <1>3 DEF TypeOK
<1>7. TelemetryInv' /\ DatabaseInv'
  BY <1>1 DEF IInv, TelemetryInv, DatabaseInv
<1>8. ServerInv'
  <2>1. schema = Len(Migrations) /\ db \in {"open", "closed"}
    BY <1>1 DEF IInv, ServerInv
  <2>2. pc = "listen" => server'["grpc"] = "off"
    BY <1>1, <1>2 DEF IInv, ServerInv, Servers
  <2>3. /\ pc = "listen" => Pending <= 1
        /\ pc = "select" => Pending <= 2
        /\ pc \in Leaving => Pending <= 1
    BY DEF IInv, ServerInv
  <2> QED
    BY <1>1, <1>4, <1>5, <2>1, <2>2, <2>3 DEF ServerInv
<1>9. ErrorInv'
  <2>1. \A i \in 1..Len(srvErr') : srvErr'[i] \in failed'
    BY <1>1, <1>3, <1>4 DEF IInv, ErrorInv
  <2>2. \A x \in Servers : server'[x] = "failed" => x \in failed'
    BY <1>1, <1>2 DEF IInv, ErrorInv
  <2> QED
    BY <1>1, <1>4, <2>1, <2>2 DEF IInv, ErrorInv
<1> QED
  BY <1>1, <1>6, <1>7, <1>8, <1>9 DEF IInv

\* run takes the error it returns from the buffer.
LEMMA ReceiveErrKeeps == IInv /\ ReceiveErr => IInv'
<1> SUFFICES ASSUME IInv, ReceiveErr
             PROVE  IInv'
  OBVIOUS
<1>1. /\ process = "running" /\ pc = "select" /\ pc' = "deferDb"
      /\ srvErr # <<>> /\ srvErr' = Tail(srvErr) /\ ret' = {Head(srvErr)}
      /\ UNCHANGED <<process, registered, shutdowns, exporters, db, schema, server, failed>>
  BY DEF ReceiveErr, Running, ReturnErr, telemetry, database
<1>2. /\ TypeOK /\ exporters = registered /\ db = "open" /\ schema = Len(Migrations)
      /\ \A x \in ProviderSet : shutdowns[x] = 0
      /\ Pending <= 2 /\ failed \subseteq Servers
      /\ \A i \in 1..Len(srvErr) : srvErr[i] \in failed
      /\ \A s \in Servers : server[s] = "failed" => s \in failed
  BY <1>1 DEF IInv, TelemetryInv, DatabaseInv, ServerInv, ErrorInv
<1>3. /\ srvErr \in Seq(Servers) /\ Len(srvErr) \in Nat /\ Len(srvErr) <= Capacity
      /\ srvErr' \in Seq(Servers) /\ Len(srvErr') = Len(srvErr) - 1
      /\ \A i \in 1..Len(srvErr') : srvErr'[i] = srvErr[i + 1]
      /\ Head(srvErr) = srvErr[1] /\ 1 \in 1..Len(srvErr)
  BY <1>1, <1>2 DEF TypeOK, Capacity
<1>4. Head(srvErr) \in failed /\ ret' \subseteq Servers /\ ret' # {}
  BY <1>1, <1>2, <1>3
<1>5. Pending' <= 1
  <2>1. /\ Load("http")' = Load("http") /\ Load("http") \in 0..1
        /\ Load("grpc")' = Load("grpc") /\ Load("grpc") \in 0..1
    BY <1>1 DEF Load
  <2> QED
    BY <1>2, <1>3, <2>1 DEF Pending
<1>6. TypeOK'
  BY <1>1, <1>2, <1>3, <1>4 DEF TypeOK, Capacity
<1>7. TelemetryInv' /\ DatabaseInv'
  BY <1>1, <1>2 DEF IInv, TelemetryInv, DatabaseInv, Setup, Migrating
<1>8. ServerInv'
  BY <1>1, <1>2, <1>5 DEF ServerInv, Early, Setup, Migrating
<1>9. ErrorInv'
  <2>1. \A i \in 1..Len(srvErr') : srvErr'[i] \in failed'
    <3>1. \A i \in 1..Len(srvErr') : i + 1 \in 1..Len(srvErr)
      BY <1>3
    <3> QED
      BY <1>1, <1>2, <1>3, <3>1
  <2>2. failed' \cap Causes = {} /\ "setup" \notin failed'
    BY <1>1, <1>2 DEF Causes, Servers
  <2> QED
    BY <1>1, <1>2, <1>4, <2>1, <2>2 DEF ErrorInv, Early, Setup, Migrating
<1> QED
  BY <1>1, <1>6, <1>7, <1>8, <1>9 DEF IInv

LEMMA DeferDbKeeps == IInv /\ DeferDb => IInv'
<1> SUFFICES ASSUME IInv, DeferDb
             PROVE  IInv'
  OBVIOUS
<1>1. /\ process = "running" /\ pc = "deferDb" /\ pc' = "deferOtel" /\ db' = "closed"
      /\ UNCHANGED <<process, registered, shutdowns, exporters, schema, server, srvErr,
                     failed, ret>>
  BY DEF DeferDb, Running, telemetry, servers
<1>2. Pending' <= 1 /\ schema = Len(Migrations)
  BY <1>1, ServersUntouched DEF IInv, ServerInv, DatabaseInv, Leaving
<1>3. TypeOK'
  BY <1>1 DEF IInv, TypeOK
<1>4. TelemetryInv' /\ DatabaseInv'
  BY <1>1 DEF IInv, TelemetryInv, DatabaseInv, Setup, Migrating
<1>5. ServerInv'
  BY <1>1, <1>2 DEF ServerInv, Early, Setup, Migrating
<1>6. ErrorInv'
  BY <1>1 DEF IInv, ErrorInv, Early, Setup, Migrating, Leaving
<1> QED
  BY <1>1, <1>3, <1>4, <1>5, <1>6 DEF IInv

\* The providers that are registered are shut down; whether that fails, nobody is told.
LEMMA DeferOtelKeeps == IInv /\ DeferOtel => IInv'
<1> SUFFICES ASSUME IInv, DeferOtel
             PROVE  IInv'
  OBVIOUS
<1>1. /\ process = "running" /\ pc = "deferOtel" /\ pc' = "return"
      /\ exporters' = exporters \ registered
      /\ UNCHANGED <<process, db, schema, server, srvErr, ret>>
  BY DEF DeferOtel, Running, database, servers
<1>2. PICK errs \in SUBSET registered : Shutdown(errs) /\ failed' = failed \cup errs
  BY DEF DeferOtel
<1>3. /\ TypeOK /\ exporters = registered /\ db # "open" /\ "setup" \notin failed
      /\ \A x \in ProviderSet : shutdowns[x] = 0
      /\ Pending <= 1
  BY <1>1 DEF IInv, TelemetryInv, DatabaseInv, ServerInv, ErrorInv, Leaving
<1>4. /\ registered' = {} /\ shutdowns' \in [ProviderSet -> Nat] /\ exporters' = {}
      /\ \A x \in ProviderSet : shutdowns'[x] = IF x \in registered THEN 1 ELSE 0
  BY <1>1, <1>2, <1>3, ShutdownFacts
<1>5. errs \subseteq ProviderSet
  BY <1>2, <1>3 DEF TypeOK
<1>6. TypeOK'
  BY <1>1, <1>2, <1>3, <1>4, <1>5 DEF TypeOK
<1>7. TelemetryInv'
  BY <1>1, <1>4 DEF TelemetryInv
<1>8. DatabaseInv'
  BY <1>1, <1>3 DEF DatabaseInv, Setup, Migrating
<1>9. ServerInv'
  <2>1. Pending' <= 1
    BY <1>1, <1>3, ServersUntouched
  <2> QED
    BY <1>1, <2>1 DEF IInv, ServerInv, Early, Setup, Migrating
<1>10. ErrorInv'
  <2>1. failed' \cap Causes = failed \cap Causes /\ "setup" \notin failed'
    BY <1>2, <1>3, <1>5 DEF Causes, ProviderSet
  <2>2. /\ \A i \in 1..Len(srvErr) : srvErr[i] \in failed'
        /\ \A s \in Servers : server[s] = "failed" => s \in failed'
    BY <1>2 DEF IInv, ErrorInv
  <2>3. IF failed \cap Causes # {} THEN failed \cap Causes \subseteq ret
        ELSE ret # {} /\ ret \subseteq Servers
    BY <1>1 DEF IInv, ErrorInv, Leaving
  <2> QED
    BY <1>1, <2>1, <2>2, <2>3 DEF ErrorInv, Early, Setup, Migrating
<1> QED
  BY <1>1, <1>6, <1>7, <1>8, <1>9, <1>10 DEF IInv

\* The end of the process changes nothing that it leaves behind.
LEMMA EndKeeps ==
  ASSUME IInv, process' = "exited" => pc = "return", process' \in {"running", "exited", "killed"},
         UNCHANGED <<pc, registered, shutdowns, exporters, db, schema, server, srvErr, failed, ret>>
  PROVE  IInv'
<1>1. TypeOK' /\ TelemetryInv' /\ DatabaseInv'
  BY DEF IInv, TypeOK, TelemetryInv, DatabaseInv
<1>2. ServerInv' /\ ErrorInv'
  BY ServersUntouched DEF IInv, ServerInv, ErrorInv
<1> QED
  BY <1>1, <1>2 DEF IInv

\* IInv holds in every reachable state: run of main.go with the servers it starts.
THEOREM LifecycleInvariant == Spec => []IInv
<1>1. IInv /\ [Next]_vars => IInv'
  <2> SUFFICES ASSUME IInv, [Next]_vars
               PROVE  IInv'
    OBVIOUS
  <2>1. CASE GetAppEnv
    BY <2>1, GetAppEnvKeeps
  <2>2. CASE \E i \in 1..3 : InitProvider(i)
    BY <2>2, InitProviderKeeps
  <2>3. CASE \E i \in 1..4 : MigrateStep(i)
    BY <2>3, MigrateStepKeeps
  <2>4. CASE MigrateUp
    BY <2>4, MigrateUpKeeps
  <2>5. CASE StartHttp
    BY <2>5, StartHttpKeeps
  <2>6. CASE ListenGrpc
    BY <2>6, ListenGrpcKeeps
  <2>7. CASE ReceiveErr
    BY <2>7, ReceiveErrKeeps
  <2>8. CASE DeferDb
    BY <2>8, DeferDbKeeps
  <2>9. CASE DeferOtel
    BY <2>9, DeferOtelKeeps
  <2>10. CASE Exit
    BY <2>10, EndKeeps DEF Exit, Running, telemetry, database, servers
  <2>11. CASE Interrupt
    BY <2>11, EndKeeps DEF Interrupt, telemetry, database, servers
  <2>12. CASE \E s \in Servers : ServerFails(s) \/ Send(s)
    BY <2>12, ServerFailsKeeps, SendKeeps
  <2>13. CASE UNCHANGED vars
    <3>1. process \in {"running", "exited", "killed"} /\ (process = "exited" => pc = "return")
      BY DEF IInv, TypeOK
    <3> QED
      BY <2>13, <3>1, EndKeeps DEF vars, telemetry, database, servers
  <2> QED
    BY <2>1, <2>2, <2>3, <2>4, <2>5, <2>6, <2>7, <2>8, <2>9, <2>10, <2>11, <2>12, <2>13
       DEF Next, Run
<1> QED
  BY <1>1, InitInv, PTL DEF Spec

\* The variables keep their types; the buffer never holds more than one error.
THEOREM LifecycleTypes == Spec => []TypeOK
<1>1. IInv => TypeOK
  BY DEF IInv
<1> QED
  BY <1>1, LifecycleInvariant, PTL

\* main.go lines 196-208: on every way out each provider that was initialised has been
\* shut down once, never twice, and the database that run was given is closed.
THEOREM ExitCleansUpOnce == Spec => []CleanedUpOnce
<1>1. IInv => CleanedUpOnce
  BY DEF IInv, TelemetryInv, DatabaseInv, CleanedUpOnce
<1> QED
  BY <1>1, LifecycleInvariant, PTL

\* main.go lines 47-66: run returns what made it return, and never nil.
THEOREM RunReturnsItsCause == Spec => []CauseIsReturned
<1>1. IInv => CauseIsReturned
  BY DEF IInv, ErrorInv, Leaving, CauseIsReturned
<1> QED
  BY <1>1, LifecycleInvariant, PTL

\* main.go line 213: when the telemetry cannot be set up, no error is dropped.
THEOREM SetupErrorsAreJoined == Spec => []SetupErrorsReturned
<1>1. IInv => SetupErrorsReturned
  BY DEF IInv, ErrorInv, SetupErrorsReturned
<1> QED
  BY <1>1, LifecycleInvariant, PTL

\* main.go lines 63-79: no provider is shut down while the database is open.
THEOREM DatabaseClosesFirst == Spec => []TelemetryOutlivesDatabase
<1>1. IInv => TelemetryOutlivesDatabase
  BY DEF IInv, TelemetryInv, DatabaseInv, TelemetryOutlivesDatabase
<1> QED
  BY <1>1, LifecycleInvariant, PTL

\* dbconfig.go lines 14-48: no server runs over a database that is not fully migrated.
THEOREM ServersFindTheirTable == Spec => []ServesMigratedDatabase
<1>1. IInv => ServesMigratedDatabase
  BY DEF IInv, ServerInv, ServesMigratedDatabase
<1> QED
  BY <1>1, LifecycleInvariant, PTL

\* The servers that may still send are counted by their loads.
LEMMA LoadsCount ==
  Cardinality({s \in Servers : server[s] \in {"serving", "failed"}}) = Load("http") + Load("grpc")
<1> DEFINE A == {s \in Servers : server[s] \in {"serving", "failed"}}
<1>1. A = {} \/ A = {"http"} \/ A = {"grpc"} \/ A = {"http"} \cup {"grpc"}
  BY DEF Servers
<1>2. CASE A = {}
  <2>1. Load("http") = 0 /\ Load("grpc") = 0
    BY <1>2 DEF Load, Servers
  <2> QED
    BY <1>2, <2>1, FS_EmptySet
<1>3. CASE A = {"http"}
  <2>1. Load("http") = 1 /\ Load("grpc") = 0
    BY <1>3 DEF Load, Servers
  <2>2. Cardinality({"http"}) = 1
    BY FS_Singleton
  <2> QED
    BY <1>3, <2>1, <2>2
<1>4. CASE A = {"grpc"}
  <2>1. Load("http") = 0 /\ Load("grpc") = 1
    BY <1>4 DEF Load, Servers
  <2>2. Cardinality({"grpc"}) = 1
    BY FS_Singleton
  <2> QED
    BY <1>4, <2>1, <2>2
<1>5. CASE A = {"http"} \cup {"grpc"}
  <2>1. Load("http") = 1 /\ Load("grpc") = 1
    BY <1>5 DEF Load, Servers
  <2>2. Cardinality({"http"} \cup {"grpc"}) = 2
    <3>1. IsFiniteSet({"http"}) /\ Cardinality({"http"}) = 1 /\ "grpc" \notin {"http"}
      BY FS_Singleton
    <3>2. Cardinality({"http"} \cup {"grpc"})
            = IF "grpc" \in {"http"} THEN Cardinality({"http"}) ELSE Cardinality({"http"}) + 1
      BY <3>1, FS_AddElement
    <3> QED
      BY <3>1, <3>2
  <2> QED
    BY <1>5, <2>1, <2>2
<1> QED
  BY <1>1, <1>2, <1>3, <1>4, <1>5

\* main.go line 105: once run has left its select, the buffer has room for the error of
\* each server that may still fail, so no goroutine blocks on it for ever.
THEOREM BufferIsLargeEnough == Spec => []NoSenderIsStuck
<1>1. IInv => NoSenderIsStuck
  <2> SUFFICES ASSUME IInv, pc \in {"deferDb", "deferOtel", "return"}
               PROVE  Len(srvErr)
                        + Cardinality({s \in Servers : server[s] \in {"serving", "failed"}})
                          <= Capacity
    BY DEF NoSenderIsStuck
  <2>1. Len(srvErr) \in Nat /\ Pending <= 1
    BY DEF IInv, TypeOK, ServerInv, Leaving
  <2>2. Load("http") \in 0..1 /\ Load("grpc") \in 0..1
    BY DEF Load
  <2> QED
    BY <2>1, <2>2, LoadsCount DEF Pending, Capacity
<1> QED
  BY <1>1, LifecycleInvariant, PTL

=============================================================================
