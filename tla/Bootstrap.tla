----------------------------- MODULE Bootstrap ------------------------------
(***************************************************************************)
(* The start of the service: main.ts calls one method of                   *)
(* MicroserviceFactory (microserviceFactory.factory.ts) after the other;   *)
(* before that, loading the modules reads the configuration (env.ts,       *)
(* app.module.ts).  A failure ends the process as long as nothing listens  *)
(* for uncaught exceptions; from addProcessTitle on it is only logged.     *)
(*                                                                         *)
(* A source of configuration is a function from keys to values; Absent is  *)
(* a key the source does not have.                                         *)
(***************************************************************************)
EXTENDS Naturals, Sequences

CONSTANTS Reals,     \* environments the process may be started in
          Dots,      \* contents of the file .env
          Files,     \* contents of the file for the mode, .env.<mode>
          Absent,    \* undefined
          MaxFaults  \* bound: failures of the host or of a handler

\* What the constructors of RazorpayService and of CashFreeService ask for.
Credentials == {"RAZORPAY_API_KEY_ID", "RAZORPAY_API_KEY_SECRET", "CASHFREE_APP_ID", "CASHFREE_APP_SECRET"}

Keys  == {"NODE_ENV", "SERVICE_NAME", "SERVICE_PORT"} \cup Credentials
Modes == {"development", "production", "staging"}

BootAssumption ==
  /\ \A source \in Reals \cup Dots \cup Files :
       DOMAIN source = Keys /\ source["SERVICE_PORT"] # "no"
  /\ MaxFaults \in Nat

VARIABLES
  real, dot, file, \* the three sources
  env,       \* process.env
  envFile,   \* ENV.envFile, the name envFileName remembers
  appName,   \* LoggerService.APPLICATION_NAME
  variables, \* what MicroserviceEnvVariables read
  step,      \* how far the start is
  handlers,  \* is there a listener for uncaught exceptions
  installed, \* what requests go through
  serving,   \* "no", or the port requests are taken on
  ended,     \* "no", or how the process ended: "crash" or "quiet"
  faults

sources == <<real, dot, file>>
config  == <<env, envFile, appName, variables>>
vars    == <<sources, config, step, handlers, installed, serving, ended, faults>>

Steps == <<"importLogger", "dotenvConfig", "envFileName", "forRoot", "create", "addSession",
           "addProcessTitle", "addMicroservices", "setGlobalPrefix", "useGlobalPipes", "enableCors",
           "addGlobalFilters", "addGlobalInterceptors", "addSwagger", "listen", "over">>

\* What every request goes through once the start is over.
Layers == {"addSession", "setGlobalPrefix", "useGlobalPipes", "enableCors", "addGlobalFilters",
           "addGlobalInterceptors", "addSwagger"}

Nothing == [k \in Keys |-> Absent]

\* What MicroserviceEnvVariables reads: RAZORPAY_API_KEY, which is no credential,
\* and neither of Razorpay's two.
Read == {"SERVICE_NAME", "SERVICE_PORT", "CASHFREE_APP_ID", "CASHFREE_APP_SECRET"}

Fresh ==
  /\ env' = real' /\ envFile' = Absent /\ appName' = Absent /\ variables' = Nothing
  /\ step' = 1 /\ handlers' = FALSE /\ installed' = {} /\ serving' = "no"

Init ==
  /\ real \in Reals /\ dot \in Dots /\ file \in Files
  /\ env = real /\ envFile = Absent /\ appName = Absent /\ variables = Nothing
  /\ step = 1 /\ handlers = FALSE /\ installed = {} /\ serving = "no"
  /\ ended = "no" /\ faults = 0

At(s) == ended = "no" /\ Steps[step] = s
Go    == step' = step + 1

\* Values a source adds to those there are.
Under(base, source) == [k \in Keys |-> IF base[k] # Absent THEN base[k] ELSE source[k]]

-----------------------------------------------------------------------------
(* Loading the modules. *)

\* app.module.ts imports the logger before env.ts: its static field is set first.
ImportLogger ==
  /\ At("importLogger") /\ Go
  /\ appName' = env["SERVICE_NAME"]
  /\ UNCHANGED <<sources, env, envFile, variables, handlers, installed, serving, ended, faults>>

\* dotenv.config() adds .env to process.env, whatever the mode.
DotenvConfig ==
  /\ At("dotenvConfig") /\ Go
  /\ env' = Under(env, dot)
  /\ UNCHANGED <<sources, envFile, appName, variables, handlers, installed, serving, ended, faults>>

\* The file for the mode, .env for an unknown one.
EnvFileName ==
  /\ At("envFileName") /\ Go
  /\ envFile' = IF env["NODE_ENV"] \in Modes THEN env["NODE_ENV"] ELSE "none"
  /\ UNCHANGED <<sources, env, appName, variables, handlers, installed, serving, ended, faults>>

\* ConfigModule.forRoot adds the file that was named to process.env.
ForRoot ==
  /\ At("forRoot") /\ Go
  /\ env' = Under(env, IF envFile = "none" THEN dot ELSE file)
  /\ UNCHANGED <<sources, envFile, appName, variables, handlers, installed, serving, ended, faults>>

-----------------------------------------------------------------------------
(* bootstrap(). *)

\* No value, or an empty one.
Missing(k) == env[k] \in {Absent, ""}

\* The modules are instantiated, with both gateways' services, and the variables read.
Created ==
  /\ At("create") /\ Go
  /\ variables' = [k \in Keys |-> IF k \in Read THEN env[k] ELSE Absent]
  /\ UNCHANGED <<sources, env, envFile, appName, handlers, installed, serving, ended, faults>>

\* Variant: the second gateway's constructor only logs that it has no credentials.
CreateCashfreeUnchecked ==
  /\ ~Missing("RAZORPAY_API_KEY_ID") /\ ~Missing("RAZORPAY_API_KEY_SECRET")
  /\ Created

Create ==
  /\ \A k \in Credentials : ~Missing(k)
  /\ Created

\* "Missing Razorpay credentials" or "Cashfree credentials not configured": the
\* constructor throws and Nest ends the process.
CreateFails ==
  /\ At("create")
  /\ \E k \in Credentials : Missing(k)
  /\ ended' = "crash"
  /\ UNCHANGED <<sources, config, step, handlers, installed, serving, faults>>

\* addSession, setGlobalPrefix, useGlobalPipes, enableCors, addGlobalFilters,
\* addGlobalInterceptors, addSwagger.
Install(s) ==
  /\ s \in Layers
  /\ At(s) /\ Go
  /\ installed' = installed \cup {s}
  /\ UNCHANGED <<sources, config, handlers, serving, ended, faults>>

\* Variant: the listener is registered under the name of the other event.
AddProcessTitleMisnamed ==
  /\ At("addProcessTitle") /\ Go
  /\ UNCHANGED <<sources, config, handlers, installed, serving, ended, faults>>

\* The listener for uncaughtException; the other name is no event of a process.
AddProcessTitle ==
  /\ At("addProcessTitle") /\ Go
  /\ handlers' = TRUE
  /\ UNCHANGED <<sources, config, installed, serving, ended, faults>>

\* No branch assigns a microservice, so none is started.
AddMicroservices ==
  /\ At("addMicroservices") /\ Go
  /\ UNCHANGED <<sources, config, handlers, installed, serving, ended, faults>>

\* Variants: a missing port is read as it is, and as no number.
PortRead == variables["SERVICE_PORT"]
PortNaN  == IF variables["SERVICE_PORT"] = Absent THEN "junk" ELSE variables["SERVICE_PORT"]

\* toNumber makes 0 of a missing port, so that ?? 3333 never applies; the host
\* then picks one.
Port == IF variables["SERVICE_PORT"] = Absent THEN "picked" ELSE variables["SERVICE_PORT"]

\* Variant: listen is not the last call.
ListenEarly ==
  /\ At("addGlobalFilters") /\ Go
  /\ serving' = Port
  /\ UNCHANGED <<sources, config, handlers, installed, ended, faults>>

\* The port is free, and a number.
Listen ==
  /\ At("listen") /\ Go
  /\ Port # "junk"
  /\ serving' = Port
  /\ UNCHANGED <<sources, config, handlers, installed, ended, faults>>

\* What an exception nobody catches comes to.
Uncaught == IF handlers THEN step' = Len(Steps) /\ UNCHANGED ended
            ELSE UNCHANGED step /\ ended' = "crash"

\* The port is taken or is no number.  The promise of listen is not awaited.
ListenFails ==
  /\ At("listen")
  /\ IF Port = "junk" THEN UNCHANGED faults ELSE faults < MaxFaults /\ faults' = faults + 1
  /\ Uncaught
  /\ UNCHANGED <<sources, config, handlers, installed, serving>>

\* Any other call of bootstrap throws, or a promise of a handler rejects later.
Throws ==
  /\ ended = "no" /\ step >= 5
  /\ faults < MaxFaults
  /\ faults' = faults + 1
  /\ Uncaught
  /\ UNCHANGED <<sources, config, handlers, installed, serving>>

-----------------------------------------------------------------------------
\* Nothing is left to wait for: the process ends, and reports success.
EndQuietly ==
  /\ At("over") /\ serving = "no"
  /\ ended' = "quiet"
  /\ UNCHANGED <<sources, config, step, handlers, installed, serving, faults>>

\* A supervisor starts the service again after a failure.
Restart ==
  /\ ended = "crash"
  /\ ended' = "no"
  /\ UNCHANGED <<sources, faults>>
  /\ Fresh

Boot ==
  \/ ImportLogger \/ DotenvConfig \/ EnvFileName \/ ForRoot
  \/ Create \/ CreateFails \/ \E s \in Layers : Install(s)
  \/ AddProcessTitle \/ AddMicroservices \/ Listen \/ ListenFails

Next == Boot \/ EndQuietly \/ Throws \/ Restart

Spec == Init /\ [][Next]_vars

-----------------------------------------------------------------------------
Sources == Reals \cup Dots \cup Files

TypeOK ==
  /\ real \in Reals /\ dot \in Dots /\ file \in Files
  /\ \A k \in Keys : {env[k], variables[k]} \subseteq {Absent} \cup {source[k] : source \in Sources}
  /\ envFile \in Modes \cup {Absent, "none"}
  /\ step \in 1..Len(Steps)
  /\ handlers \in BOOLEAN /\ ended \in {"no", "crash", "quiet"}
  /\ installed \subseteq Layers
  /\ serving \in {"no", "picked"} \cup ({source["SERVICE_PORT"] : source \in Sources} \ {Absent, "junk"})
  /\ faults \in 0..MaxFaults

\* Whenever requests are taken, the session, prefix, pipes, filter and interceptor
\* are all in place, and both gateways' credentials were found in some source.
ServedWhole ==
  serving # "no" => installed = Layers /\ \A k \in Credentials : ~Missing(k)

\* A start that failed is reported as a success, and not repeated, only if it
\* failed after addProcessTitle: by a failure, or by a port that is no number.
QuietEndExplained ==
  ended = "quiet" => handlers /\ (faults > 0 \/ variables["SERVICE_PORT"] = "junk")

\* A service that serves is never taken down by an exception nobody catches, as by
\* the rejected promise of a webhook handler.
ServingSurvives == [][serving # "no" /\ ended = "no" => ended' = "no" /\ serving' = serving]_vars
=============================================================================
