-------------------------------- MODULE Zwen --------------------------------
(***************************************************************************)
(* The command line tool `zwen` (packages/cli/lib/bin.ts): which command   *)
(* an invocation runs, over the modules Wire (gen:wire), OpenApi (openapi  *)
(* and client) and Routes (check, and calls through the client), and its   *)
(* exit code.                                                              *)
(***************************************************************************)
EXTENDS Wire, Routes, OpenApi

VARIABLES
  invocation,  \* the arguments, and the module that --app names
  running,     \* "cli" before the command is chosen, the command, or "ended"
  exitCode     \* process.exitCode

zwenVars == <<wireVars, routesVars, openApiVars, invocation, running, exitCode>>

Commands == {"gen:wire", "routes", "openapi", "client", "check", "none", "other"}

(* What runCli and loadAppModule tell apart.  gen:wire imports no module.  *)
Invocations ==
  {i \in [command : Commands,
          target : BOOLEAN,          \* --from or --app is given
          inside : BOOLEAN,          \* --app lies in the working directory
          allowUntrusted : BOOLEAN,
          isApp : BOOLEAN] :         \* the module exports an app
     i.command = "gen:wire" => ~i.inside /\ ~i.allowUntrusted /\ ~i.isApp}

-----------------------------------------------------------------------------
(* loadAppModule: a module outside the working directory is only imported  *)
(* with --allow-untrusted, and has to export an app.                       *)
AppLoads == (invocation.allowUntrusted \/ invocation.inside) /\ invocation.isApp

Runs ==
  /\ invocation.target
  /\ \/ invocation.command = "gen:wire"
     \/ invocation.command \in {"routes", "openapi", "client", "check"} /\ AppLoads

(* A manifest is read by gen:wire only, schemas by openapi and client, and *)
(* a route's path by check; for the other commands one of each will do.    *)
OneManifest == {CHOOSE m \in Manifests : TRUE}
OneTable == {CHOOSE t \in Tables : TRUE}
OneApp == {CHOOSE a \in Apps : TRUE}

ZwenInit ==
  /\ invocation \in Invocations
  /\ running = "cli"
  /\ exitCode = 0
  /\ manifest \in IF Runs /\ invocation.command = "gen:wire" THEN Manifests ELSE OneManifest
  /\ WireStart
  /\ table \in IF Runs /\ invocation.command = "check" THEN Tables ELSE OneTable
  /\ RoutesStart
  /\ api \in IF Runs /\ invocation.command \in {"openapi", "client"} THEN Apps ELSE OneApp
  /\ OpenApiStart

Exit(code) ==
  /\ running' = "ended"
  /\ exitCode' = code

(* usage() and loadAppModule throw.                                        *)
Refuse ==
  /\ running = "cli"
  /\ ~Runs
  /\ Exit(1)
  /\ UNCHANGED <<wireVars, routesVars, openApiVars, invocation>>

Choose ==
  /\ running = "cli"
  /\ Runs
  /\ running' = invocation.command
  /\ UNCHANGED <<wireVars, routesVars, openApiVars, invocation, exitCode>>

(* openapi and client generate the document, and client its client.        *)
Generate ==
  /\ running \in {"openapi", "client"}
  /\ \/ AddRoute
     \/ Build
     \/ running = "client" /\ (NextComponent \/ FollowRef)
  /\ UNCHANGED <<wireVars, routesVars, invocation, running, exitCode>>

(* routes, openapi and client write what they are asked for.               *)
Write ==
  /\ \/ running = "routes"
     \/ running = "openapi" /\ DocumentDone
     \/ running = "client" /\ ClientDone
  /\ Exit(0)
  /\ UNCHANGED <<wireVars, routesVars, openApiVars, invocation>>

Check ==
  /\ running = "check"
  /\ CheckRoutes
  /\ Exit(IF duplicates' = {} THEN 0 ELSE 1)
  /\ UNCHANGED <<wireVars, openApiVars, invocation>>

GenerateWire ==
  /\ running = "gen:wire"
  /\ \/ Parse \/ MissingBinding \/ Count \/ Shift \/ Stuck \/ Search \/ Emit
  /\ IF stage' \in {"refused", "circular", "written"}
     THEN Exit(IF stage' = "written" THEN 0 ELSE 1)
     ELSE UNCHANGED <<running, exitCode>>
  /\ UNCHANGED <<routesVars, openApiVars, invocation>>

(* What was generated is used: the container by an application, the client *)
(* by a program that calls an app which `zwen check` has accepted.         *)
RunContainer ==
  /\ running = "ended"
  /\ Load \/ Statement
  /\ UNCHANGED <<routesVars, openApiVars, invocation, running, exitCode>>

UseClient ==
  /\ running = "ended"
  /\ exitCode = 0
  /\ CallClient \/ PassOver \/ Match \/ NothingMatches
  /\ UNCHANGED <<wireVars, openApiVars, invocation, running, exitCode>>

ZwenNext ==
  \/ Refuse \/ Choose \/ Generate \/ Write \/ Check \/ GenerateWire
  \/ RunContainer \/ UseClient

ZwenSpec == ZwenInit /\ [][ZwenNext]_zwenVars

-----------------------------------------------------------------------------
(* Types: no provider ever waits for less than nothing, and what is queued *)
(* or in order waits for nothing (topo.ts, bin.ts).                        *)
ZwenTypeOK ==
  /\ WireTypeOK
  /\ invocation \in Invocations
  /\ running \in Commands \cup {"cli", "ended"}
  /\ exitCode \in {0, 1}
  /\ duplicates \subseteq (DOMAIN table) \X (DOMAIN table)
  /\ next \in 0 .. Len(table) + 1
  /\ phase \in {"check", "client", "match", "answered"}
  /\ turn \in 1 .. Len(api.routes) + 1
  /\ IsInjective([i \in DOMAIN registry |-> registry[i].schema])
  /\ DocumentDone => untyped \subseteq DOMAIN components /\ DOMAIN alias \subseteq DOMAIN components
=============================================================================
