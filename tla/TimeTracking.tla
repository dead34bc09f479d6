---------------------------- MODULE TimeTracking ----------------------------
(***************************************************************************)
(* The time tracker (examples/time-tracking), the repository's largest     *)
(* application: its routes (app.ts), declared with the schemas of          *)
(* packages/schema, its services, and its repositories over three Maps.    *)
(*                                                                         *)
(* Requests are served at the same time.  Every repository call is         *)
(* awaited, so an action is what a request does from one await to the      *)
(* next, and between two of them any other request may run: what a service *)
(* has read may be stale when it writes.  After its last access to a Map   *)
(* only the answer is left, which is given in the same step.               *)
(***************************************************************************)
EXTENDS Integers, FiniteSets

CONSTANTS
  Requests, Users, Tokens, EntryIds, ProjectIds,
  Texts,          \* names and colours of projects
  Times,          \* the times that clients give for an entry
  MaxSafe,        \* Number.MAX_SAFE_INTEGER, the bound of z.number().int()
  MaxTime,        \* bound on the clock
  Stores,         \* what earlier requests have left in the Maps, and the setting
  Null            \* null and undefined

Entry == [userId : Users, projectId : ProjectIds \cup {Null},
          startedAt : Int, stoppedAt : Int \cup {Null}]
Project == [userId : Users, name : Texts, color : Texts]

(* What POST /entries/start (no times) and POST /entries, and what PATCH   *)
(* /projects/:id still need of their bodies.                               *)
EntryInput == [projectId : ProjectIds \cup {Null},
               startedAt : Int \cup {Null}, stoppedAt : Int \cup {Null}]
PatchInput == [name : Texts \cup {Null}, color : Texts \cup {Null}]

VARIABLES
  tokens, projects, entries,  \* the Maps of db.ts, Null where there is no row
  issued,      \* what crypto.randomUUID has given out
  demoAuth,    \* ALLOW_DEMO_AUTH is 1
  now,         \* Date.now()
  pc,          \* where a request is
  user,        \* ctx.auth.userId, Null for an anonymous request
  input,       \* what is left of its input
  read,        \* the id and the row that it has read
  reply,       \* the status, and the owners of the rows that it shows
  stale,       \* ghost: requests that rely on what another has since written
  writes       \* ghost: how often a request has written

dbVars == <<tokens, projects, entries, issued, demoAuth>>
localVars == <<pc, user, input, read, reply>>
ghostVars == <<stale, writes>>
vars == <<dbVars, now, localVars, ghostVars>>

Stored(map) == {x \in DOMAIN map : map[x] # Null}

(* The projects that entries are for, deleted ones among them.             *)
Mentioned(es) == {es[e].projectId : e \in Stored(es)} \ {Null}

(* A project, while there is one, is of the user whose entries are for it. *)
OwnedBy(owner, es, ps) ==
  /\ \A p \in Stored(ps) : ps[p].userId = owner[p]
  /\ \A e \in Stored(es) : es[e].projectId # Null => es[e].userId = owner[es[e].projectId]

ASSUME NullAssumption ==
  Null \notin Int \cup Users \cup ProjectIds \cup EntryIds \cup Texts
              \cup Entry \cup Project \cup EntryInput \cup PatchInput
ASSUME TimesAssumption ==
  /\ MaxSafe \in Nat
  /\ Times \subseteq (-MaxSafe) .. MaxSafe
  /\ MaxTime \in 0 .. MaxSafe
ASSUME StoresAssumption ==
  \A s \in Stores :
    /\ s.demoAuth \in BOOLEAN
    /\ s.tokens \in [Tokens -> Users \cup {Null}]
    /\ s.projects \in [ProjectIds -> Project \cup {Null}]
    /\ s.entries \in [EntryIds -> Entry \cup {Null}]
    /\ \A e \in Stored(s.entries) :
         s.entries[e].stoppedAt = Null => s.entries[e].startedAt >= 0
    /\ \E owner \in [ProjectIds -> Users] : OwnedBy(owner, s.entries, s.projects)
ASSUME IdsAssumption ==
  Tokens \cap ProjectIds = {} /\ Tokens \cap EntryIds = {} /\ ProjectIds \cap EntryIds = {}

Places == {"idle", "ready", "starting", "inserting", "patching", "stopping", "answered"}

Reply == [status : {0, 200, 400, 401, 403, 404, 409, 500}, owners : SUBSET Users]
NoReply == [status |-> 0, owners |-> {}]

Init ==
  /\ \E s \in Stores : /\ tokens = s.tokens
                       /\ projects = s.projects
                       /\ entries = s.entries
                       /\ demoAuth = s.demoAuth
  /\ issued = Stored(tokens) \cup Stored(projects) \cup Stored(entries)
                \cup Mentioned(entries)
  /\ now = 0
  /\ pc = [r \in Requests |-> "idle"]
  /\ user = [r \in Requests |-> Null]
  /\ input = [r \in Requests |-> Null]
  /\ read = [r \in Requests |-> Null]
  /\ reply = [r \in Requests |-> NoReply]
  /\ stale = {}
  /\ writes = [r \in Requests |-> 0]

-----------------------------------------------------------------------------
(* What the services and the repositories test and compute, each after the *)
(* form a mistake might give it.                                           *)
Running(row) == row.stoppedAt = Null

(* findRunning.  Of several rows it returns the oldest in the Map: which   *)
(* one that is, is left open.                                              *)
RunningOf(u) == {e \in Stored(entries) : entries[e].userId = u /\ Running(entries[e])}

(* The ownership test of findById's callers, and of assertProject.         *)
Owned(row, u) == row # Null /\ row.userId = u

Bug_AnyonesProject(p, u) == p = Null \/ projects[p] # Null
ProjectAllowed(p, u) == p = Null \/ Owned(projects[p], u)

Bug_StopTwice(row, u) == Owned(row, u)
Bug_StopAny(row, u) == row # Null /\ Running(row)
Stoppable(row, u) == Owned(row, u) /\ Running(row)

(* deleteForUser.                                                          *)
Bug_DeleteAny(row, u) == row # Null
Deletable(row, u) == Owned(row, u)

(* listByUser of the entries, with its filter.                             *)
Listed(u, from, to, p) ==
  {e \in Stored(entries) :
     /\ entries[e].userId = u
     /\ p = Null \/ entries[e].projectId = p
     /\ from = Null \/ entries[e].startedAt >= from
     /\ to = Null \/ entries[e].startedAt <= to}

(* toEntry, and the schema of the output, which takes safe integers only.  *)
durationMs(row) ==
  LET end == IF Running(row) THEN now ELSE row.stoppedAt
  IN  IF end < row.startedAt THEN 0 ELSE end - row.startedAt
Bug_BelowSafe(rows) == \A row \in rows : durationMs(row) < MaxSafe
Valid(rows) == \A row \in rows : durationMs(row) <= MaxSafe

-----------------------------------------------------------------------------
Goto(r, place, in, found) ==
  /\ pc' = [pc EXCEPT ![r] = place]
  /\ input' = [input EXCEPT ![r] = in]
  /\ read' = [read EXCEPT ![r] = found]
  /\ UNCHANGED <<user, reply>>

Answer(r, status, owners) ==
  /\ pc' = [pc EXCEPT ![r] = "answered"]
  /\ input' = [input EXCEPT ![r] = Null]
  /\ read' = [read EXCEPT ![r] = Null]
  /\ reply' = [reply EXCEPT ![r] = [status |-> status, owners |-> owners]]
  /\ UNCHANGED user

(* route() parses what the service has returned.                           *)
Show(r, rows) ==
  IF Valid(rows) THEN Answer(r, 200, {row.userId : row \in rows})
  ELSE Answer(r, 500, {})

NoWrite == UNCHANGED <<dbVars, ghostVars>>

(* db.entries and db.projects are written; others may rely on them.        *)
Starts(s) == pc[s] \in {"starting", "inserting"} /\ input[s].startedAt = Null

Wrote(r, relying) ==
  /\ stale' = (stale \ {r}) \cup (relying \ {r})
  /\ writes' = [writes EXCEPT ![r] = @ + 1]

SetEntry(r, e, row) ==
  /\ entries' = [entries EXCEPT ![e] = row]
  /\ Wrote(r, {s \in Requests :
                 \/ pc[s] = "stopping" /\ read[s].id = e
                 \/ Starts(s) /\ user[s] = user[r] /\ row # Null /\ Running(row)})
  /\ UNCHANGED <<tokens, projects, demoAuth>>

SetProject(r, p, row) ==
  /\ projects' = [projects EXCEPT ![p] = row]
  /\ Wrote(r, {s \in Requests : pc[s] = "patching" /\ read[s].id = p})
  /\ UNCHANGED <<tokens, entries, demoAuth>>

-----------------------------------------------------------------------------
(* bearerAuth looks the token up, if there is one; it refuses one that     *)
(* nobody has been given.                                                  *)
Arrive(r) ==
  /\ pc[r] = "idle"
  /\ \/ /\ pc' = [pc EXCEPT ![r] = "ready"]
        /\ user' \in {[user EXCEPT ![r] = u] : u \in {Null} \cup {tokens[t] : t \in Stored(tokens)}}
        /\ UNCHANGED <<input, read, reply>>
     \/ Stored(tokens) # Tokens /\ Answer(r, 401, {})
  /\ NoWrite
  /\ UNCHANGED now

(* POST /auth/token is open to anyone, for any user.                       *)
PostToken(r) ==
  /\ pc[r] = "ready"
  /\ \/ demoAuth /\ \E t \in Tokens \ issued, u \in Users :
          /\ tokens' = [tokens EXCEPT ![t] = u]
          /\ issued' = issued \cup {t}
          /\ writes' = [writes EXCEPT ![r] = @ + 1]
          /\ Answer(r, 200, {})
          /\ UNCHANGED <<projects, entries, demoAuth, stale>>
     \/ ~demoAuth /\ Answer(r, 403, {}) /\ NoWrite
  /\ UNCHANGED now

(* requireAuth.                                                            *)
RequireAuth(r) ==
  /\ pc[r] = "ready"
  /\ user[r] = Null
  /\ Answer(r, 401, {})
  /\ NoWrite
  /\ UNCHANGED now

Enters(r) == pc[r] = "ready" /\ user[r] # Null

(* parseOrThrow on the params, the query or the body.                      *)
Invalid(r) ==
  /\ pc[r] = "ready"
  /\ Answer(r, 400, {})
  /\ NoWrite
  /\ UNCHANGED now

(* GET / is open to anyone.                                                *)
GetPage(r) ==
  /\ pc[r] = "ready"
  /\ Answer(r, 200, {})
  /\ NoWrite
  /\ UNCHANGED now

(* GET /me, /projects, /entries and /entries/running.                      *)
GetMe(r) ==
  /\ Enters(r)
  /\ Answer(r, 200, {user[r]})
  /\ NoWrite
  /\ UNCHANGED now

GetProjects(r) ==
  /\ Enters(r)
  /\ Answer(r, 200, {projects[p].userId : p \in {p \in Stored(projects) : Owned(projects[p], user[r])}})
  /\ NoWrite
  /\ UNCHANGED now

GetEntries(r) ==
  /\ Enters(r)
  /\ \E from, to \in Times \cup {Null}, p \in ProjectIds \cup {Null} :
       Show(r, {entries[e] : e \in Listed(user[r], from, to, p)})
  /\ NoWrite
  /\ UNCHANGED now

GetRunning(r) ==
  /\ Enters(r)
  /\ \/ \E e \in RunningOf(user[r]) : Show(r, {entries[e]})
     \/ RunningOf(user[r]) = {} /\ Show(r, {})
  /\ NoWrite
  /\ UNCHANGED now

-----------------------------------------------------------------------------
PostProject(r) ==
  /\ Enters(r)
  /\ \E p \in ProjectIds \ issued, name, color \in Texts :
       /\ SetProject(r, p, [userId |-> user[r], name |-> name, color |-> color])
       /\ issued' = issued \cup {p}
       /\ Answer(r, 200, {user[r]})
  /\ UNCHANGED now

PatchProject(r) ==
  /\ Enters(r)
  /\ \E p \in ProjectIds, in \in PatchInput :
       IF Owned(projects[p], user[r])
       THEN Goto(r, "patching", in, [id |-> p, row |-> projects[p]])
       ELSE Answer(r, 404, {})
  /\ NoWrite
  /\ UNCHANGED now

Patched(row, in) ==
  [row EXCEPT !.name = IF in.name = Null THEN @ ELSE in.name,
              !.color = IF in.color = Null THEN @ ELSE in.color]

UpdateProject(r) ==
  /\ pc[r] = "patching"
  /\ SetProject(r, read[r].id, Patched(read[r].row, input[r]))
  /\ Answer(r, 200, {read[r].row.userId})
  /\ UNCHANGED <<issued, now>>

DeleteProject(r) ==
  /\ Enters(r)
  /\ \E p \in ProjectIds :
       IF Deletable(projects[p], user[r])
       THEN SetProject(r, p, Null) /\ Answer(r, 200, {}) /\ UNCHANGED issued
       ELSE Answer(r, 404, {}) /\ NoWrite
  /\ UNCHANGED now

-----------------------------------------------------------------------------
(* start() looks for a running timer and then for the project.             *)
Bug_NoConflict(u) == TRUE
NoneRunning(u) == RunningOf(u) = {}

StartTimer(r) ==
  /\ Enters(r)
  /\ \E p \in ProjectIds \cup {Null} :
       IF NoneRunning(user[r])
       THEN Goto(r, "starting", [projectId |-> p, startedAt |-> Null, stoppedAt |-> Null], Null)
       ELSE Answer(r, 409, {entries[e].userId : e \in RunningOf(user[r])})
  /\ NoWrite
  /\ UNCHANGED now

(* assertProject.                                                          *)
CheckProject(r, in) ==
  IF ProjectAllowed(in.projectId, user[r]) THEN Goto(r, "inserting", in, Null)
  ELSE Answer(r, 400, {})

FindProject(r) ==
  /\ pc[r] = "starting"
  /\ CheckProject(r, input[r])
  /\ NoWrite
  /\ UNCHANGED now

(* create(), whose times have to be in order.                              *)
PostEntry(r) ==
  /\ Enters(r)
  /\ \E p \in ProjectIds \cup {Null}, from, to \in Times :
       IF to <= from THEN Answer(r, 400, {})
       ELSE CheckProject(r, [projectId |-> p, startedAt |-> from, stoppedAt |-> to])
  /\ NoWrite
  /\ UNCHANGED now

InsertEntry(r) ==
  /\ pc[r] = "inserting"
  /\ \E e \in EntryIds \ issued :
       LET row == [userId |-> user[r], projectId |-> input[r].projectId,
                   startedAt |-> IF input[r].startedAt = Null THEN now ELSE input[r].startedAt,
                   stoppedAt |-> input[r].stoppedAt]
       IN  /\ SetEntry(r, e, row)
           /\ issued' = issued \cup {e}
           /\ Show(r, {row})
  /\ UNCHANGED now

(* stop() of the timer that is given, or of the running one.               *)
StopTimer(r) ==
  /\ Enters(r)
  /\ \/ \E e \in Stored(entries) :
          IF Stoppable(entries[e], user[r])
          THEN Goto(r, "stopping", Null, [id |-> e, row |-> entries[e]])
          ELSE Answer(r, IF Owned(entries[e], user[r]) THEN 409 ELSE 404, {})
     \/ /\ EntryIds \ Stored(entries) # {} \/ RunningOf(user[r]) = {}
        /\ Answer(r, 404, {})
  /\ NoWrite
  /\ UNCHANGED now

UpdateEntry(r) ==
  /\ pc[r] = "stopping"
  /\ LET row == [read[r].row EXCEPT !.stoppedAt = now]
     IN  SetEntry(r, read[r].id, row) /\ Show(r, {row})
  /\ UNCHANGED <<issued, now>>

DeleteEntry(r) ==
  /\ Enters(r)
  /\ \E e \in EntryIds :
       IF Deletable(entries[e], user[r])
       THEN SetEntry(r, e, Null) /\ Answer(r, 200, {}) /\ UNCHANGED issued
       ELSE Answer(r, 404, {}) /\ NoWrite
  /\ UNCHANGED now

Tick ==
  /\ now < MaxTime
  /\ now' = now + 1
  /\ UNCHANGED <<dbVars, localVars, ghostVars>>

Serve(r) ==
  \/ Arrive(r) \/ PostToken(r) \/ RequireAuth(r) \/ Invalid(r)
  \/ GetPage(r) \/ GetMe(r) \/ GetProjects(r) \/ GetEntries(r) \/ GetRunning(r)
  \/ PostProject(r) \/ PatchProject(r) \/ UpdateProject(r) \/ DeleteProject(r)
  \/ StartTimer(r) \/ FindProject(r) \/ PostEntry(r) \/ InsertEntry(r)
  \/ StopTimer(r) \/ UpdateEntry(r) \/ DeleteEntry(r)

Next == Tick \/ \E r \in Requests : Serve(r)

Spec == Init /\ [][Next]_vars

-----------------------------------------------------------------------------
(* Types.  What is stored has an id that was given out, the row that a     *)
(* request keeps in order to write it back is one of its own caller, and a *)
(* request writes once at most.                                            *)
TimersTypeOK ==
  /\ tokens \in [Tokens -> Users \cup {Null}]
  /\ projects \in [ProjectIds -> Project \cup {Null}]
  /\ entries \in [EntryIds -> Entry \cup {Null}]
  /\ demoAuth \in BOOLEAN
  /\ issued \subseteq Tokens \cup ProjectIds \cup EntryIds
  /\ Stored(tokens) \cup Stored(projects) \cup Stored(entries) \subseteq issued
  /\ now \in 0 .. MaxTime
  /\ pc \in [Requests -> Places]
  /\ user \in [Requests -> Users \cup {Null}]
  /\ reply \in [Requests -> Reply]
  /\ \A r \in Requests :
       /\ pc[r] \in {"idle", "ready", "answered"} => input[r] = Null /\ read[r] = Null
       /\ pc[r] \in {"starting", "inserting"} => input[r] \in EntryInput /\ read[r] = Null
       /\ pc[r] = "patching" => /\ input[r] \in PatchInput
                                /\ read[r] \in [id : ProjectIds \cap issued, row : Project]
       /\ pc[r] = "stopping" => /\ input[r] = Null
                                /\ read[r] \in [id : EntryIds \cap issued, row : Entry]
       /\ pc[r] \in {"patching", "stopping"} => read[r].row.userId = user[r]
  /\ stale \subseteq Requests
  /\ writes \in [Requests -> 0 .. 1]

(* Tenants are kept apart, whatever requests overlap: an answer shows only *)
(* rows of the caller, a step only changes rows of its caller, which stay  *)
(* the caller's, and an entry never gets to a project of somebody else     *)
(* (entries-service.ts, projects-service.ts: userId !== userId).           *)
OwnRow(row, u) == row = Null \/ row.userId = u
ChangesOwn(map, e) ==
  map'[e] # map[e] =>
    \E r \in Requests : /\ pc'[r] # pc[r]
                        /\ OwnRow(map[e], user[r]) /\ OwnRow(map'[e], user[r])
ShowsOwn(r) == reply'[r].owners \subseteq {user'[r]}
OneOwner == \E owner \in [ProjectIds -> Users] : OwnedBy(owner, entries, projects)
TenantsApart ==
  [][/\ \A r \in Requests : ShowsOwn(r)
     /\ \A e \in EntryIds : ChangesOwn(entries, e)
     /\ \A p \in ProjectIds : ChangesOwn(projects, p)
     /\ OneOwner']_vars

(* README.md of the example: one running timer per user.  start() looks    *)
(* for a running one and inserts two awaits later, so a user who has one   *)
(* running gets another only if a start of theirs was answered in between. *)
BeginsAlone(e) ==
  entries[e] = Null /\ entries'[e] # Null /\ Running(entries'[e]) =>
    \/ RunningOf(entries'[e].userId) = {}
    \/ \E r \in stale : Starts(r) /\ pc'[r] = "answered" /\ user[r] = entries'[e].userId
OneTimerUnlessOverlap == [][\A e \in EntryIds : BeginsAlone(e)]_vars

(* What was answered lasts: a timer that was stopped keeps its end, and a  *)
(* row that was deleted does not come back.  Only a request that read the  *)
(* row before (stop, PATCH /projects/:id) may still write its copy.        *)
WritesNoCopy(r) ==
  writes'[r] # writes[r] =>
    /\ \A e \in EntryIds \cap issued :
         entries'[e] \in {entries[e], Null} \/ (entries[e] # Null /\ Running(entries[e]))
    /\ \A p \in ProjectIds \cap issued :
         projects'[p] \in {projects[p], Null} \/ projects[p] # Null
ChangesLast == [][\A r \in Requests \ stale : WritesNoCopy(r)]_vars

(* A request answered with an error has changed nothing: every test comes  *)
(* before the write.  The output is parsed after it, though (route.ts),    *)
(* and refuses a duration that is no safe integer: an entry from the far   *)
(* past to the far future is stored and answered 500, and then every list  *)
(* that has it is.  A request writes once at most (TimersTypeOK), in the   *)
(* step that answers it, which is the one judged here.                     *)
TooLong(row) == ~Running(row) /\ row.stoppedAt - row.startedAt > MaxSafe
LeavesNothing(r) ==
  reply'[r] # reply[r] /\ reply'[r].status # 200 =>
    \/ reply'[r].status # 500 /\ UNCHANGED <<tokens, projects, entries>>
    \/ /\ reply'[r].status = 500
       /\ \E e \in Stored(entries') : /\ entries'[e].userId = user[r]
                                      /\ TooLong(entries'[e])
                                      /\ \A x \in EntryIds \ {e} : entries'[x] = entries[x]
       /\ UNCHANGED <<tokens, projects>>
ErrorsChangeNothing == [][\A r \in Requests : LeavesNothing(r)]_vars
=============================================================================
