------------------------- MODULE TimeTracking_proofs -------------------------
(***************************************************************************)
(* Proofs about TimeTracking, for any requests, users, ids and times.      *)
(*                                                                         *)
(* A request that has tested an owner and has not written yet holds a      *)
(* claim: Held says that there is one owner of every id ever issued with   *)
(* whom all the rows and all the claims agree.  That is what keeps tenants *)
(* apart although a row may be deleted and written again between a test    *)
(* and the write that relies on it.  GhostInv is the other half: what a    *)
(* request has read still stands, unless another has written it since.     *)
(***************************************************************************)
EXTENDS TimeTracking, TLAPS

DbInv ==
  /\ tokens \in [Tokens -> Users \cup {Null}]
  /\ projects \in [ProjectIds -> Project \cup {Null}]
  /\ entries \in [EntryIds -> Entry \cup {Null}]
  /\ demoAuth \in BOOLEAN
  /\ issued \subseteq Tokens \cup ProjectIds \cup EntryIds
  /\ Stored(tokens) \cup Stored(projects) \cup Stored(entries) \subseteq issued
  /\ now \in 0 .. MaxTime
  /\ \A e \in Stored(entries) :
       /\ entries[e].projectId \in issued \cup {Null}
       /\ Running(entries[e]) => entries[e].startedAt >= 0

(* What a request has in hand at a place, for a user and the ids issued.   *)
InHand(place, in, found, u, ids) ==
  /\ place \in {"idle", "ready", "answered"} => in = Null /\ found = Null
  /\ place \in {"starting", "inserting"} =>
       /\ in \in EntryInput /\ found = Null /\ u \in Users
       /\ in.startedAt = Null <=> in.stoppedAt = Null
  /\ place = "inserting" => in.projectId \in ids \cup {Null}
  /\ place = "patching" =>
       /\ in \in PatchInput /\ u \in Users
       /\ found \in [id : ProjectIds \cap ids, row : Project]
  /\ place = "stopping" =>
       /\ in = Null /\ u \in Users
       /\ found \in [id : EntryIds \cap ids, row : Entry]
       /\ found.row.projectId \in ids \cup {Null}
       /\ Running(found.row) /\ found.row.startedAt >= 0

LocalInv ==
  /\ pc \in [Requests -> Places]
  /\ user \in [Requests -> Users \cup {Null}]
  /\ DOMAIN input = Requests /\ DOMAIN read = Requests
  /\ reply \in [Requests -> Reply]
  /\ \A r \in Requests :
       /\ InHand(pc[r], input[r], read[r], user[r], issued)
       /\ reply[r].owners \subseteq {user[r]}
       /\ pc[r] = "idle" => reply[r].owners = {}

(* What it has in hand is still what the Maps hold.                        *)
Fresh(place, in, found, u) ==
  /\ place \in {"starting", "inserting"} /\ in.startedAt = Null => RunningOf(u) = {}
  /\ place = "stopping" => entries[found.id] = found.row
  /\ place = "patching" => projects[found.id] = found.row

GhostInv ==
  /\ stale \subseteq Requests
  /\ writes \in [Requests -> 0 .. 1]
  /\ \A r \in Requests : pc[r] # "answered" => writes[r] = 0
  /\ \A r \in Requests \ stale : Fresh(pc[r], input[r], read[r], user[r])

(* What it has in hand is its user's, by the owners of projects, po, and   *)
(* of entries, eo.                                                         *)
Claim(place, in, found, u, po, eo) ==
  /\ place = "inserting" /\ in.projectId # Null => po[in.projectId] = u
  /\ place = "patching" => found.row.userId = u /\ po[found.id] = u
  /\ place = "stopping" =>
       /\ found.row.userId = u /\ eo[found.id] = u
       /\ found.row.projectId # Null => po[found.row.projectId] = u

Held(po, eo) ==
  /\ po \in [ProjectIds -> Users] /\ eo \in [EntryIds -> Users \cup {Null}]
  /\ OwnedBy(po, entries, projects)
  /\ \A e \in Stored(entries) : entries[e].userId = eo[e]
  /\ \A r \in Requests : Claim(pc[r], input[r], read[r], user[r], po, eo)

HeldInv == \E po, eo : Held(po, eo)

IInv == DbInv /\ LocalInv /\ GhostInv /\ HeldInv

-----------------------------------------------------------------------------
(* The kinds of step that a request takes: it arrives, goes on to another  *)
(* place, is answered, or is answered and has written.                     *)
ComesIn(r) ==
  /\ pc[r] = "idle"
  /\ pc' = [pc EXCEPT ![r] = "ready"]
  /\ \E u \in Users \cup {Null} : user' = [user EXCEPT ![r] = u]
  /\ UNCHANGED <<input, read, reply, dbVars, ghostVars, now>>

GoesOn(r, place, in, found, po, eo) ==
  /\ pc[r] \in {"ready", "starting"} /\ place \in Places \ {"idle", "answered"}
  /\ Goto(r, place, in, found)
  /\ InHand(place, in, found, user[r], issued)
  /\ Claim(place, in, found, user[r], po, eo)
  /\ r \notin stale => Fresh(place, in, found, user[r])
  /\ UNCHANGED <<dbVars, ghostVars, now>>

Ends(r) ==
  /\ pc[r] # "answered"
  /\ \E status \in {200, 400, 401, 403, 404, 409, 500}, owners \in SUBSET Users :
       owners \subseteq {user[r]} /\ Answer(r, status, owners)
  /\ UNCHANGED now

WritesToken(r, t, u) ==
  /\ pc[r] # "answered"
  /\ t \in Tokens /\ u \in Users
  /\ tokens' = [tokens EXCEPT ![t] = u]
  /\ issued' = issued \cup {t}
  /\ writes' = [writes EXCEPT ![r] = @ + 1]
  /\ UNCHANGED <<projects, entries, demoAuth, stale>>

WritesEntry(r, e, row, po, eo) ==
  /\ pc[r] # "answered" /\ user[r] \in Users
  /\ e \in EntryIds /\ issued' = issued \cup {e}
  /\ SetEntry(r, e, row)
  /\ e \in issued => eo[e] = user[r]
  /\ row # Null =>
       /\ row \in Entry /\ row.userId = user[r]
       /\ row.projectId \in issued \cup {Null}
       /\ row.projectId # Null => po[row.projectId] = user[r]
       /\ Running(row) => row.startedAt >= 0
       /\ \/ e \notin issued /\ pc[r] = "inserting" /\ (Running(row) => Starts(r))
          \/ e = read[r].id /\ pc[r] = "stopping" /\ ~Running(row)

WritesProject(r, p, row, po) ==
  /\ pc[r] # "answered" /\ user[r] \in Users
  /\ p \in ProjectIds /\ issued' = issued \cup {p}
  /\ SetProject(r, p, row)
  /\ p \in issued => po[p] = user[r]
  /\ row # Null => /\ row \in Project /\ row.userId = user[r]
                   /\ p \notin issued \/ (p = read[r].id /\ pc[r] = "patching")

Steps(r, po, eo) ==
  \/ ComesIn(r)
  \/ \E place, in, found : GoesOn(r, place, in, found, po, eo)
  \/ Ends(r) /\ NoWrite
  \/ Ends(r) /\ \E t, u : WritesToken(r, t, u)
  \/ Ends(r) /\ \E e, row : WritesEntry(r, e, row, po, eo)
  \/ Ends(r) /\ \E p, row : WritesProject(r, p, row, po)

-----------------------------------------------------------------------------
(* Null is no value of any kind.                                           *)
LEMMA NullIsNone ==
  Null \notin Int /\ Null \notin Users /\ Null \notin ProjectIds /\ Null \notin Entry
  /\ Null \notin Project /\ Null \notin EntryInput
  BY NullAssumption

(* What is in hand stays so when more ids are issued.                      *)
LEMMA MoreIssued ==
  ASSUME NEW place, NEW in, NEW found, NEW u, NEW ids, NEW more,
         InHand(place, in, found, u, ids), ids \subseteq more
  PROVE  InHand(place, in, found, u, more)
  BY DEF InHand

(* The next places of a request that goes on.                              *)
LEMMA GoesOnLocal ==
  ASSUME LocalInv, NEW r \in Requests, NEW place \in Places \ {"idle", "answered"},
         NEW in, NEW found, Goto(r, place, in, found),
         InHand(place, in, found, user[r], issued), UNCHANGED issued
  PROVE  /\ LocalInv'
         /\ pc'[r] = place /\ input'[r] = in /\ read'[r] = found
         /\ UNCHANGED user
         /\ \A s \in Requests \ {r} :
              pc'[s] = pc[s] /\ input'[s] = input[s] /\ read'[s] = read[s]
  <1>1. /\ pc' \in [Requests -> Places] /\ DOMAIN input' = Requests /\ DOMAIN read' = Requests
        /\ pc'[r] = place /\ input'[r] = in /\ read'[r] = found
        /\ user' = user /\ reply' = reply
        /\ \A s \in Requests \ {r} :
             pc'[s] = pc[s] /\ input'[s] = input[s] /\ read'[s] = read[s]
    BY DEF Goto, LocalInv
  <1>2. \A s \in Requests : InHand(pc'[s], input'[s], read'[s], user'[s], issued')
    BY <1>1 DEF LocalInv
  <1>. QED
    BY <1>1, <1>2 DEF LocalInv

(* One that is answered.                                                   *)
LEMMA EndsLocal ==
  ASSUME LocalInv, NEW r \in Requests, Ends(r), issued \subseteq issued'
  PROVE  /\ LocalInv'
         /\ pc'[r] = "answered" /\ UNCHANGED user
         /\ \A s \in Requests \ {r} :
              pc'[s] = pc[s] /\ input'[s] = input[s] /\ read'[s] = read[s]
  <1>1. PICK status \in {200, 400, 401, 403, 404, 409, 500}, owners \in SUBSET Users :
               owners \subseteq {user[r]} /\ Answer(r, status, owners)
    BY DEF Ends
  <1>2. [status |-> status, owners |-> owners] \in Reply
    BY DEF Reply
  <1>3. /\ pc' \in [Requests -> Places] /\ DOMAIN input' = Requests /\ DOMAIN read' = Requests
        /\ pc'[r] = "answered" /\ input'[r] = Null /\ read'[r] = Null /\ user' = user
        /\ \A s \in Requests \ {r} :
             pc'[s] = pc[s] /\ input'[s] = input[s] /\ read'[s] = read[s]
    BY <1>1 DEF Answer, LocalInv, Places
  <1>4. /\ reply' \in [Requests -> Reply] /\ reply'[r].owners = owners
        /\ \A s \in Requests \ {r} : reply'[s] = reply[s]
    BY <1>1, <1>2 DEF Answer, LocalInv
  <1>5. InHand(pc'[r], input'[r], read'[r], user'[r], issued')
    BY <1>3 DEF InHand
  <1>6. \A s \in Requests : InHand(pc'[s], input'[s], read'[s], user'[s], issued')
    BY <1>3, <1>5, MoreIssued DEF LocalInv
  <1>. QED
    BY <1>1, <1>3, <1>4, <1>6 DEF LocalInv

-----------------------------------------------------------------------------
(* A request comes in.                                                     *)
LEMMA ComesInIInv ==
  ASSUME IInv, NEW r \in Requests, ComesIn(r)
  PROVE  IInv'
  <1>1. PICK u \in Users \cup {Null} : user' = [user EXCEPT ![r] = u]
    BY DEF ComesIn
  <1>2. /\ pc[r] = "idle" /\ pc' = [pc EXCEPT ![r] = "ready"]
        /\ UNCHANGED <<input, read, reply, dbVars, ghostVars, now>>
    BY DEF ComesIn
  <1>3. /\ pc' \in [Requests -> Places] /\ pc'[r] = "ready"
        /\ \A s \in Requests \ {r} : pc'[s] = pc[s] /\ user'[s] = user[s]
        /\ user' \in [Requests -> Users \cup {Null}]
    BY <1>1, <1>2 DEF IInv, LocalInv, Places
  <1>4. DbInv'
    BY <1>2 DEF IInv, DbInv, dbVars, Stored
  <1>5. LocalInv'
    <2>1. input[r] = Null /\ read[r] = Null
      BY <1>2 DEF IInv, LocalInv, InHand
    <2>2. InHand(pc'[r], input'[r], read'[r], user'[r], issued')
      BY <1>2, <1>3, <2>1 DEF InHand
    <2>3. \A s \in Requests : InHand(pc'[s], input'[s], read'[s], user'[s], issued')
      BY <1>2, <1>3, <2>2 DEF IInv, LocalInv, dbVars
    <2>. QED
      BY <1>2, <1>3, <2>3 DEF IInv, LocalInv
  <1>6. GhostInv'
    <2>1. UNCHANGED <<entries, projects, stale, writes, input, read>>
      BY <1>2 DEF dbVars, ghostVars
    <2>2. ASSUME NEW s \in Requests \ stale'
          PROVE  Fresh(pc[s], input[s], read[s], user[s])'
      <3>1. CASE s = r
        BY <1>3, <3>1 DEF Fresh
      <3>2. CASE s # r
        BY <1>3, <2>1, <3>2 DEF IInv, GhostInv, Fresh, RunningOf, Stored
      <3>. QED
        BY <3>1, <3>2
    <2>. QED
      BY <1>2, <1>3, <2>1, <2>2 DEF IInv, GhostInv
  <1>7. HeldInv'
    <2>1. PICK po, eo : Held(po, eo)
      BY DEF IInv, HeldInv
    <2>2. UNCHANGED <<entries, projects, input, read>>
      BY <1>2 DEF dbVars
    <2>3. \A s \in Requests : Claim(pc'[s], input'[s], read'[s], user'[s], po, eo)
      BY <1>3, <2>1, <2>2 DEF Held, Claim
    <2>4. Held(po, eo)'
      BY <2>1, <2>2, <2>3 DEF Held, OwnedBy, Stored
    <2>. QED
      BY <2>4 DEF HeldInv
  <1>. QED
    BY <1>4, <1>5, <1>6, <1>7 DEF IInv

(* It goes on.                                                             *)
LEMMA GoesOnIInv ==
  ASSUME IInv, NEW po, NEW eo, Held(po, eo), NEW r \in Requests,
         NEW place, NEW in, NEW found, GoesOn(r, place, in, found, po, eo)
  PROVE  IInv'
  <1>1. /\ UNCHANGED <<tokens, projects, entries, issued, demoAuth, stale, writes, now>>
        /\ pc[r] # "answered"
    BY DEF GoesOn, dbVars, ghostVars
  <1>2. /\ LocalInv'
        /\ pc'[r] = place /\ input'[r] = in /\ read'[r] = found
        /\ UNCHANGED user
        /\ \A s \in Requests \ {r} :
             pc'[s] = pc[s] /\ input'[s] = input[s] /\ read'[s] = read[s]
    BY <1>1, GoesOnLocal DEF GoesOn, IInv
  <1>3. DbInv'
    BY <1>1 DEF IInv, DbInv, Stored
  <1>4. GhostInv'
    <2>1. ASSUME NEW s \in Requests \ stale'
          PROVE  Fresh(pc[s], input[s], read[s], user[s])'
      <3>1. Fresh(pc'[s], input'[s], read'[s], user'[s])
        <4>1. CASE s = r
          BY <1>1, <1>2, <2>1, <4>1 DEF GoesOn
        <4>2. CASE s # r
          BY <1>1, <1>2, <2>1, <4>2 DEF IInv, GhostInv
        <4>. QED
          BY <4>1, <4>2
      <3>. QED
        BY <1>1, <3>1 DEF Fresh, RunningOf, Stored
    <2>. QED
      BY <1>1, <1>2, <2>1 DEF IInv, GhostInv
  <1>5. HeldInv'
    <2>1. \A s \in Requests : Claim(pc'[s], input'[s], read'[s], user'[s], po, eo)
      BY <1>2 DEF Held, GoesOn
    <2>2. Held(po, eo)'
      BY <1>1, <2>1 DEF Held, OwnedBy, Stored
    <2>. QED
      BY <2>2 DEF HeldInv
  <1>. QED
    BY <1>2, <1>3, <1>4, <1>5 DEF IInv

(* It is answered, and nothing is written.                                 *)
LEMMA EndsIInv ==
  ASSUME IInv, NEW r \in Requests, Ends(r), NoWrite
  PROVE  IInv'
  <1>1. UNCHANGED <<tokens, projects, entries, issued, demoAuth, stale, writes, now>>
    BY DEF Ends, NoWrite, dbVars, ghostVars
  <1>2. /\ LocalInv'
        /\ pc'[r] = "answered" /\ UNCHANGED user
        /\ \A s \in Requests \ {r} :
             pc'[s] = pc[s] /\ input'[s] = input[s] /\ read'[s] = read[s]
    BY <1>1, EndsLocal DEF IInv
  <1>3. DbInv'
    BY <1>1 DEF IInv, DbInv, Stored
  <1>4. GhostInv'
    <2>1. ASSUME NEW s \in Requests \ stale'
          PROVE  Fresh(pc[s], input[s], read[s], user[s])'
      BY <1>1, <1>2, <2>1 DEF IInv, GhostInv, Fresh, RunningOf, Stored
    <2>. QED
      BY <1>1, <1>2, <2>1 DEF IInv, GhostInv
  <1>5. HeldInv'
    <2>1. PICK po, eo : Held(po, eo)
      BY DEF IInv, HeldInv
    <2>2. \A s \in Requests : Claim(pc'[s], input'[s], read'[s], user'[s], po, eo)
      BY <1>2, <2>1 DEF Held, Claim
    <2>3. Held(po, eo)'
      BY <1>1, <2>1, <2>2 DEF Held, OwnedBy, Stored
    <2>. QED
      BY <2>3 DEF HeldInv
  <1>. QED
    BY <1>2, <1>3, <1>4, <1>5 DEF IInv

(* A write counts once.                                                    *)
LEMMA CountsOnce ==
  ASSUME GhostInv, LocalInv, NEW r \in Requests, pc[r] # "answered",
         pc'[r] = "answered", \A s \in Requests \ {r} : pc'[s] = pc[s],
         writes' = [writes EXCEPT ![r] = @ + 1]
  PROVE  /\ writes' \in [Requests -> 0 .. 1]
         /\ \A s \in Requests : pc'[s] # "answered" => writes'[s] = 0
  <1>1. writes[r] = 0 /\ writes \in [Requests -> 0 .. 1]
    BY DEF GhostInv
  <1>2. writes' = [writes EXCEPT ![r] = 1]
    BY <1>1
  <1>. QED
    BY <1>1, <1>2 DEF GhostInv

(* It is given a token.                                                    *)
LEMMA WritesTokenIInv ==
  ASSUME IInv, NEW r \in Requests, Ends(r), NEW t, NEW u, WritesToken(r, t, u)
  PROVE  IInv'
  <1>1. /\ UNCHANGED <<projects, entries, demoAuth, stale, now>>
        /\ issued' = issued \cup {t} /\ pc[r] # "answered"
    BY DEF Ends, WritesToken
  <1>2. /\ LocalInv'
        /\ pc'[r] = "answered" /\ UNCHANGED user
        /\ \A s \in Requests \ {r} :
             pc'[s] = pc[s] /\ input'[s] = input[s] /\ read'[s] = read[s]
    BY <1>1, EndsLocal DEF IInv
  <1>3. DbInv'
    <2>1. tokens' \in [Tokens -> Users \cup {Null}] /\ Stored(tokens)' \subseteq Stored(tokens) \cup {t}
      BY DEF WritesToken, IInv, DbInv, Stored
    <2>. QED
      BY <1>1, <2>1 DEF WritesToken, IInv, DbInv, Stored
  <1>4. GhostInv'
    <2>1. ASSUME NEW s \in Requests \ stale'
          PROVE  Fresh(pc[s], input[s], read[s], user[s])'
      BY <1>1, <1>2, <2>1 DEF IInv, GhostInv, Fresh, RunningOf, Stored
    <2>2. /\ writes' \in [Requests -> 0 .. 1]
          /\ \A s \in Requests : pc'[s] # "answered" => writes'[s] = 0
      BY <1>1, <1>2, CountsOnce DEF WritesToken, IInv
    <2>. QED
      BY <1>1, <2>1, <2>2 DEF IInv, GhostInv
  <1>5. HeldInv'
    <2>1. PICK po, eo : Held(po, eo)
      BY DEF IInv, HeldInv
    <2>2. \A s \in Requests : Claim(pc'[s], input'[s], read'[s], user'[s], po, eo)
      BY <1>2, <2>1 DEF Held, Claim
    <2>3. Held(po, eo)'
      BY <1>1, <2>1, <2>2 DEF Held, OwnedBy, Stored
    <2>. QED
      BY <2>3 DEF HeldInv
  <1>. QED
    BY <1>2, <1>3, <1>4, <1>5 DEF IInv

(* It writes an entry.  Its id is new, or one that the caller owns.        *)
LEMMA WritesEntryIInv ==
  ASSUME IInv, NEW po, NEW eo, Held(po, eo), NEW r \in Requests, Ends(r),
         NEW e, NEW row, WritesEntry(r, e, row, po, eo)
  PROVE  IInv'
  <1>1. /\ UNCHANGED <<tokens, projects, demoAuth, now>>
        /\ issued' = issued \cup {e} /\ e \in EntryIds
        /\ entries' = [entries EXCEPT ![e] = row]
        /\ pc[r] # "answered" /\ user[r] \in Users
    BY DEF Ends, WritesEntry, SetEntry
  <1>2. /\ LocalInv'
        /\ pc'[r] = "answered" /\ UNCHANGED user
        /\ \A s \in Requests \ {r} :
             pc'[s] = pc[s] /\ input'[s] = input[s] /\ read'[s] = read[s]
    BY <1>1, EndsLocal DEF IInv
  <1>3. /\ row \in Entry \cup {Null}
        /\ row # Null => /\ row.userId = user[r]
                         /\ row.projectId \in issued \cup {Null}
                         /\ row.projectId # Null => po[row.projectId] = user[r]
                         /\ Running(row) => row.startedAt >= 0
    BY DEF WritesEntry
  <1>4. /\ entries' \in [EntryIds -> Entry \cup {Null}] /\ entries'[e] = row
        /\ \A x \in EntryIds \ {e} : entries'[x] = entries[x]
    BY <1>1, <1>3 DEF IInv, DbInv
  <1>5. \A x \in Stored(entries)' : x \in EntryIds /\ (x = e => row # Null)
                                    /\ (x # e => x \in Stored(entries) /\ entries'[x] = entries[x])
    BY <1>4 DEF Stored, IInv, DbInv
  <1>6. DbInv'
    <2>1. Stored(entries)' \subseteq issued'
      BY <1>1, <1>5 DEF IInv, DbInv
    <2>2. \A x \in Stored(entries)' : /\ entries'[x].projectId \in issued' \cup {Null}
                                      /\ Running(entries'[x]) => entries'[x].startedAt >= 0
      BY <1>1, <1>3, <1>4, <1>5 DEF IInv, DbInv
    <2>3. Stored(tokens)' = Stored(tokens) /\ Stored(projects)' = Stored(projects)
      BY <1>1 DEF Stored
    <2>4. /\ UNCHANGED <<tokens, projects, demoAuth, now>>
          /\ issued' \subseteq Tokens \cup ProjectIds \cup EntryIds
          /\ Stored(tokens)' \cup Stored(projects)' \cup Stored(entries)' \subseteq issued'
      BY <1>1, <2>1, <2>3 DEF IInv, DbInv
    <2>. QED
      BY <1>4, <2>2, <2>4 DEF IInv, DbInv
  <1>7. GhostInv'
    <2>. DEFINE relying == {s \in Requests :
                             \/ pc[s] = "stopping" /\ read[s].id = e
                             \/ Starts(s) /\ user[s] = user[r] /\ row # Null /\ Running(row)}
    <2>1. stale' = (stale \ {r}) \cup (relying \ {r}) /\ writes' = [writes EXCEPT ![r] = @ + 1]
      BY DEF WritesEntry, SetEntry, Wrote
    <2>2. ASSUME NEW s \in Requests \ stale'
          PROVE  Fresh(pc[s], input[s], read[s], user[s])'
      <3>1. CASE s = r
        BY <1>2, <3>1 DEF Fresh
      <3>2. CASE s # r
        <4>1. s \notin relying /\ s \notin stale
          BY <2>1, <3>2
        <4>2. Fresh(pc[s], input[s], read[s], user[s])
          BY <4>1 DEF IInv, GhostInv
        <4>3. /\ pc'[s] = pc[s] /\ input'[s] = input[s] /\ read'[s] = read[s]
              /\ user'[s] = user[s]
          BY <1>2, <3>2
        <4>4. ASSUME pc[s] \in {"starting", "inserting"}, input[s].startedAt = Null
              PROVE  RunningOf(user[s])' = {}
          <5>1. RunningOf(user[s]) = {} /\ ~(user[s] = user[r] /\ row # Null /\ Running(row))
            BY <4>1, <4>2, <4>4 DEF Fresh, Starts
          <5>. QED
            BY <1>2, <1>3, <1>4, <1>5, <5>1 DEF RunningOf
        <4>5. ASSUME pc[s] = "stopping"
              PROVE  entries'[read[s].id] = read[s].row
          <5>1. read[s].id # e /\ read[s].id \in EntryIds
            BY <4>1, <4>5 DEF IInv, LocalInv, InHand
          <5>. QED
            BY <1>4, <4>2, <4>5, <5>1 DEF Fresh
        <4>6. pc[s] = "patching" => projects'[read[s].id] = read[s].row
          BY <1>1, <4>2 DEF Fresh
        <4>. QED
          BY <4>3, <4>4, <4>5, <4>6 DEF Fresh
      <3>. QED
        BY <3>1, <3>2
    <2>3. stale' \subseteq Requests
      BY <2>1 DEF IInv, GhostInv
    <2>4. /\ writes' \in [Requests -> 0 .. 1]
          /\ \A s \in Requests : pc'[s] # "answered" => writes'[s] = 0
      BY <1>1, <1>2, <2>1, CountsOnce DEF IInv
    <2>. QED
      BY <2>2, <2>3, <2>4 DEF GhostInv
  <1>8. HeldInv'
    <2>0. PICK eo2 : eo2 = [eo EXCEPT ![e] = user[r]]
      OBVIOUS
    <2>1. /\ eo2 \in [EntryIds -> Users \cup {Null}] /\ eo2[e] = user[r]
          /\ \A x \in EntryIds \ {e} : eo2[x] = eo[x]
          /\ \A x \in EntryIds \cap issued : eo2[x] = eo[x]
      BY <1>1, <2>0 DEF Held, WritesEntry
    <2>2. ASSUME NEW s \in Requests
          PROVE  Claim(pc'[s], input'[s], read'[s], user'[s], po, eo2)
      <3>1. CASE s = r
        BY <1>2, <3>1 DEF Claim
      <3>2. CASE s # r
        <4>1. Claim(pc[s], input[s], read[s], user[s], po, eo)
          BY DEF Held
        <4>2. pc[s] = "stopping" => read[s].id \in EntryIds \cap issued
          BY DEF IInv, LocalInv, InHand
        <4>3. Claim(pc[s], input[s], read[s], user[s], po, eo2)
          BY <2>1, <4>1, <4>2 DEF Claim
        <4>. QED
          BY <1>2, <3>2, <4>3
      <3>. QED
        BY <3>1, <3>2
    <2>3. OwnedBy(po, entries', projects')
      <3>1. \A x \in Stored(entries)' :
              entries'[x].projectId # Null => entries'[x].userId = po[entries'[x].projectId]
        BY <1>3, <1>4, <1>5 DEF Held, OwnedBy, Stored
      <3>. QED
        BY <1>1, <3>1 DEF Held, OwnedBy, Stored
    <2>4. \A x \in Stored(entries)' : entries'[x].userId = eo2[x]
      BY <1>3, <1>4, <1>5, <2>1 DEF Held
    <2>5. po \in [ProjectIds -> Users]
      BY DEF Held
    <2>6. Held(po, eo2)'
      BY <2>1, <2>2, <2>3, <2>4, <2>5 DEF Held
    <2>. QED
      BY <2>6 DEF HeldInv
  <1>. QED
    BY <1>2, <1>6, <1>7, <1>8 DEF IInv

(* It writes a project.                                                    *)
LEMMA WritesProjectIInv ==
  ASSUME IInv, NEW po, NEW eo, Held(po, eo), NEW r \in Requests, Ends(r),
         NEW p, NEW row, WritesProject(r, p, row, po)
  PROVE  IInv'
  <1>1. /\ UNCHANGED <<tokens, entries, demoAuth, now>>
        /\ issued' = issued \cup {p} /\ p \in ProjectIds
        /\ projects' = [projects EXCEPT ![p] = row]
        /\ pc[r] # "answered" /\ user[r] \in Users
    BY DEF Ends, WritesProject, SetProject
  <1>2. /\ LocalInv'
        /\ pc'[r] = "answered" /\ UNCHANGED user
        /\ \A s \in Requests \ {r} :
             pc'[s] = pc[s] /\ input'[s] = input[s] /\ read'[s] = read[s]
    BY <1>1, EndsLocal DEF IInv
  <1>3. row \in Project \cup {Null} /\ (row # Null => row.userId = user[r])
    BY DEF WritesProject
  <1>4. /\ projects' \in [ProjectIds -> Project \cup {Null}] /\ projects'[p] = row
        /\ \A x \in ProjectIds \ {p} : projects'[x] = projects[x]
    BY <1>1, <1>3 DEF IInv, DbInv
  <1>5. \A x \in Stored(projects)' : x \in ProjectIds /\ (x = p => row # Null)
                                     /\ (x # p => x \in Stored(projects) /\ projects'[x] = projects[x])
    BY <1>4 DEF Stored, IInv, DbInv
  <1>6. DbInv'
    <2>1. Stored(projects)' \subseteq issued'
      BY <1>1, <1>5 DEF IInv, DbInv
    <2>2. \A x \in Stored(entries)' : /\ entries'[x].projectId \in issued' \cup {Null}
                                      /\ Running(entries'[x]) => entries'[x].startedAt >= 0
      BY <1>1 DEF IInv, DbInv, Stored
    <2>3. Stored(tokens)' = Stored(tokens) /\ Stored(entries)' = Stored(entries)
      BY <1>1 DEF Stored
    <2>. QED
      BY <1>1, <1>4, <2>1, <2>2, <2>3 DEF IInv, DbInv, Running
  <1>7. GhostInv'
    <2>. DEFINE relying == {s \in Requests : pc[s] = "patching" /\ read[s].id = p}
    <2>1. stale' = (stale \ {r}) \cup (relying \ {r}) /\ writes' = [writes EXCEPT ![r] = @ + 1]
      <3>1. Wrote(r, relying)
        BY DEF WritesProject, SetProject
      <3>. HIDE DEF relying
      <3>. QED
        BY <3>1 DEF Wrote
    <2>2. ASSUME NEW s \in Requests \ stale'
          PROVE  Fresh(pc[s], input[s], read[s], user[s])'
      <3>1. CASE s = r
        BY <1>2, <3>1 DEF Fresh
      <3>2. CASE s # r
        <4>1. s \notin relying /\ s \notin stale
          BY <2>1, <3>2
        <4>2. Fresh(pc[s], input[s], read[s], user[s])
          BY <4>1 DEF IInv, GhostInv
        <4>3. /\ pc'[s] = pc[s] /\ input'[s] = input[s] /\ read'[s] = read[s]
              /\ user'[s] = user[s]
          BY <1>2, <3>2
        <4>4. RunningOf(user[s])' = RunningOf(user[s])
          BY <1>1, <1>2 DEF RunningOf, Stored
        <4>5. ASSUME pc[s] = "patching"
              PROVE  projects'[read[s].id] = read[s].row
          <5>1. read[s].id # p
            BY <4>1, <4>5
          <5>2. read[s].id \in ProjectIds
            BY <4>5 DEF IInv, LocalInv, InHand
          <5>. QED
            BY <1>4, <4>2, <4>5, <5>1, <5>2 DEF Fresh
        <4>. QED
          BY <1>1, <4>2, <4>3, <4>4, <4>5 DEF Fresh
      <3>. QED
        BY <3>1, <3>2
    <2>3. stale' \subseteq Requests
      BY <2>1 DEF IInv, GhostInv
    <2>4. /\ writes' \in [Requests -> 0 .. 1]
          /\ \A s \in Requests : pc'[s] # "answered" => writes'[s] = 0
      BY <1>1, <1>2, <2>1, CountsOnce DEF IInv
    <2>. QED
      BY <2>2, <2>3, <2>4 DEF GhostInv
  <1>8. HeldInv'
    <2>0. PICK po2 : po2 = [po EXCEPT ![p] = user[r]]
      OBVIOUS
    <2>1. /\ po2 \in [ProjectIds -> Users] /\ po2[p] = user[r]
          /\ \A x \in ProjectIds \ {p} : po2[x] = po[x]
          /\ \A x \in ProjectIds \cap issued : po2[x] = po[x]
      BY <1>1, <2>0 DEF Held, WritesProject
    <2>2. ASSUME NEW s \in Requests
          PROVE  Claim(pc'[s], input'[s], read'[s], user'[s], po2, eo)
      <3>1. CASE s = r
        BY <1>2, <3>1 DEF Claim
      <3>2. CASE s # r
        <4>1. Claim(pc[s], input[s], read[s], user[s], po, eo)
          BY DEF Held
        <4>2. /\ pc[s] = "patching" => read[s].id \in ProjectIds \cap issued
              /\ pc[s] = "inserting" /\ input[s].projectId # Null =>
                   input[s].projectId \in ProjectIds \cap issued
              /\ pc[s] = "stopping" /\ read[s].row.projectId # Null =>
                   read[s].row.projectId \in ProjectIds \cap issued
          BY DEF IInv, LocalInv, InHand, EntryInput, Entry
        <4>3. Claim(pc[s], input[s], read[s], user[s], po2, eo)
          BY <2>1, <4>1, <4>2 DEF Claim
        <4>. QED
          BY <1>2, <3>2, <4>3
      <3>. QED
        BY <3>1, <3>2
    <2>3. OwnedBy(po2, entries', projects')
      <3>1. \A x \in Stored(projects)' : projects'[x].userId = po2[x]
        BY <1>3, <1>4, <1>5, <2>1 DEF Held, OwnedBy
      <3>2. \A x \in Stored(entries) :
              entries[x].projectId # Null => entries[x].projectId \in ProjectIds \cap issued
        BY DEF IInv, DbInv, Stored, Entry
      <3>. QED
        BY <1>1, <2>1, <3>1, <3>2 DEF Held, OwnedBy, Stored
    <2>4. \A x \in Stored(entries)' : entries'[x].userId = eo[x]
      BY <1>1 DEF Held, Stored
    <2>5. eo \in [EntryIds -> Users \cup {Null}]
      BY DEF Held
    <2>6. Held(po2, eo)'
      BY <2>1, <2>2, <2>3, <2>4, <2>5 DEF Held
    <2>. QED
      BY <2>6 DEF HeldInv
  <1>. QED
    BY <1>2, <1>6, <1>7, <1>8 DEF IInv

-----------------------------------------------------------------------------
(* An answer that shows the caller's rows, or none.                        *)
LEMMA AnswerEnds ==
  ASSUME NEW r, pc[r] # "answered", NEW status \in {200, 400, 401, 403, 404, 409, 500},
         NEW owners, owners = {} \/ (owners \subseteq {user[r]} /\ user[r] \in Users),
         Answer(r, status, owners), UNCHANGED now
  PROVE  Ends(r)
  BY DEF Ends

(* The same, of the rows that route() has parsed.                          *)
LEMMA ShowEnds ==
  ASSUME NEW r, pc[r] # "answered", NEW rows, \A row \in rows : row.userId = user[r],
         user[r] \in Users, Show(r, rows), UNCHANGED now
  PROVE  Ends(r)
  <1>1. {row.userId : row \in rows} \subseteq {user[r]}
    OBVIOUS
  <1>. QED
    BY <1>1, AnswerEnds DEF Show

(* Requests that only read.                                                *)
LEMMA ReadSteps ==
  ASSUME IInv, NEW r \in Requests,
         \/ RequireAuth(r) \/ Invalid(r) \/ GetPage(r) \/ GetMe(r) \/ GetProjects(r)
         \/ GetEntries(r) \/ GetRunning(r)
  PROVE  Ends(r) /\ NoWrite
  <1>1. /\ pc[r] = "ready" /\ NoWrite /\ UNCHANGED now
        /\ user[r] # Null => user[r] \in Users
    BY DEF RequireAuth, Invalid, GetPage, GetMe, GetProjects, GetEntries, GetRunning, Enters,
           IInv, LocalInv
  <1>2. CASE RequireAuth(r) \/ Invalid(r) \/ GetPage(r)
    BY <1>1, <1>2, AnswerEnds DEF RequireAuth, Invalid, GetPage
  <1>3. CASE GetMe(r)
    BY <1>1, <1>3, AnswerEnds DEF GetMe, Enters
  <1>4. CASE GetProjects(r)
    <2>. DEFINE own == {projects[p].userId : p \in {p \in Stored(projects) : Owned(projects[p], user[r])}}
    <2>1. own \subseteq {user[r]}
      BY DEF Owned
    <2>2. Answer(r, 200, own)
      BY <1>4 DEF GetProjects
    <2>. QED
      BY <1>1, <1>4, <2>1, <2>2, AnswerEnds DEF GetProjects, Enters
  <1>5. CASE GetEntries(r)
    <2>1. PICK from \in Times \cup {Null}, to \in Times \cup {Null}, p \in ProjectIds \cup {Null} :
                 Show(r, {entries[e] : e \in Listed(user[r], from, to, p)})
      BY <1>5 DEF GetEntries
    <2>2. \A row \in {entries[e] : e \in Listed(user[r], from, to, p)} : row.userId = user[r]
      BY DEF Listed
    <2>. QED
      BY <1>1, <1>5, <2>1, <2>2, ShowEnds DEF GetEntries, Enters
  <1>6. CASE GetRunning(r)
    <2>1. CASE Show(r, {})
      BY <1>1, <1>6, <2>1, ShowEnds DEF GetRunning, Enters
    <2>2. ASSUME NEW e \in RunningOf(user[r]), Show(r, {entries[e]})
          PROVE  Ends(r)
      <3>1. \A row \in {entries[e]} : row.userId = user[r]
        BY DEF RunningOf
      <3>. QED
        BY <1>1, <1>6, <2>2, <3>1, ShowEnds DEF GetRunning, Enters
    <2>. QED
      BY <1>1, <1>6, <2>1, <2>2 DEF GetRunning
  <1>. QED
    BY <1>1, <1>2, <1>3, <1>4, <1>5, <1>6

(* Requests on their way in.                                               *)
LEMMA ArriveSteps ==
  ASSUME IInv, NEW r \in Requests, Arrive(r)
  PROVE  ComesIn(r) \/ (Ends(r) /\ NoWrite)
  <1>1. pc[r] = "idle" /\ NoWrite /\ UNCHANGED now
    BY DEF Arrive
  <1>2. CASE /\ pc' = [pc EXCEPT ![r] = "ready"]
             /\ user' \in {[user EXCEPT ![r] = u] : u \in {Null} \cup {tokens[t] : t \in Stored(tokens)}}
             /\ UNCHANGED <<input, read, reply>>
    <2>1. \A t \in Stored(tokens) : tokens[t] \in Users
      BY DEF Stored, IInv, DbInv
    <2>. QED
      BY <1>1, <1>2, <2>1 DEF ComesIn, NoWrite
  <1>3. CASE Answer(r, 401, {})
    BY <1>1, <1>3, AnswerEnds
  <1>. QED
    BY <1>2, <1>3 DEF Arrive

(* Requests that go on after a test.                                       *)
LEMMA TestSteps ==
  ASSUME IInv, NEW po, NEW eo, Held(po, eo), NEW r \in Requests,
         \/ PatchProject(r) \/ StartTimer(r) \/ FindProject(r) \/ PostEntry(r) \/ StopTimer(r)
  PROVE  \/ \E place, in, found : GoesOn(r, place, in, found, po, eo)
         \/ Ends(r) /\ NoWrite
  <1>1. pc[r] \in {"ready", "starting"} /\ user[r] \in Users /\ NoWrite /\ UNCHANGED now
    BY DEF PatchProject, StartTimer, FindProject, PostEntry, StopTimer, Enters, IInv, LocalInv, InHand
  <1>2. CASE PatchProject(r)
    <2>1. PICK p \in ProjectIds, in \in PatchInput :
                 IF Owned(projects[p], user[r])
                 THEN Goto(r, "patching", in, [id |-> p, row |-> projects[p]])
                 ELSE Answer(r, 404, {})
      BY <1>2 DEF PatchProject
    <2>2. CASE Owned(projects[p], user[r])
      <3>. DEFINE found == [id |-> p, row |-> projects[p]]
      <3>1. /\ p \in Stored(projects) /\ projects[p] \in Project /\ p \in issued
            /\ projects[p].userId = user[r] /\ po[p] = user[r]
        BY <2>2 DEF Owned, Stored, IInv, DbInv, Held, OwnedBy
      <3>2. /\ InHand("patching", in, found, user[r], issued)
            /\ Claim("patching", in, found, user[r], po, eo)
            /\ Fresh("patching", in, found, user[r])
        BY <1>1, <3>1 DEF InHand, Claim, Fresh
      <3>3. Goto(r, "patching", in, found)
        BY <2>1, <2>2
      <3>4. GoesOn(r, "patching", in, found, po, eo)
        BY <1>1, <3>2, <3>3 DEF GoesOn, Places, NoWrite
      <3>. QED
        BY <3>4
    <2>3. CASE ~Owned(projects[p], user[r])
      BY <1>1, <2>1, <2>3, AnswerEnds
    <2>. QED
      BY <2>2, <2>3
  <1>3. CASE StartTimer(r)
    <2>1. PICK p \in ProjectIds \cup {Null} :
                 IF NoneRunning(user[r])
                 THEN Goto(r, "starting", [projectId |-> p, startedAt |-> Null, stoppedAt |-> Null], Null)
                 ELSE Answer(r, 409, {entries[e].userId : e \in RunningOf(user[r])})
      BY <1>3 DEF StartTimer
    <2>2. CASE NoneRunning(user[r])
      <3>. DEFINE in == [projectId |-> p, startedAt |-> Null, stoppedAt |-> Null]
      <3>1. /\ InHand("starting", in, Null, user[r], issued)
            /\ Claim("starting", in, Null, user[r], po, eo)
            /\ Fresh("starting", in, Null, user[r])
        BY <1>1, <2>2 DEF InHand, Claim, Fresh, EntryInput, NoneRunning
      <3>2. Goto(r, "starting", in, Null)
        BY <2>1, <2>2
      <3>3. GoesOn(r, "starting", in, Null, po, eo)
        BY <1>1, <3>1, <3>2 DEF GoesOn, Places, NoWrite
      <3>. QED
        BY <3>3
    <2>3. CASE ~NoneRunning(user[r])
      <3>1. {entries[e].userId : e \in RunningOf(user[r])} \subseteq {user[r]}
        BY DEF RunningOf
      <3>. QED
        BY <1>1, <2>1, <2>3, <3>1, AnswerEnds
    <2>. QED
      BY <2>2, <2>3
  <1>4. ASSUME NEW in, CheckProject(r, in), in \in EntryInput,
               in.startedAt = Null <=> in.stoppedAt = Null,
               r \notin stale /\ in.startedAt = Null => RunningOf(user[r]) = {}
        PROVE  \/ \E place, in2, found : GoesOn(r, place, in2, found, po, eo)
               \/ Ends(r) /\ NoWrite
    <2>1. CASE ProjectAllowed(in.projectId, user[r])
      <3>1. \/ in.projectId = Null
            \/ /\ in.projectId \in Stored(projects) /\ in.projectId \in issued
               /\ po[in.projectId] = user[r]
        BY <1>4, <2>1 DEF ProjectAllowed, Owned, EntryInput, Stored, IInv, DbInv, Held, OwnedBy
      <3>2. /\ InHand("inserting", in, Null, user[r], issued)
            /\ Claim("inserting", in, Null, user[r], po, eo)
            /\ r \notin stale => Fresh("inserting", in, Null, user[r])
        BY <1>1, <1>4, <3>1 DEF InHand, Claim, Fresh
      <3>3. GoesOn(r, "inserting", in, Null, po, eo)
        BY <1>1, <1>4, <2>1, <3>2 DEF GoesOn, Places, NoWrite, CheckProject
      <3>. QED
        BY <3>3
    <2>2. CASE ~ProjectAllowed(in.projectId, user[r])
      BY <1>1, <1>4, <2>2, AnswerEnds DEF CheckProject
    <2>. QED
      BY <2>1, <2>2
  <1>5. CASE FindProject(r)
    <2>1. /\ pc[r] = "starting" /\ CheckProject(r, input[r])
      BY <1>5 DEF FindProject
    <2>2. /\ input[r] \in EntryInput
          /\ input[r].startedAt = Null <=> input[r].stoppedAt = Null
      BY <2>1 DEF IInv, LocalInv, InHand
    <2>3. r \notin stale /\ input[r].startedAt = Null => RunningOf(user[r]) = {}
      BY <2>1 DEF IInv, GhostInv, Fresh
    <2>. QED
      BY <1>4, <2>1, <2>2, <2>3
  <1>6. CASE PostEntry(r)
    <2>1. PICK p \in ProjectIds \cup {Null}, from \in Times, to \in Times :
                 IF to <= from THEN Answer(r, 400, {})
                 ELSE CheckProject(r, [projectId |-> p, startedAt |-> from, stoppedAt |-> to])
      BY <1>6 DEF PostEntry
    <2>2. CASE to <= from
      BY <1>1, <2>1, <2>2, AnswerEnds
    <2>3. CASE ~(to <= from)
      <3>. DEFINE in == [projectId |-> p, startedAt |-> from, stoppedAt |-> to]
      <3>1. from \in Int /\ to \in Int /\ from # Null /\ to # Null
        BY TimesAssumption, NullIsNone
      <3>2. /\ in \in EntryInput /\ (in.startedAt = Null <=> in.stoppedAt = Null)
            /\ (r \notin stale /\ in.startedAt = Null => RunningOf(user[r]) = {})
        BY <3>1 DEF EntryInput
      <3>3. CheckProject(r, in)
        BY <2>1, <2>3
      <3>. QED
        BY <1>4, <3>2, <3>3
    <2>. QED
      BY <2>2, <2>3
  <1>7. CASE StopTimer(r)
    <2>1. ASSUME NEW e \in Stored(entries), Stoppable(entries[e], user[r]),
                 Goto(r, "stopping", Null, [id |-> e, row |-> entries[e]])
          PROVE  \E place, in, found : GoesOn(r, place, in, found, po, eo)
      <3>. DEFINE found == [id |-> e, row |-> entries[e]]
      <3>1. /\ entries[e] \in Entry /\ e \in issued /\ e \in EntryIds
            /\ entries[e].userId = user[r] /\ eo[e] = user[r] /\ Running(entries[e])
            /\ entries[e].projectId \in issued \cup {Null} /\ entries[e].startedAt >= 0
            /\ entries[e].projectId # Null => po[entries[e].projectId] = user[r]
        BY <2>1 DEF Stoppable, Owned, Stored, IInv, DbInv, Held, OwnedBy
      <3>2. /\ InHand("stopping", Null, found, user[r], issued)
            /\ Claim("stopping", Null, found, user[r], po, eo)
            /\ Fresh("stopping", Null, found, user[r])
        BY <1>1, <3>1 DEF InHand, Claim, Fresh
      <3>3. Goto(r, "stopping", Null, found)
        BY <2>1
      <3>4. GoesOn(r, "stopping", Null, found, po, eo)
        BY <1>1, <3>2, <3>3 DEF GoesOn, Places, NoWrite
      <3>. QED
        BY <3>4
    <2>2. ASSUME NEW status \in {404, 409}, Answer(r, status, {})
          PROVE  Ends(r)
      BY <1>1, <2>2, AnswerEnds
    <2>. QED
      BY <1>1, <1>7, <2>1, <2>2 DEF StopTimer
  <1>. QED
    BY <1>2, <1>3, <1>5, <1>6, <1>7

(* Requests that write.                                                    *)
LEMMA TokenSteps ==
  ASSUME IInv, NEW r \in Requests, PostToken(r)
  PROVE  Ends(r) /\ (NoWrite \/ \E t, u : WritesToken(r, t, u))
  <1>1. pc[r] = "ready" /\ UNCHANGED now
    BY DEF PostToken
  <1>2. ASSUME NEW t \in Tokens, NEW u \in Users,
               tokens' = [tokens EXCEPT ![t] = u], issued' = issued \cup {t},
               writes' = [writes EXCEPT ![r] = @ + 1],
               UNCHANGED <<projects, entries, demoAuth, stale>>
        PROVE  WritesToken(r, t, u)
    BY <1>1, <1>2 DEF WritesToken
  <1>3. \E status \in {200, 403} : Answer(r, status, {})
    BY DEF PostToken
  <1>4. Ends(r)
    BY <1>1, <1>3, AnswerEnds
  <1>. QED
    BY <1>2, <1>4 DEF PostToken

(* Those that write a project.                                             *)
LEMMA ProjectSteps ==
  ASSUME IInv, NEW po, NEW eo, Held(po, eo), NEW r \in Requests,
         PostProject(r) \/ UpdateProject(r) \/ DeleteProject(r)
  PROVE  Ends(r) /\ (NoWrite \/ \E p, row : WritesProject(r, p, row, po))
  <1>1. pc[r] \in {"ready", "patching"} /\ user[r] \in Users /\ UNCHANGED now
    BY DEF PostProject, UpdateProject, DeleteProject, Enters, IInv, LocalInv, InHand
  <1>2. CASE PostProject(r)
    <2>1. PICK p \in ProjectIds \ issued, name \in Texts, color \in Texts :
            /\ SetProject(r, p, [userId |-> user[r], name |-> name, color |-> color])
            /\ issued' = issued \cup {p}
            /\ Answer(r, 200, {user[r]})
      BY <1>2 DEF PostProject
    <2>. DEFINE row == [userId |-> user[r], name |-> name, color |-> color]
    <2>2. row \in Project /\ row.userId = user[r]
      BY <1>1 DEF Project
    <2>3. SetProject(r, p, row)
      BY <2>1
    <2>. HIDE DEF row
    <2>4. WritesProject(r, p, row, po)
      BY <1>1, <2>1, <2>2, <2>3 DEF WritesProject
    <2>5. Ends(r)
      BY <1>1, <2>1, AnswerEnds
    <2>. QED
      BY <2>4, <2>5
  <1>3. CASE UpdateProject(r)
    <2>. DEFINE row == Patched(read[r].row, input[r])
                p == read[r].id
    <2>1. pc[r] = "patching" /\ SetProject(r, p, row) /\ UNCHANGED issued
          /\ Answer(r, 200, {read[r].row.userId})
      BY <1>3 DEF UpdateProject
    <2>2. /\ input[r] \in PatchInput /\ p \in ProjectIds \cap issued /\ read[r].row \in Project
          /\ read[r].row.userId = user[r] /\ po[p] = user[r]
      BY <2>1 DEF IInv, LocalInv, InHand, Held, Claim
    <2>3. row \in Project /\ row.userId = user[r]
      BY <2>2 DEF Patched, Project, PatchInput
    <2>. HIDE DEF row
    <2>4. issued' = issued \cup {p}
      BY <2>1, <2>2
    <2>5. WritesProject(r, p, row, po)
      BY <1>1, <2>1, <2>2, <2>3, <2>4 DEF WritesProject
    <2>6. Ends(r)
      BY <1>1, <2>1, <2>2, AnswerEnds
    <2>. QED
      BY <2>5, <2>6
  <1>4. CASE DeleteProject(r)
    <2>1. PICK p \in ProjectIds :
            IF Deletable(projects[p], user[r])
            THEN SetProject(r, p, Null) /\ Answer(r, 200, {}) /\ UNCHANGED issued
            ELSE Answer(r, 404, {}) /\ NoWrite
      BY <1>4 DEF DeleteProject
    <2>2. CASE Deletable(projects[p], user[r])
      <3>1. p \in issued /\ po[p] = user[r]
        BY <2>2 DEF Deletable, Owned, Stored, IInv, DbInv, Held, OwnedBy
      <3>2. WritesProject(r, p, Null, po)
        BY <1>1, <2>1, <2>2, <3>1 DEF WritesProject
      <3>. QED
        BY <1>1, <2>1, <2>2, <3>2, AnswerEnds
    <2>3. CASE ~Deletable(projects[p], user[r])
      BY <1>1, <2>1, <2>3, AnswerEnds
    <2>. QED
      BY <2>2, <2>3
  <1>. QED
    BY <1>2, <1>3, <1>4

(* Those that write an entry.                                              *)
LEMMA InsertStep ==
  ASSUME IInv, NEW po, NEW eo, Held(po, eo), NEW r \in Requests, InsertEntry(r)
  PROVE  Ends(r) /\ \E e, row : WritesEntry(r, e, row, po, eo)
  <1>1. pc[r] = "inserting" /\ user[r] \in Users /\ UNCHANGED now /\ now \in Nat
        /\ input[r] \in EntryInput /\ input[r].projectId \in issued \cup {Null}
        /\ (input[r].startedAt = Null <=> input[r].stoppedAt = Null)
        /\ (input[r].projectId # Null => po[input[r].projectId] = user[r])
    BY TimesAssumption DEF InsertEntry, IInv, LocalInv, InHand, DbInv, Held, Claim
  <1>. DEFINE row == [userId |-> user[r], projectId |-> input[r].projectId,
                      startedAt |-> IF input[r].startedAt = Null THEN now ELSE input[r].startedAt,
                      stoppedAt |-> input[r].stoppedAt]
  <1>2. PICK e \in EntryIds \ issued :
          SetEntry(r, e, row) /\ issued' = issued \cup {e} /\ Show(r, {row})
    BY DEF InsertEntry
  <1>3. /\ row \in Entry /\ row.userId = user[r] /\ row.projectId \in issued \cup {Null}
        /\ row.projectId # Null => po[row.projectId] = user[r]
    BY <1>1 DEF Entry, EntryInput
  <1>4. Running(row) => Starts(r) /\ row.startedAt >= 0
    BY <1>1 DEF Running, Starts
  <1>. HIDE DEF row
  <1>5. WritesEntry(r, e, row, po, eo)
    BY <1>1, <1>2, <1>3, <1>4 DEF WritesEntry
  <1>6. Ends(r)
    BY <1>1, <1>2, <1>3, ShowEnds
  <1>. QED
    BY <1>5, <1>6

(* stop(), with what it has read.                                          *)
LEMMA UpdateStep ==
  ASSUME IInv, NEW po, NEW eo, Held(po, eo), NEW r \in Requests, UpdateEntry(r)
  PROVE  Ends(r) /\ \E e, row : WritesEntry(r, e, row, po, eo)
  <1>1. pc[r] = "stopping" /\ user[r] \in Users /\ UNCHANGED <<issued, now>> /\ now \in Nat
        /\ read[r].id \in EntryIds \cap issued /\ read[r].row \in Entry
        /\ read[r].row.userId = user[r] /\ eo[read[r].id] = user[r]
        /\ read[r].row.projectId \in issued \cup {Null}
        /\ (read[r].row.projectId # Null => po[read[r].row.projectId] = user[r])
    BY TimesAssumption DEF UpdateEntry, IInv, LocalInv, InHand, DbInv, Held, Claim
  <1>. DEFINE row == [read[r].row EXCEPT !.stoppedAt = now]
              e == read[r].id
  <1>2. SetEntry(r, e, row) /\ Show(r, {row})
    BY DEF UpdateEntry
  <1>3. /\ row \in Entry /\ row.userId = user[r] /\ row.projectId \in issued \cup {Null}
        /\ row.projectId # Null => po[row.projectId] = user[r]
        /\ ~Running(row)
    BY <1>1, NullIsNone DEF Entry, Running
  <1>. HIDE DEF row
  <1>4. issued' = issued \cup {e}
    BY <1>1
  <1>5. WritesEntry(r, e, row, po, eo)
    BY <1>1, <1>2, <1>3, <1>4 DEF WritesEntry
  <1>6. Ends(r)
    BY <1>1, <1>2, <1>3, ShowEnds
  <1>. QED
    BY <1>5, <1>6

(* DELETE /entries/:id.                                                    *)
LEMMA DeleteStep ==
  ASSUME IInv, NEW po, NEW eo, Held(po, eo), NEW r \in Requests, DeleteEntry(r)
  PROVE  Ends(r) /\ (NoWrite \/ \E e, row : WritesEntry(r, e, row, po, eo))
  <1>1. pc[r] = "ready" /\ user[r] \in Users /\ UNCHANGED now
    BY DEF DeleteEntry, Enters, IInv, LocalInv
  <1>2. PICK e \in EntryIds :
          IF Deletable(entries[e], user[r])
          THEN SetEntry(r, e, Null) /\ Answer(r, 200, {}) /\ UNCHANGED issued
          ELSE Answer(r, 404, {}) /\ NoWrite
    BY DEF DeleteEntry
  <1>3. CASE Deletable(entries[e], user[r])
    <2>1. e \in issued /\ eo[e] = user[r]
      BY <1>3 DEF Deletable, Owned, Stored, IInv, DbInv, Held
    <2>2. WritesEntry(r, e, Null, po, eo)
      BY <1>1, <1>2, <1>3, <2>1 DEF WritesEntry
    <2>. QED
      BY <1>1, <1>2, <1>3, <2>2, AnswerEnds
  <1>4. CASE ~Deletable(entries[e], user[r])
    BY <1>1, <1>2, <1>4, AnswerEnds
  <1>. QED
    BY <1>3, <1>4

(* Every step of a request is of one of these kinds.                       *)
LEMMA EveryStep ==
  ASSUME IInv, NEW po, NEW eo, Held(po, eo), NEW r \in Requests, Serve(r)
  PROVE  Steps(r, po, eo)
  <1>1. CASE Arrive(r)
    BY <1>1, ArriveSteps DEF Steps
  <1>2. CASE \/ RequireAuth(r) \/ Invalid(r) \/ GetPage(r) \/ GetMe(r) \/ GetProjects(r)
             \/ GetEntries(r) \/ GetRunning(r)
    BY <1>2, ReadSteps DEF Steps
  <1>3. CASE \/ PatchProject(r) \/ StartTimer(r) \/ FindProject(r) \/ PostEntry(r) \/ StopTimer(r)
    BY <1>3, TestSteps DEF Steps
  <1>4. CASE PostToken(r)
    BY <1>4, TokenSteps DEF Steps
  <1>5. CASE PostProject(r) \/ UpdateProject(r) \/ DeleteProject(r)
    BY <1>5, ProjectSteps DEF Steps
  <1>6. CASE InsertEntry(r)
    BY <1>6, InsertStep DEF Steps
  <1>7. CASE UpdateEntry(r)
    BY <1>7, UpdateStep DEF Steps
  <1>8. CASE DeleteEntry(r)
    BY <1>8, DeleteStep DEF Steps
  <1>. QED
    BY <1>1, <1>2, <1>3, <1>4, <1>5, <1>6, <1>7, <1>8 DEF Serve

-----------------------------------------------------------------------------
(* Earlier requests have left rows that agree with one owner of each.      *)
LEMMA InitIInv == Init => IInv
  <1>. SUFFICES ASSUME Init PROVE IInv
    OBVIOUS
  <1>1. PICK s \in Stores : /\ tokens = s.tokens /\ projects = s.projects
                            /\ entries = s.entries /\ demoAuth = s.demoAuth
    BY DEF Init
  <1>2. /\ s.demoAuth \in BOOLEAN
        /\ s.tokens \in [Tokens -> Users \cup {Null}]
        /\ s.projects \in [ProjectIds -> Project \cup {Null}]
        /\ s.entries \in [EntryIds -> Entry \cup {Null}]
        /\ \A e \in Stored(s.entries) :
             s.entries[e].stoppedAt = Null => s.entries[e].startedAt >= 0
        /\ \E owner \in [ProjectIds -> Users] : OwnedBy(owner, s.entries, s.projects)
    BY StoresAssumption
  <1>3. DbInv
    <2>1. 0 \in 0 .. MaxTime
      BY TimesAssumption
    <2>2. /\ Stored(tokens) \subseteq Tokens /\ Stored(projects) \subseteq ProjectIds
          /\ Stored(entries) \subseteq EntryIds
      BY <1>1, <1>2 DEF Stored
    <2>3. \A e \in Stored(entries) :
            /\ entries[e] \in Entry
            /\ entries[e].projectId \in Mentioned(entries) \cup {Null}
            /\ entries[e].projectId \in ProjectIds \cup {Null}
      BY <1>1, <1>2 DEF Stored, Mentioned, Entry
    <2>4. Mentioned(entries) \subseteq ProjectIds
      BY <2>3 DEF Mentioned
    <2>. QED
      BY <1>1, <1>2, <2>1, <2>2, <2>3, <2>4 DEF Init, DbInv, Running
  <1>4. LocalInv
    <2>1. "idle" \in Places /\ NoReply \in Reply /\ NoReply.owners = {}
      BY DEF Places, NoReply, Reply
    <2>2. \A r \in Requests : InHand(pc[r], input[r], read[r], user[r], issued)
      BY DEF Init, InHand
    <2>. QED
      BY <2>1, <2>2 DEF Init, LocalInv
  <1>5. GhostInv
    BY DEF Init, GhostInv, Fresh
  <1>6. HeldInv
    <2>1. PICK po \in [ProjectIds -> Users] : OwnedBy(po, entries, projects)
      BY <1>1, <1>2
    <2>2. PICK eo : eo = [e \in EntryIds |-> IF entries[e] = Null THEN Null ELSE entries[e].userId]
      OBVIOUS
    <2>3. eo \in [EntryIds -> Users \cup {Null}] /\ \A e \in Stored(entries) : entries[e].userId = eo[e]
      BY <1>1, <1>2, <2>2 DEF Stored, Entry
    <2>4. \A r \in Requests : Claim(pc[r], input[r], read[r], user[r], po, eo)
      BY DEF Init, Claim
    <2>. QED
      BY <2>1, <2>3, <2>4 DEF Held, HeldInv
  <1>. QED
    BY <1>3, <1>4, <1>5, <1>6 DEF IInv

(* Each kind of step keeps the invariant.                                  *)
LEMMA StepIInv ==
  ASSUME IInv, NEW po, NEW eo, Held(po, eo), NEW r \in Requests, Steps(r, po, eo)
  PROVE  IInv'
  <1>1. CASE ComesIn(r)
    BY <1>1, ComesInIInv
  <1>2. ASSUME NEW place, NEW in, NEW found, GoesOn(r, place, in, found, po, eo)
        PROVE  IInv'
    BY <1>2, GoesOnIInv
  <1>3. CASE Ends(r) /\ NoWrite
    BY <1>3, EndsIInv
  <1>4. ASSUME Ends(r), NEW t, NEW u, WritesToken(r, t, u)
        PROVE  IInv'
    BY <1>4, WritesTokenIInv
  <1>5. ASSUME Ends(r), NEW e, NEW row, WritesEntry(r, e, row, po, eo)
        PROVE  IInv'
    BY <1>5, WritesEntryIInv
  <1>6. ASSUME Ends(r), NEW p, NEW row, WritesProject(r, p, row, po)
        PROVE  IInv'
    BY <1>6, WritesProjectIInv
  <1>. QED
    BY <1>1, <1>2, <1>3, <1>4, <1>5, <1>6 DEF Steps

(* The clock touches nothing else.                                         *)
LEMMA TickIInv ==
  ASSUME IInv, Tick \/ UNCHANGED vars
  PROVE  IInv'
  <1>1. UNCHANGED <<dbVars, localVars, ghostVars>> /\ now' \in 0 .. MaxTime
    BY TimesAssumption DEF Tick, vars, IInv, DbInv
  <1>2. /\ DbInv' /\ LocalInv'
    BY <1>1 DEF IInv, DbInv, LocalInv, dbVars, localVars, Stored, InHand, Running
  <1>3. GhostInv'
    BY <1>1 DEF IInv, GhostInv, Fresh, RunningOf, Stored, Running, dbVars, localVars, ghostVars
  <1>4. HeldInv'
    <2>1. PICK po, eo : Held(po, eo)
      BY DEF IInv, HeldInv
    <2>2. Held(po, eo)'
      BY <1>1, <2>1 DEF Held, Claim, OwnedBy, Stored, dbVars, localVars
    <2>. QED
      BY <2>2 DEF HeldInv
  <1>. QED
    BY <1>2, <1>3, <1>4 DEF IInv

(* The inductive invariant holds in every reachable state.                 *)
THEOREM Invariance == Spec => []IInv
  <1>1. ASSUME IInv, [Next]_vars
        PROVE  IInv'
    <2>1. CASE Tick \/ UNCHANGED vars
      BY <1>1, <2>1, TickIInv
    <2>2. ASSUME NEW r \in Requests, Serve(r)
          PROVE  IInv'
      <3>1. PICK po, eo : Held(po, eo)
        BY <1>1 DEF IInv, HeldInv
      <3>. QED
        BY <1>1, <2>2, <3>1, EveryStep, StepIInv
    <2>. QED
      BY <1>1, <2>1, <2>2 DEF Next
  <1>. QED
    BY <1>1, InitIInv, PTL DEF Spec

(* Every variable of the time tracker holds a value of its kind, a row     *)
(* that a request will write back is its caller's, and no request writes   *)
(* twice.                                                                  *)
THEOREM TimersTyped == Spec => []TimersTypeOK
  <1>1. ASSUME IInv PROVE TimersTypeOK
    <2>1. ASSUME NEW r \in Requests, pc[r] \in {"patching", "stopping"}
          PROVE  read[r].row.userId = user[r]
      <3>1. PICK po, eo : Held(po, eo)
        BY <1>1 DEF IInv, HeldInv
      <3>. QED
        BY <2>1, <3>1 DEF Held, Claim
    <2>2. ASSUME NEW r \in Requests
          PROVE  /\ pc[r] \in {"idle", "ready", "answered"} => input[r] = Null /\ read[r] = Null
                 /\ pc[r] \in {"starting", "inserting"} => input[r] \in EntryInput /\ read[r] = Null
                 /\ pc[r] = "patching" =>
                      /\ input[r] \in PatchInput
                      /\ read[r] \in [id : ProjectIds \cap issued, row : Project]
                 /\ pc[r] = "stopping" =>
                      /\ input[r] = Null
                      /\ read[r] \in [id : EntryIds \cap issued, row : Entry]
      BY <1>1, <2>2 DEF IInv, LocalInv, InHand
    <2>. QED
      BY <1>1, <2>1, <2>2 DEF IInv, DbInv, LocalInv, GhostInv, TimersTypeOK
  <1>. QED
    BY <1>1, Invariance, PTL

-----------------------------------------------------------------------------
(* Only a request that is answered writes, and what it writes over is its  *)
(* user's.                                                                 *)
LEMMA OwnStep ==
  ASSUME IInv, NEW po, NEW eo, Held(po, eo), NEW r \in Requests, Steps(r, po, eo)
  PROVE  /\ \A e \in EntryIds : ChangesOwn(entries, e)
         /\ \A p \in ProjectIds : ChangesOwn(projects, p)
  <1>1. ASSUME Ends(r)
        PROVE  pc'[r] # pc[r]
    BY <1>1 DEF Ends, Answer, IInv, LocalInv
  <1>2. CASE UNCHANGED <<entries, projects>>
    BY <1>2 DEF ChangesOwn
  <1>3. ASSUME Ends(r), NEW e, NEW row, WritesEntry(r, e, row, po, eo)
        PROVE  /\ \A x \in EntryIds : ChangesOwn(entries, x)
               /\ \A p \in ProjectIds : ChangesOwn(projects, p)
    <2>1. /\ e \in EntryIds /\ entries' = [entries EXCEPT ![e] = row] /\ UNCHANGED projects
          /\ e \in issued => eo[e] = user[r]
          /\ row # Null => row.userId = user[r]
      BY <1>3 DEF WritesEntry, SetEntry
    <2>2. entries'[e] = row /\ \A x \in EntryIds \ {e} : entries'[x] = entries[x]
      BY <2>1 DEF IInv, DbInv
    <2>3. OwnRow(entries[e], user[r]) /\ OwnRow(entries'[e], user[r])
      BY <2>1, <2>2 DEF OwnRow, IInv, DbInv, Stored, Held
    <2>. QED
      BY <1>1, <1>3, <2>1, <2>2, <2>3 DEF ChangesOwn
  <1>4. ASSUME Ends(r), NEW p, NEW row, WritesProject(r, p, row, po)
        PROVE  /\ \A e \in EntryIds : ChangesOwn(entries, e)
               /\ \A x \in ProjectIds : ChangesOwn(projects, x)
    <2>1. /\ p \in ProjectIds /\ projects' = [projects EXCEPT ![p] = row] /\ UNCHANGED entries
          /\ p \in issued => po[p] = user[r]
          /\ row # Null => row.userId = user[r]
      BY <1>4 DEF WritesProject, SetProject
    <2>2. projects'[p] = row /\ \A x \in ProjectIds \ {p} : projects'[x] = projects[x]
      BY <2>1 DEF IInv, DbInv
    <2>3. OwnRow(projects[p], user[r]) /\ OwnRow(projects'[p], user[r])
      BY <2>1, <2>2 DEF OwnRow, IInv, DbInv, Stored, Held, OwnedBy
    <2>. QED
      BY <1>1, <1>4, <2>1, <2>2, <2>3 DEF ChangesOwn
  <1>. QED
    BY <1>2, <1>3, <1>4 DEF Steps, ComesIn, GoesOn, NoWrite, WritesToken, dbVars

(* Tenants are kept apart, however many requests of theirs overlap.        *)
THEOREM TenantsKeptApart == Spec => TenantsApart
  <1>1. ASSUME IInv, IInv', [Next]_vars
        PROVE  [/\ \A r \in Requests : ShowsOwn(r)
                /\ \A e \in EntryIds : ChangesOwn(entries, e)
                /\ \A p \in ProjectIds : ChangesOwn(projects, p)
                /\ OneOwner']_vars
    <2>1. \A r \in Requests : ShowsOwn(r)
      BY <1>1 DEF IInv, LocalInv, ShowsOwn
    <2>2. OneOwner'
      <3>1. PICK po, eo : Held(po, eo)'
        BY <1>1 DEF IInv, HeldInv
      <3>. QED
        BY <3>1 DEF Held, OneOwner
    <2>3. CASE Tick \/ UNCHANGED vars
      BY <2>1, <2>2, <2>3 DEF Tick, vars, dbVars, ChangesOwn
    <2>4. ASSUME NEW r \in Requests, Serve(r)
          PROVE  /\ \A e \in EntryIds : ChangesOwn(entries, e)
                 /\ \A p \in ProjectIds : ChangesOwn(projects, p)
      <3>1. PICK po, eo : Held(po, eo)
        BY <1>1 DEF IInv, HeldInv
      <3>. QED
        BY <1>1, <2>4, <3>1, EveryStep, OwnStep
    <2>. QED
      BY <1>1, <2>1, <2>2, <2>3, <2>4 DEF Next
  <1>. QED
    BY <1>1, Invariance, PTL DEF Spec, TenantsApart

(* The Maps of rows change in two kinds of step only.                      *)
LEMMA RowsChange ==
  ASSUME IInv, NEW po, NEW eo, Held(po, eo), NEW r \in Requests, Serve(r)
  PROVE  \/ UNCHANGED <<entries, projects>>
         \/ Ends(r) /\ \E e, row : WritesEntry(r, e, row, po, eo)
         \/ Ends(r) /\ UNCHANGED entries /\ \E p, row : WritesProject(r, p, row, po)
  <1>1. Steps(r, po, eo)
    BY EveryStep
  <1>. QED
    BY <1>1 DEF Steps, ComesIn, GoesOn, NoWrite, WritesToken, WritesProject, SetProject, dbVars

(* A user's second timer needs a start of theirs that was overtaken by     *)
(* another: one that was not has seen that none is running.                *)
THEOREM TimersOverlapOnly == Spec => OneTimerUnlessOverlap
  <1>1. ASSUME IInv, [Next]_vars
        PROVE  [\A e \in EntryIds : BeginsAlone(e)]_vars
    <2>1. ASSUME UNCHANGED entries
          PROVE  \A e \in EntryIds : BeginsAlone(e)
      BY <2>1 DEF BeginsAlone
    <2>2. ASSUME NEW r \in Requests, Serve(r)
          PROVE  \A e \in EntryIds : BeginsAlone(e)
      <3>1. PICK po, eo : Held(po, eo)
        BY <1>1 DEF IInv, HeldInv
      <3>2. ASSUME Ends(r), NEW w, NEW row, WritesEntry(r, w, row, po, eo)
            PROVE  \A e \in EntryIds : BeginsAlone(e)
        <4>1. /\ w \in EntryIds /\ entries' = [entries EXCEPT ![w] = row]
              /\ row # Null => row.userId = user[r] /\ (Running(row) => Starts(r))
          BY <3>2 DEF WritesEntry, SetEntry
        <4>2. entries'[w] = row /\ \A x \in EntryIds \ {w} : entries'[x] = entries[x]
          BY <1>1, <4>1 DEF IInv, DbInv
        <4>3. pc'[r] = "answered"
          BY <1>1, <3>2 DEF Ends, Answer, IInv, LocalInv
        <4>4. r \notin stale /\ Starts(r) => RunningOf(user[r]) = {}
          BY <1>1 DEF IInv, GhostInv, Fresh, Starts
        <4>5. BeginsAlone(w)
          BY <4>1, <4>2, <4>3, <4>4 DEF BeginsAlone
        <4>. QED
          BY <4>2, <4>5 DEF BeginsAlone
      <3>3. UNCHANGED entries \/ (Ends(r) /\ \E w, row : WritesEntry(r, w, row, po, eo))
        BY <1>1, <2>2, <3>1, RowsChange
      <3>. QED
        BY <2>1, <3>2, <3>3
    <2>. QED
      BY <1>1, <2>1, <2>2 DEF Next, Tick, vars, dbVars
  <1>. QED
    BY <1>1, Invariance, PTL DEF Spec, OneTimerUnlessOverlap

(* No request writes over what another has written, unless it has read the *)
(* row before.                                                             *)
THEOREM AnsweredChangesLast == Spec => ChangesLast
  <1>1. ASSUME IInv, [Next]_vars
        PROVE  [\A r \in Requests \ stale : WritesNoCopy(r)]_vars
    <2>1. ASSUME UNCHANGED <<entries, projects>>
          PROVE  \A r \in Requests \ stale : WritesNoCopy(r)
      BY <2>1 DEF WritesNoCopy
    <2>2. ASSUME NEW r \in Requests, Serve(r)
          PROVE  \A s \in Requests \ stale : WritesNoCopy(s)
      <3>1. PICK po, eo : Held(po, eo)
        BY <1>1 DEF IInv, HeldInv
      <3>2. ASSUME Ends(r), NEW e, NEW row, WritesEntry(r, e, row, po, eo),
                   NEW s \in Requests \ stale, writes'[s] # writes[s]
            PROVE  /\ \A x \in EntryIds \cap issued :
                        \/ entries'[x] \in {entries[x], Null}
                        \/ entries[x] # Null /\ Running(entries[x])
                   /\ UNCHANGED projects
        <4>1. /\ e \in EntryIds /\ entries' = [entries EXCEPT ![e] = row] /\ UNCHANGED projects
              /\ writes' = [writes EXCEPT ![r] = @ + 1]
              /\ row = Null \/ e \notin issued \/ (e = read[r].id /\ pc[r] = "stopping")
          BY <3>2 DEF WritesEntry, SetEntry, Wrote
        <4>2. s = r
          BY <1>1, <3>2, <4>1 DEF IInv, GhostInv
        <4>3. entries'[e] = row /\ \A x \in EntryIds \ {e} : entries'[x] = entries[x]
          BY <1>1, <4>1 DEF IInv, DbInv
        <4>4. ASSUME e = read[r].id, pc[r] = "stopping"
              PROVE  entries[e] # Null /\ Running(entries[e])
          BY <1>1, <3>2, <4>2, <4>4, NullIsNone DEF IInv, GhostInv, LocalInv, Fresh, InHand
        <4>. QED
          BY <4>1, <4>3, <4>4
      <3>3. ASSUME Ends(r), NEW p, NEW row, WritesProject(r, p, row, po),
                   NEW s \in Requests \ stale, writes'[s] # writes[s]
            PROVE  /\ \A x \in ProjectIds \cap issued :
                        projects'[x] \in {projects[x], Null} \/ projects[x] # Null
                   /\ UNCHANGED entries
        <4>1. /\ p \in ProjectIds /\ projects' = [projects EXCEPT ![p] = row] /\ UNCHANGED entries
              /\ writes' = [writes EXCEPT ![r] = @ + 1]
              /\ row = Null \/ p \notin issued \/ (p = read[r].id /\ pc[r] = "patching")
          BY <3>3 DEF WritesProject, SetProject, Wrote
        <4>2. s = r
          BY <1>1, <3>3, <4>1 DEF IInv, GhostInv
        <4>3. projects'[p] = row /\ \A x \in ProjectIds \ {p} : projects'[x] = projects[x]
          BY <1>1, <4>1 DEF IInv, DbInv
        <4>4. ASSUME p = read[r].id, pc[r] = "patching"
              PROVE  projects[p] # Null
          BY <1>1, <3>3, <4>2, <4>4, NullIsNone DEF IInv, GhostInv, LocalInv, Fresh, InHand
        <4>. QED
          BY <4>1, <4>3, <4>4
      <3>4. ASSUME Ends(r), NEW e, NEW row, WritesEntry(r, e, row, po, eo)
            PROVE  \A s \in Requests \ stale : WritesNoCopy(s)
        BY <3>2, <3>4 DEF WritesNoCopy
      <3>5. ASSUME Ends(r), NEW p, NEW row, WritesProject(r, p, row, po)
            PROVE  \A s \in Requests \ stale : WritesNoCopy(s)
        BY <3>3, <3>5 DEF WritesNoCopy
      <3>6. \/ UNCHANGED <<entries, projects>>
            \/ Ends(r) /\ \E e, row : WritesEntry(r, e, row, po, eo)
            \/ Ends(r) /\ \E p, row : WritesProject(r, p, row, po)
        BY <1>1, <2>2, <3>1, RowsChange
      <3>. QED
        BY <2>1, <3>4, <3>5, <3>6
    <2>. QED
      BY <1>1, <2>1, <2>2 DEF Next, Tick, vars, dbVars
  <1>. QED
    BY <1>1, Invariance, PTL DEF Spec, ChangesLast

-----------------------------------------------------------------------------
(* Only a timer that is over can have run for longer than the schema of    *)
(* the output takes: the clock never passes the largest safe integer.      *)
LEMMA LongRow ==
  ASSUME NEW row \in Entry, now \in 0 .. MaxTime, Running(row) => row.startedAt >= 0,
         ~Valid({row})
  PROVE  TooLong(row)
  <1>1. ~(durationMs(row) <= MaxSafe)
    BY DEF Valid
  <1>2. /\ row.startedAt \in Int /\ row.stoppedAt \in Int \cup {Null}
        /\ now \in Int /\ 0 <= now /\ now <= MaxSafe /\ MaxSafe \in Nat
    BY TimesAssumption DEF Entry
  <1>3. CASE Running(row)
    BY <1>1, <1>2, <1>3 DEF durationMs
  <1>4. CASE ~Running(row)
    <2>1. row.stoppedAt \in Int
      BY <1>2, <1>4 DEF Running
    <2>. QED
      BY <1>1, <1>2, <1>4, <2>1 DEF durationMs, TooLong
  <1>. QED
    BY <1>3, <1>4

(* An answer concerns the request that gets it.                            *)
LEMMA OthersReplies ==
  ASSUME LocalInv, NEW r \in Requests, NEW status, NEW owners, Answer(r, status, owners)
  PROVE  /\ \A s \in Requests \ {r} : reply'[s] = reply[s]
         /\ reply'[r].status = status
  BY DEF Answer, LocalInv

(* An answer other than 500 by a request that writes nothing.              *)
LEMMA PlainAnswer ==
  ASSUME IInv, NEW r \in Requests, NEW status, status # 500, NEW owners,
         Answer(r, status, owners), status = 200 \/ NoWrite
  PROVE  \A s \in Requests : LeavesNothing(s)
  <1>1. NoWrite => UNCHANGED <<tokens, projects, entries>>
    BY DEF NoWrite, dbVars
  <1>. QED
    BY <1>1, OthersReplies DEF IInv, LeavesNothing

(* Rows that a request reads and shows.                                    *)
LEMMA ShownRows ==
  ASSUME IInv, NEW r \in Requests, NEW ids,
         \A e \in ids : e \in Stored(entries) /\ entries[e].userId = user[r],
         Show(r, {entries[e] : e \in ids}), NoWrite
  PROVE  \A s \in Requests : LeavesNothing(s)
  <1>. DEFINE rows == {entries[e] : e \in ids}
  <1>1. CASE Valid(rows)
    BY <1>1, PlainAnswer DEF Show
  <1>2. CASE ~Valid(rows)
    <2>1. PICK e \in ids : ~(durationMs(entries[e]) <= MaxSafe)
      BY <1>2 DEF Valid
    <2>2. e \in EntryIds /\ e \in Stored(entries) /\ entries[e] \in Entry /\ entries[e].userId = user[r]
      BY DEF Stored, IInv, DbInv
    <2>3. TooLong(entries[e])
      BY <2>1, <2>2, LongRow DEF Valid, IInv, DbInv
    <2>4. UNCHANGED <<tokens, projects, entries>>
      BY DEF NoWrite, dbVars
    <2>5. Answer(r, 500, {})
      BY <1>2 DEF Show
    <2>6. /\ \A s \in Requests \ {r} : reply'[s] = reply[s]
          /\ reply'[r].status = 500
      BY <2>5, OthersReplies DEF IInv
    <2>7. LeavesNothing(r)
      BY <2>2, <2>3, <2>4, <2>6 DEF LeavesNothing
    <2>. QED
      BY <2>6, <2>7 DEF LeavesNothing
  <1>. QED
    BY <1>1, <1>2

(* A row that a request writes and shows.                                  *)
LEMMA ShownRow ==
  ASSUME IInv, NEW r \in Requests, NEW e \in EntryIds, NEW row \in Entry,
         row.userId = user[r], Running(row) => row.startedAt >= 0,
         SetEntry(r, e, row), Show(r, {row})
  PROVE  \A s \in Requests : LeavesNothing(s)
  <1>1. CASE Valid({row})
    BY <1>1, PlainAnswer DEF Show
  <1>2. CASE ~Valid({row})
    <2>1. TooLong(row)
      BY <1>2, LongRow DEF IInv, DbInv
    <2>2. entries' = [entries EXCEPT ![e] = row] /\ UNCHANGED <<tokens, projects>>
      BY DEF SetEntry
    <2>3. /\ e \in Stored(entries') /\ entries'[e] = row
          /\ \A x \in EntryIds \ {e} : entries'[x] = entries[x]
      BY <2>2, NullIsNone DEF IInv, DbInv, Stored
    <2>4. Answer(r, 500, {})
      BY <1>2 DEF Show
    <2>5. /\ \A s \in Requests \ {r} : reply'[s] = reply[s]
          /\ reply'[r].status = 500
      BY <2>4, OthersReplies DEF IInv
    <2>6. LeavesNothing(r)
      BY <2>1, <2>2, <2>3, <2>5 DEF LeavesNothing
    <2>. QED
      BY <2>5, <2>6 DEF LeavesNothing
  <1>. QED
    BY <1>1, <1>2

(* A request answered with an error has changed nothing, except for an     *)
(* entry that is too long to be shown.                                     *)
THEOREM ErrorsLeaveNothing == Spec => ErrorsChangeNothing
  <1>1. ASSUME IInv, NEW r \in Requests, Serve(r)
        PROVE  \A s \in Requests : LeavesNothing(s)
    <2>1. CASE UNCHANGED reply
      BY <2>1 DEF LeavesNothing
    <2>2. CASE Arrive(r) \/ RequireAuth(r) \/ Invalid(r) \/ GetPage(r) \/ GetMe(r) \/ GetProjects(r)
      BY <1>1, <2>1, <2>2, PlainAnswer
      DEF Arrive, RequireAuth, Invalid, GetPage, GetMe, GetProjects
    <2>3. CASE GetEntries(r)
      <3>1. PICK from \in Times \cup {Null}, to \in Times \cup {Null}, p \in ProjectIds \cup {Null} :
                   Show(r, {entries[e] : e \in Listed(user[r], from, to, p)})
        BY <2>3 DEF GetEntries
      <3>2. \A e \in Listed(user[r], from, to, p) : e \in Stored(entries) /\ entries[e].userId = user[r]
        BY DEF Listed
      <3>3. NoWrite
        BY <2>3 DEF GetEntries
      <3>. QED
        BY <1>1, <3>1, <3>2, <3>3, ShownRows
    <2>4. CASE GetRunning(r)
      <3>0. NoWrite
        BY <2>4 DEF GetRunning
      <3>1. CASE Show(r, {})
        <4>1. Valid({})
          BY DEF Valid
        <4>. QED
          BY <1>1, <3>0, <3>1, <4>1, PlainAnswer DEF Show
      <3>2. ASSUME NEW e \in RunningOf(user[r]), Show(r, {entries[e]})
            PROVE  \A s \in Requests : LeavesNothing(s)
        <4>1. PICK ids : ids = {e}
          OBVIOUS
        <4>2. \A x \in ids : x \in Stored(entries) /\ entries[x].userId = user[r]
          BY <4>1 DEF RunningOf
        <4>3. {entries[e]} = {entries[x] : x \in ids}
          BY <4>1
        <4>4. Show(r, {entries[x] : x \in ids})
          BY <3>2, <4>3
        <4>. QED
          BY <1>1, <3>0, <4>2, <4>4, ShownRows
      <3>. QED
        BY <2>4, <3>1, <3>2 DEF GetRunning
    <2>5. CASE PostToken(r) \/ PostProject(r) \/ DeleteProject(r) \/ DeleteEntry(r)
      <3>1. \E status \in {200, 403, 404} : \E owners :
              Answer(r, status, owners) /\ (status = 200 \/ NoWrite)
        <4>1. CASE PostToken(r)
          BY <4>1 DEF PostToken
        <4>2. CASE PostProject(r)
          <5>1. Answer(r, 200, {user[r]})
            BY <4>2 DEF PostProject
          <5>. QED
            BY <5>1
        <4>3. CASE DeleteProject(r)
          BY <4>3 DEF DeleteProject
        <4>4. CASE DeleteEntry(r)
          BY <4>4 DEF DeleteEntry
        <4>. QED
          BY <2>5, <4>1, <4>2, <4>3, <4>4
      <3>. QED
        BY <1>1, <3>1, PlainAnswer
    <2>6. CASE UpdateProject(r)
      BY <1>1, <2>6, PlainAnswer DEF UpdateProject
    <2>7. CASE PatchProject(r) \/ StartTimer(r) \/ StopTimer(r)
      <3>1. UNCHANGED reply \/ \E status \in {404, 409} : \E owners : Answer(r, status, owners)
        <4>1. CASE PatchProject(r)
          BY <4>1 DEF PatchProject, Goto
        <4>2. CASE StartTimer(r)
          BY <4>2 DEF StartTimer, Goto
        <4>3. CASE StopTimer(r)
          BY <4>3 DEF StopTimer, Goto
        <4>. QED
          BY <2>7, <4>1, <4>2, <4>3
      <3>2. NoWrite
        BY <2>7 DEF PatchProject, StartTimer, StopTimer
      <3>. QED
        BY <1>1, <2>1, <3>1, <3>2, PlainAnswer
    <2>8. CASE FindProject(r) \/ PostEntry(r)
      BY <1>1, <2>1, <2>8, PlainAnswer DEF FindProject, PostEntry, CheckProject, Goto
    <2>9. CASE InsertEntry(r)
      <3>1. pc[r] = "inserting" /\ user[r] \in Users /\ now \in Nat
            /\ input[r] \in EntryInput
            /\ (input[r].startedAt = Null <=> input[r].stoppedAt = Null)
        BY <1>1, <2>9, TimesAssumption DEF InsertEntry, IInv, LocalInv, InHand, DbInv
      <3>. DEFINE row == [userId |-> user[r], projectId |-> input[r].projectId,
                          startedAt |-> IF input[r].startedAt = Null THEN now ELSE input[r].startedAt,
                          stoppedAt |-> input[r].stoppedAt]
      <3>2. PICK e \in EntryIds \ issued : SetEntry(r, e, row) /\ Show(r, {row})
        BY <2>9 DEF InsertEntry
      <3>3. row \in Entry /\ row.userId = user[r] /\ (Running(row) => row.startedAt >= 0)
        BY <3>1 DEF Entry, EntryInput, Running
      <3>. HIDE DEF row
      <3>. QED
        BY <1>1, <3>2, <3>3, ShownRow
    <2>10. CASE UpdateEntry(r)
      <3>1. pc[r] = "stopping" /\ read[r].id \in EntryIds /\ read[r].row \in Entry
            /\ read[r].row.userId = user[r] /\ now \in Nat
        BY <1>1, <2>10, TimesAssumption
        DEF UpdateEntry, IInv, LocalInv, InHand, DbInv, HeldInv, Held, Claim
      <3>. DEFINE row == [read[r].row EXCEPT !.stoppedAt = now]
      <3>2. SetEntry(r, read[r].id, row) /\ Show(r, {row})
        BY <2>10 DEF UpdateEntry
      <3>3. row \in Entry /\ row.userId = user[r] /\ ~Running(row)
        BY <3>1, NullIsNone DEF Entry, Running
      <3>. HIDE DEF row
      <3>. QED
        BY <1>1, <3>1, <3>2, <3>3, ShownRow
    <2>. QED
      BY <1>1, <2>2, <2>3, <2>4, <2>5, <2>6, <2>7, <2>8, <2>9, <2>10 DEF Serve
  <1>2. ASSUME IInv, [Next]_vars
        PROVE  [\A r \in Requests : LeavesNothing(r)]_vars
    <2>1. CASE UNCHANGED reply
      BY <2>1 DEF LeavesNothing
    <2>. QED
      BY <1>1, <1>2, <2>1 DEF Next, Tick, localVars
  <1>. QED
    BY <1>2, Invariance, PTL DEF Spec, ErrorsChangeNothing

=============================================================================
