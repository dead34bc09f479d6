--------------------------- MODULE MCTimeTracking ---------------------------
(* TimeTracking with two users: u1, who has a project and an entry that    *)
(* runs, is over, outlives its project or is not there yet, and u2, who    *)
(* has a project or none.                                                  *)
EXTENDS TimeTracking, TLC

CONSTANTS u1, u2, t1, t2, p1, p2, e1

MCTimes == {-2, 0, 1}

With(map, ids) == [x \in ids |-> IF x \in DOMAIN map THEN map[x] ELSE Null]
Old(u) == [userId |-> u, name |-> "old", color |-> "old"]
First(p, to) == e1 :> [userId |-> u1, projectId |-> p, startedAt |-> 0, stoppedAt |-> to]

MCStores ==
  {[tokens |-> With(t1 :> u1 @@ t2 :> u2, Tokens),
    projects |-> With(s[1], ProjectIds),
    entries |-> With(s[2], EntryIds), demoAuth |-> s[3]] :
     s \in { << <<>>, <<>>, TRUE >>,
             << p1 :> Old(u1), First(Null, Null), TRUE >>,
             << p2 :> Old(u2), First(p1, Null), TRUE >>,
             << p1 :> Old(u1) @@ p2 :> Old(u2), First(p1, 0), FALSE >> }}

Symmetry == Permutations(Requests)
=============================================================================
