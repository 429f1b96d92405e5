----------------------------- MODULE MCBuddyAgent ------------------------------
(***************************************************************************)
(* Small instances of the agent on its own.                                *)
(***************************************************************************)
EXTENDS BuddyAgent, TLC

CONSTANTS c1, c2

(* Every permission in one session, all questions parts of one request.    *)
OneSession == [r \in Perms |-> CHOOSE s \in Sessions : TRUE]
OneRequest == [q \in Questions |-> "request"]

OneOption == <<c1>>
TwoOptions == <<c1, c2>>

(* Permissions overlap, or questions do.                                    *)
PermsOrQuestions == {Perms, Questions}
AllAsks == {Asks}

Symmetry == Permutations(Perms) \cup Permutations(Questions)
================================================================================
