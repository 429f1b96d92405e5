-------------------------------- MODULE MCSystem --------------------------------
(***************************************************************************)
(* Small instances of plugin, agent and device together.                   *)
(***************************************************************************)
EXTENDS ApprovalSystem, TLC

CONSTANTS c1, c2

OneSession == [r \in Perms |-> CHOOSE s \in Sessions : TRUE]

OneOption == <<c1>>
TwoOptions == <<c1, c2>>

(* All permissions together, or all questions together.                    *)
PermsOrQuestions == {Perms, Questions}

(* The same, and the permission of the older dialect alone.                *)
LegacyAlone == {Legacy, Perms \ Legacy, Questions}

(* All questions are parts of one request, in some order.                  *)
OneRequest == [q \in Questions |-> "request"]
OneRequestParts ==
  [r \in {"request" : q \in Questions} |->
     CHOOSE f \in [1..Cardinality(Questions) -> Questions] :
       \A i, j \in DOMAIN f : f[i] = f[j] => i = j]

Taps == {NoEvent, <<"A", "down">>, <<"A", "up">>}
TapsAndDeny == Taps \cup {<<"B", "down">>, <<"B", "up">>}
================================================================================
