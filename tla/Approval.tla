-------------------------------- MODULE Approval --------------------------------
(***************************************************************************)
(* What the agent promises OpenCode for every permission or question: one  *)
(* answer, the first that arrives, or "ask", which leaves the request to   *)
(* the terminal; and always an end.                                        *)
(***************************************************************************)
EXTENDS BuddyBase

VARIABLES
  phase,  \* "idle", "pending" or "settled"
  answer  \* what the ask has been answered with, None while nothing was

vars == <<phase, answer>>

Init ==
  /\ phase = [a \in Asks |-> "idle"]
  /\ answer = [a \in Asks |-> None]

Ask(a) ==
  /\ phase[a] = "idle"
  /\ phase' = [phase EXCEPT ![a] = "pending"]
  /\ UNCHANGED answer

Unanswered == {a \in Asks : phase[a] = "pending" /\ answer[a] = None}

(* The user answers on the device.                                         *)
Answer(a) ==
  /\ a \in Unanswered
  /\ \E x \in Answers(a) : answer' = [answer EXCEPT ![a] = x]
  /\ UNCHANGED phase

(* Asks answered at the terminal.                                          *)
Withdraw(gone) ==
  /\ gone \subseteq Unanswered
  /\ answer' = [a \in Asks |-> IF a \in gone THEN "ask" ELSE answer[a]]
  /\ UNCHANGED phase

(* Time runs out, or the answer that came is passed on.                    *)
Settle(a) ==
  /\ phase[a] = "pending"
  /\ phase' = [phase EXCEPT ![a] = "settled"]
  /\ answer' = IF answer[a] = None THEN [answer EXCEPT ![a] = "ask"] ELSE answer

Respond(a) ==
  /\ phase[a] = "settled"
  /\ phase' = [phase EXCEPT ![a] = "idle"]
  /\ answer' = [answer EXCEPT ![a] = None]

Next ==
  \/ \E a \in Asks : Ask(a) \/ Answer(a) \/ Settle(a) \/ Respond(a)
  \/ \E gone \in SUBSET Asks : Withdraw(gone)

Spec == Init /\ [][Next]_vars

LiveSpec == Spec /\ \A a \in Asks : WF_vars(Settle(a)) /\ WF_vars(Respond(a))
================================================================================
