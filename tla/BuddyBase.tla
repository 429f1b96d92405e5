------------------------------- MODULE BuddyBase -------------------------------
(***************************************************************************)
(* What the agent, the OpenCode plugin and the device agree on: the        *)
(* permission requests and questions OpenCode raises, the sessions they    *)
(* belong to, and the answers a user can give on the device.               *)
(***************************************************************************)
EXTENDS Naturals, Sequences, FiniteSets

CONSTANTS
  Sessions,   \* OpenCode session identifiers
  Perms,      \* permission request identifiers
  Questions,  \* device ids of questions: "<request>" or "<request>#<index>"
  SessionOf,  \* the sessionID field of each permission
  RequestOf,  \* the question request each device id belongs to
  Options,    \* the option labels of a question, in the order shown
  None        \* absent prompt, question or request

Asks == Perms \cup Questions

Offered == {Options[i] : i \in DOMAIN Options}

(* What the buttons send for a permission, and for a question: an option   *)
(* stands for its label and, from the agent on, for the text the agent     *)
(* makes of the list the label travels in (agent.py:891).                  *)
PermAnswers == {"once", "always", "deny"}
QuestionAnswers == Offered \cup {"reject"}
Answers(a) == IF a \in Perms THEN PermAnswers ELSE QuestionAnswers

ASSUME BaseAssumption ==
  /\ SessionOf \in [Perms -> Sessions]
  /\ DOMAIN RequestOf = Questions
  /\ Options # <<>> /\ Options \in Seq(Offered)
  /\ Perms \cap Questions = {}
  /\ None \notin Asks \cup {"ask"} \cup PermAnswers \cup QuestionAnswers
  /\ {"ask", "open", "absent"} \cap (PermAnswers \cup QuestionAnswers) = {}
  /\ "background" \notin Asks

(* The prompt and the question of a snapshot.                              *)
Payloads == [prompt : Perms \cup {None}, question : Questions \cup {None}]

PermsOf(s) == {r \in Perms : SessionOf[r] = s}
================================================================================
