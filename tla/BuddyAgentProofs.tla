---------------------------- MODULE BuddyAgentProofs ----------------------------
(***************************************************************************)
(* What holds of the agent for any sessions, permissions, questions and    *)
(* options, and for any bound on the queue of background writes.           *)
(***************************************************************************)
EXTENDS BuddyAgent, TLAPS

SessionTypeOK ==
  /\ rtState \in [Sessions -> States \cup {"absent"}]
  /\ rtPending \in [Sessions -> Perms \cup {None}]
  /\ recState \in [Sessions -> States \cup {"absent"}]
  /\ recPrompt \in [Sessions -> Perms \cup {None}]
  /\ fresh \in SUBSET Sessions
  /\ catReq \in SUBSET Perms
  /\ reqControl \in SUBSET Perms

(* Applying an event of a session, and resolving a permission, keep the    *)
(* types of the session state (agent.py:764-806).                          *)
LEMMA ApplyTyped ==
  ASSUME SessionTypeOK,
         NEW s \in Sessions, NEW state \in States \cup {"absent"},
         NEW prompt \in Perms \cup {None},
         Apply(s, state, prompt), reqControl' \in SUBSET Perms
  PROVE  SessionTypeOK'
BY BaseAssumption DEF SessionTypeOK, Apply, KeepRuntimes, UpsertKeys, PermsOf, Asks

LEMMA ResolveTyped ==
  ASSUME SessionTypeOK, NEW r \in Perms, Resolve(r)
  PROVE  SessionTypeOK'
<1> DEFINE s == SessionOf[r]
           hit == RuntimePends(r)
           mine == hit /\ rtPending[s] = r
           prompt == IF mine THEN None ELSE rtPending[s]
           state == IF mine THEN "running" ELSE rtState[s]
           keys == IF hit THEN UpsertKeys(s, prompt) ELSE catReq
<1>1. s \in Sessions /\ state \in States \cup {"absent"} /\ prompt \in Perms \cup {None}
  BY BaseAssumption DEF SessionTypeOK, States
<1>2. hit => prompt = None \/ prompt \in Perms
  BY <1>1
<1>3. keys \in SUBSET Perms
  BY <1>1 DEF UpsertKeys, SessionTypeOK
<1>4. reqControl' \in SUBSET Perms /\ catReq' \in SUBSET Perms /\ fresh' \in SUBSET Sessions
  BY <1>1, <1>3 DEF Resolve, SessionTypeOK
<1>5. recState' \in [Sessions -> States \cup {"absent"}]
  BY <1>1 DEF Resolve, SessionTypeOK, States
<1>6. recPrompt' \in [Sessions -> Perms \cup {None}]
  BY <1>1 DEF Resolve, SessionTypeOK
<1>7. rtState' \in [Sessions -> States \cup {"absent"}] /\ rtPending' \in [Sessions -> Perms \cup {None}]
  BY <1>1 DEF Resolve, SessionTypeOK, KeepRuntimes
<1>8. QED
  BY <1>4, <1>5, <1>6, <1>7 DEF SessionTypeOK

(* A snapshot carries a known prompt and a known question (catalog.py:111, *)
(* agent.py:938), and so does every write that is queued.                  *)
LEMMA PublishTyped ==
  ASSUME recPrompt' \in [Sessions -> Perms \cup {None}],
         activeQ' \in Questions \cup {None},
         lastPayload \in Payloads, outq \in Seq(Writes),
         NEW owner \in Owners, NEW forced, NEW sends, Publish(owner, forced, sends)
  PROVE  lastPayload' \in Payloads /\ outq' \in Seq(Writes)
<1>1. ShownPrompt' \in Perms \cup {None}
  <2>1. CASE \E s \in Sessions : ManagedWaiting' = {s}
    <3>1. (CHOOSE s \in Sessions : ManagedWaiting' = {s}) \in Sessions
      BY <2>1
    <3>2. QED
      BY <2>1, <3>1 DEF ShownPrompt
  <2>2. CASE ~\E s \in Sessions : ManagedWaiting' = {s}
    BY <2>2 DEF ShownPrompt
  <2>3. QED
    BY <2>1, <2>2
<1>2. Payload' \in Payloads
  BY <1>1 DEF Payload, Payloads
<1>3. [owner |-> owner, payload |-> Payload'] \in Writes
  BY <1>2 DEF Writes
<1>4. QED
  BY <1>2, <1>3 DEF Publish

(* The future of an ask is absent, open or one of its results.             *)
Futures == {"absent", "open", "ask"} \cup PermAnswers \cup QuestionAnswers
Decisions == {"ask"} \cup PermAnswers \cup QuestionAnswers

LEMMA AnswersTyped ==
  ASSUME NEW a \in Asks
  PROVE  Answers(a) \subseteq PermAnswers \cup QuestionAnswers
BY DEF Answers

LEMMA BodyTyped ==
  ASSUME AgentTypeOK, NEW a \in Asks, Body(a)
  PROVE  AgentTypeOK'
<1>1. SessionTypeOK
  BY DEF AgentTypeOK, SessionTypeOK
<1>2. ASSUME a \in Perms, PermBody(a)
      PROVE  /\ SessionTypeOK' /\ task' \in [Asks -> Stages] /\ waiter' \in [Asks -> Futures]
             /\ activeQ' = activeQ /\ lastPayload' \in Payloads /\ outq' \in Seq(Writes)
  <2>1. CASE a \in catReq
    BY <1>1, <1>2, <2>1 DEF PermBody, AgentTypeOK, SessionTypeOK, Stages, Futures, sessionVars, pubVars
  <2>2. CASE a \notin catReq
    <3>1. Approval(a) /\ activeQ' = activeQ
      BY <1>2, <2>2 DEF PermBody
    <3>2. SessionTypeOK'
      <4>1. SessionOf[a] \in Sessions
        BY <1>2, BaseAssumption
      <4>2. Apply(SessionOf[a], "waiting", a) /\ reqControl' = reqControl \cup {a}
        BY <3>1 DEF Approval
      <4>3. reqControl' \in SUBSET Perms
        BY <1>1, <1>2, <4>2 DEF SessionTypeOK
      <4>4. QED
        BY <1>1, <1>2, <4>1, <4>2, <4>3, ApplyTyped DEF States
    <3>3. PICK sends \in BOOLEAN :
            /\ Publish(a, FALSE, sends)
            /\ task' = [task EXCEPT ![a] = IF sends THEN "showing" ELSE "waiting"]
            /\ waiter' = IF sends THEN waiter ELSE [waiter EXCEPT ![a] = "open"]
      BY <1>2, <2>2 DEF PermBody
    <3>4. lastPayload' \in Payloads /\ outq' \in Seq(Writes)
      BY <3>1, <3>2, <3>3, PublishTyped DEF SessionTypeOK, AgentTypeOK, Owners
    <3>5. task' \in [Asks -> Stages] /\ waiter' \in [Asks -> Futures]
      BY <3>3 DEF AgentTypeOK, Stages, Futures
    <3>6. QED
      BY <3>1, <3>2, <3>4, <3>5
  <2>3. QED
    BY <2>1, <2>2
<1>3. ASSUME a \in Questions, QuestionBody(a)
      PROVE  /\ SessionTypeOK' /\ task' \in [Asks -> Stages] /\ waiter' \in [Asks -> Futures]
             /\ activeQ' = a /\ lastPayload' \in Payloads /\ outq' \in Seq(Writes)
  <2>1. SessionTypeOK' /\ activeQ' = a
    BY <1>1, <1>3 DEF QuestionBody, SessionTypeOK, KeepRuntimes, States
  <2>2. PICK sends \in BOOLEAN :
          /\ Publish(a, FALSE, sends)
          /\ task' = [task EXCEPT ![a] = IF sends THEN "showing" ELSE "waiting"]
    BY <1>3 DEF QuestionBody
  <2>3. lastPayload' \in Payloads /\ outq' \in Seq(Writes)
    BY <1>3, <2>1, <2>2, PublishTyped DEF SessionTypeOK, AgentTypeOK, Owners
  <2>4. task' \in [Asks -> Stages] /\ waiter' \in [Asks -> Futures]
    BY <1>3, <2>2 DEF QuestionBody, AgentTypeOK, Stages, Futures
  <2>5. QED
    BY <2>1, <2>3, <2>4
<1>4. a \in Perms \/ a \in Questions
  BY DEF Asks
<1>5. UNCHANGED <<decision, linkVars>>
  BY DEF Body
<1>6. CASE a \in Perms
  <2>1. PermBody(a)
    BY <1>6 DEF Body
  <2>2. QED
    BY <1>2, <1>5, <1>6, <2>1 DEF AgentTypeOK, SessionTypeOK, Futures, linkVars
<1>7. CASE a \notin Perms
  <2>1. QuestionBody(a) /\ a \in Questions
    BY <1>4, <1>7 DEF Body
  <2>2. QED
    BY <1>3, <1>5, <2>1 DEF AgentTypeOK, SessionTypeOK, Futures, linkVars
<1>8. QED
  BY <1>6, <1>7

LEMMA SettleTyped ==
  ASSUME AgentTypeOK, NEW a \in Asks, NEW d \in Decisions, Settle(a, d)
  PROVE  AgentTypeOK'
<1>1. SessionTypeOK
  BY DEF AgentTypeOK, SessionTypeOK
<1>2. SessionTypeOK' /\ activeQ' \in Questions \cup {None}
  <2>1. CASE a \in Perms
    BY <1>1, <2>1, ResolveTyped DEF Settle, AgentTypeOK
  <2>2. CASE a \notin Perms
    BY <1>1, <2>2 DEF Settle, AgentTypeOK, SessionTypeOK, KeepRuntimes, FreeSlot
  <2>3. QED
    BY <2>1, <2>2
<1>3. PICK sends \in BOOLEAN :
        /\ Publish(a, FALSE, sends)
        /\ task' = [task EXCEPT ![a] = IF sends THEN "clearing" ELSE "done"]
  BY DEF Settle
<1>4. lastPayload' \in Payloads /\ outq' \in Seq(Writes)
  BY <1>2, <1>3, PublishTyped DEF SessionTypeOK, AgentTypeOK, Owners
<1>5. task' \in [Asks -> Stages]
  BY <1>3 DEF AgentTypeOK, Stages
<1>6. waiter' \in [Asks -> Futures] /\ decision' \in [Asks -> Decisions]
  BY DEF Settle, DropFuture, AgentTypeOK, Futures, Decisions
<1>7. UNCHANGED linkVars
  BY DEF Settle
<1>8. QED
  BY <1>2, <1>4, <1>5, <1>6, <1>7 DEF AgentTypeOK, SessionTypeOK, Futures, Decisions, linkVars

LEMMA ContinueTyped ==
  ASSUME AgentTypeOK, NEW owner \in Owners, Continue(owner)
  PROVE  task' \in [Asks -> Stages] /\ waiter' \in [Asks -> Futures] /\ decision' = decision
<1>1. CASE Publishes(owner, "showing")
  BY <1>1 DEF Continue, Publishes, AgentTypeOK, Stages, Futures
<1>2. CASE Publishes(owner, "clearing")
  BY <1>2 DEF Continue, Publishes, AgentTypeOK, Stages, Futures
<1>3. CASE ~Publishes(owner, "showing") /\ ~Publishes(owner, "clearing")
  BY <1>3 DEF Continue, AgentTypeOK, Futures
<1>4. QED
  BY <1>1, <1>2, <1>3

(* A step whose publisher is the loop itself: a session event, a notice, a *)
(* keepalive or a new link.                                                *)
LEMMA BackgroundTyped ==
  ASSUME AgentTypeOK, SessionTypeOK', NEW forced,
         task' = task, decision' = decision, activeQ' = activeQ,
         waiter' \in [Asks -> Futures], unlinking' = unlinking,
         bleUp' \in BOOLEAN, otaClaimed' = otaClaimed,
         \E sends \in BOOLEAN : Publish("background", forced, sends)
  PROVE  AgentTypeOK'
<1>1. PICK sends \in BOOLEAN : Publish("background", forced, sends)
  OBVIOUS
<1>2. lastPayload' \in Payloads /\ outq' \in Seq(Writes)
  BY <1>1, PublishTyped DEF SessionTypeOK, AgentTypeOK, Owners
<1>3. QED
  BY <1>2 DEF AgentTypeOK, SessionTypeOK, Futures

(* Every step of the agent, with any other asks in progress: its own, and  *)
(* those for an answer of the device.                                      *)
OwnSteps ==
  \/ \E s \in Busy : SessionEvent(s) \/ Expire(s)
  \/ \E r \in Perms : PermissionUpdated(r) \/ PermissionReplied(r)
  \/ \E q \in Questions : QuestionResolved(RequestOf[q])
  \/ \E a \in Asks :
       \/ AskStart(a)
       \/ AskLinked(a) \/ AskUnlinked(a)
       \/ AskAnswered(a) \/ AskTimedOut(a) \/ AskResponded(a)
       \/ Unlinked(a)
  \/ WriteDone \/ WriteFailed
  \/ BleConnected \/ BleLost \/ Keepalive
  \/ OtaBegin \/ OtaEnd
  \/ UNCHANGED agentVars

AgentSteps == OwnSteps \/ \E a \in Asks : \E answer \in Answers(a) : DeviceAnswer(a, answer)

LEMMA StepsOfNext == [AgentNext]_agentVars => AgentSteps
BY DEF AgentNext, AgentSteps, OwnSteps

(* Every step keeps the types.                                             *)
LEMMA TypeStep ==
  ASSUME AgentTypeOK, AgentSteps
  PROVE  AgentTypeOK'
<1>1. SessionTypeOK
  BY DEF AgentTypeOK, SessionTypeOK
<1>2. ASSUME NEW s \in Busy, SessionEvent(s)
      PROVE  AgentTypeOK'
  <2>1. s \in Sessions /\ CurrentState(s) \in States \cup {"absent"} /\ rtPending[s] \in Perms \cup {None}
    BY AgentAssumption DEF AgentTypeOK, CurrentState, States
  <2>2. PICK state \in States \cup {"absent"} : Apply(s, state, rtPending[s]) /\ reqControl' = reqControl
    BY <1>2, <2>1 DEF SessionEvent, Turn, Output, Usage, States
  <2>3. SessionTypeOK'
    BY <1>1, <2>1, <2>2, ApplyTyped DEF SessionTypeOK
  <2>4. QED
    BY <1>2, <2>3, BackgroundTyped DEF SessionEvent, AgentTypeOK, Futures, askVars, linkVars
<1>3. ASSUME NEW s \in Busy, Expire(s)
      PROVE  AgentTypeOK'
  BY <1>3 DEF Expire, AgentTypeOK, askVars, linkVars, pubVars
<1>4. ASSUME NEW r \in Perms, PermissionUpdated(r)
      PROVE  AgentTypeOK'
  <2>1. Apply(SessionOf[r], "waiting", r) /\ reqControl' = reqControl \cup {r}
    BY <1>4 DEF PermissionUpdated, Approval
  <2>2. SessionTypeOK'
    BY <1>1, <2>1, BaseAssumption, ApplyTyped DEF SessionTypeOK, States
  <2>3. QED
    BY <1>4, <2>2, BackgroundTyped DEF PermissionUpdated, AgentTypeOK, Futures, askVars, linkVars
<1>5. ASSUME NEW r \in Perms, PermissionReplied(r)
      PROVE  AgentTypeOK'
  <2>1. SessionTypeOK'
    BY <1>1, <1>5, ResolveTyped DEF PermissionReplied
  <2>2. waiter' \in [Asks -> Futures]
    BY <1>5 DEF PermissionReplied, AgentTypeOK, Futures
  <2>3. QED
    BY <1>5, <2>1, <2>2, BackgroundTyped DEF PermissionReplied, AgentTypeOK, linkVars
<1>6. ASSUME NEW q \in Questions, QuestionResolved(RequestOf[q])
      PROVE  AgentTypeOK'
  <2>1. SessionTypeOK'
    BY <1>1, <1>6 DEF QuestionResolved, SessionTypeOK, KeepRuntimes
  <2>2. waiter' \in [Asks -> Futures]
    BY <1>6 DEF QuestionResolved, AgentTypeOK, Futures
  <2>3. QED
    BY <1>6, <2>1, <2>2, BackgroundTyped DEF QuestionResolved, AgentTypeOK, linkVars
<1>7. ASSUME NEW a \in Asks, AskStart(a)
      PROVE  AgentTypeOK'
  <2>1. CASE bleUp
    BY <1>7, <2>1, BodyTyped DEF AskStart
  <2>2. CASE ~bleUp
    BY <1>7, <2>2 DEF AskStart, AgentTypeOK, Stages, sessionVars, linkVars, pubVars
  <2>3. QED
    BY <2>1, <2>2
<1>8. ASSUME NEW a \in Asks, AskLinked(a)
      PROVE  AgentTypeOK'
  BY <1>8, BodyTyped DEF AskLinked
<1>9. ASSUME NEW a \in Asks, AskUnlinked(a)
      PROVE  AgentTypeOK'
  BY <1>9 DEF AskUnlinked, AgentTypeOK, Stages, sessionVars, linkVars, pubVars
<1>10. ASSUME NEW a \in Asks, AskAnswered(a)
       PROVE  AgentTypeOK'
  BY <1>10, SettleTyped DEF AskAnswered, AgentTypeOK, Decisions
<1>11. ASSUME NEW a \in Asks, AskTimedOut(a)
       PROVE  AgentTypeOK'
  BY <1>11, SettleTyped DEF AskTimedOut, Decisions
<1>12. ASSUME NEW a \in Asks, AskResponded(a)
       PROVE  AgentTypeOK'
  BY <1>12 DEF AskResponded, AgentTypeOK, Stages, sessionVars, linkVars, pubVars
<1>13. ASSUME NEW a \in Asks, Unlinked(a)
       PROVE  AgentTypeOK'
  <2>1. task' \in [Asks -> Stages] /\ waiter' \in [Asks -> Futures] /\ decision' = decision
    BY <1>13, ContinueTyped DEF Unlinked, Owners
  <2>2. QED
    BY <1>13, <2>1 DEF Unlinked, AgentTypeOK, Futures, sessionVars, pubVars
<1>14. ASSUME NEW a \in Asks, NEW answer \in Answers(a), DeviceAnswer(a, answer)
       PROVE  AgentTypeOK'
  <2>1. waiter' \in [Asks -> Futures]
    BY <1>14, AnswersTyped DEF DeviceAnswer, AgentTypeOK, Futures
  <2>2. QED
    BY <1>14, <2>1 DEF DeviceAnswer, AgentTypeOK, Futures, sessionVars, linkVars, pubVars
<1>15. ASSUME WriteDone
       PROVE  AgentTypeOK'
  <2>1. Head(outq) \in Writes /\ outq' \in Seq(Writes)
    BY <1>15 DEF WriteDone, AgentTypeOK
  <2>2. task' \in [Asks -> Stages] /\ waiter' \in [Asks -> Futures] /\ decision' = decision
    BY <1>15, <2>1, ContinueTyped DEF WriteDone, Writes
  <2>3. QED
    BY <1>15, <2>1, <2>2 DEF WriteDone, AgentTypeOK, Futures, sessionVars, linkVars
<1>16. ASSUME WriteFailed
       PROVE  AgentTypeOK'
  <2>1. outq' \in Seq(Writes)
    BY <1>16 DEF WriteFailed, AgentTypeOK
  <2>2. QED
    BY <1>16, <2>1 DEF WriteFailed, AgentTypeOK, sessionVars, askVars
<1>17. ASSUME BleConnected
       PROVE  AgentTypeOK'
  <2>1. SessionTypeOK'
    BY <1>1, <1>17 DEF BleConnected, SessionTypeOK, KeepRuntimes
  <2>2. QED
    BY <1>17, <2>1, BackgroundTyped DEF BleConnected, AgentTypeOK, Futures, askVars
<1>18. ASSUME BleLost
       PROVE  AgentTypeOK'
  BY <1>18 DEF BleLost, AgentTypeOK, sessionVars, askVars, pubVars
<1>19. ASSUME Keepalive
       PROVE  AgentTypeOK'
  <2>1. SessionTypeOK'
    BY <1>1, <1>19 DEF Keepalive, SessionTypeOK, KeepRuntimes
  <2>2. QED
    BY <1>19, <2>1, BackgroundTyped DEF Keepalive, AgentTypeOK, Futures, askVars, linkVars
<1>20. ASSUME OtaBegin \/ OtaEnd
       PROVE  AgentTypeOK'
  BY <1>20 DEF OtaBegin, OtaEnd, AgentTypeOK, sessionVars, askVars, pubVars
<1>21. ASSUME UNCHANGED agentVars
       PROVE  AgentTypeOK'
  BY <1>21 DEF agentVars, AgentTypeOK, sessionVars, askVars, linkVars, pubVars
<1>22. QED
  BY <1>2, <1>3, <1>4, <1>5, <1>6, <1>7, <1>8, <1>9, <1>10, <1>11, <1>12, <1>13, <1>14,
     <1>15, <1>16, <1>17, <1>18, <1>19, <1>20, <1>21 DEF AgentSteps, OwnSteps

LEMMA TypeInit ==
  ASSUME AgentInit
  PROVE  AgentTypeOK
<1>1. lastPayload \in Payloads
  BY DEF AgentInit, Payloads, NoPayload
<1>2. outq \in Seq(Writes)
  BY DEF AgentInit
<1>3. task \in [Asks -> Stages] /\ waiter \in [Asks -> Futures] /\ decision \in [Asks -> Decisions]
  BY DEF AgentInit, Stages, Futures, Decisions
<1>4. SessionTypeOK
  BY DEF AgentInit, SessionTypeOK
<1>5. activeQ \in Questions \cup {None} /\ unlinking \in SUBSET Asks /\ {bleUp, otaClaimed} \subseteq BOOLEAN
  BY DEF AgentInit
<1>6. QED
  BY <1>1, <1>2, <1>3, <1>4, <1>5 DEF SessionTypeOK, Futures, Decisions, AgentTypeOK

(* Type correctness of every reachable state of the agent.                 *)
THEOREM AgentTypes == AgentSpec => []AgentTypeOK
<1>1. AgentTypeOK /\ [AgentNext]_agentVars => AgentTypeOK'
  BY TypeStep, StepsOfNext
<1>2. QED
  BY <1>1, TypeInit, PTL DEF AgentSpec

--------------------------------------------------------------------------------
(* The answers are none of the marks the agent keeps in place of one.      *)
LEMMA AnswersNoMarks ==
  ASSUME NEW a \in Asks, NEW x \in Answers(a)
  PROVE  x \notin {"absent", "open", "ask"}
BY BaseAssumption, AnswersTyped

LEMMA WaiterBody ==
  ASSUME AgentTypeOK, WaiterOwned, NEW a \in Asks, task[a] \in {"idle", "connecting"}, Body(a)
  PROVE  WaiterOwned'
<1>1. waiter[a] = "absent"
  BY DEF WaiterOwned
<1>2. CASE a \in Perms
  <2>1. \/ task' = [task EXCEPT ![a] = "waiting"] /\ waiter' = [waiter EXCEPT ![a] = "open"]
        \/ task' = [task EXCEPT ![a] = "showing"] /\ waiter' = waiter
    BY <1>2 DEF Body, PermBody
  <2>2. a \notin Questions
    BY <1>2, BaseAssumption
  <2>3. QED
    BY <1>1, <2>1, <2>2 DEF WaiterOwned, AgentTypeOK
<1>3. CASE a \notin Perms
  <2>1. /\ task' = [task EXCEPT ![a] = "waiting"] \/ task' = [task EXCEPT ![a] = "showing"]
        /\ waiter' = [waiter EXCEPT ![a] = "open"]
    BY <1>3 DEF Body, QuestionBody
  <2>2. a \in Questions
    BY <1>3 DEF Asks
  <2>3. QED
    BY <2>1, <2>2 DEF WaiterOwned, AgentTypeOK
<1>4. QED
  BY <1>2, <1>3

LEMMA WaiterSettle ==
  ASSUME AgentTypeOK, WaiterOwned, NEW a \in Asks, NEW d, Settle(a, d)
  PROVE  WaiterOwned'
<1>1. task' = [task EXCEPT ![a] = "clearing"] \/ task' = [task EXCEPT ![a] = "done"]
  BY DEF Settle
<1>2. waiter' = [waiter EXCEPT ![a] = "absent"]
  BY DEF Settle, DropFuture
<1>3. QED
  BY <1>1, <1>2 DEF WaiterOwned, AgentTypeOK

LEMMA WaiterContinue ==
  ASSUME AgentTypeOK, WaiterOwned, NEW owner, Continue(owner)
  PROVE  WaiterOwned'
<1>1. CASE Publishes(owner, "showing")
  <2>1. owner \in Asks /\ task' = [task EXCEPT ![owner] = "waiting"]
    BY <1>1 DEF Continue, Publishes
  <2>2. CASE owner \in Perms
    <3>1. waiter' = [waiter EXCEPT ![owner] = "open"]
      BY <1>1, <2>2 DEF Continue, Publishes
    <3>2. QED
      BY <2>1, <3>1 DEF WaiterOwned, AgentTypeOK
  <2>3. CASE owner \notin Perms
    <3>1. waiter' = waiter /\ owner \in Questions
      BY <1>1, <2>1, <2>3 DEF Continue, Publishes, Asks
    <3>2. waiter[owner] # "absent"
      BY <1>1, <2>1, <3>1 DEF Publishes, WaiterOwned
    <3>3. QED
      BY <2>1, <3>1, <3>2 DEF WaiterOwned, AgentTypeOK
  <2>4. QED
    BY <2>2, <2>3
<1>2. CASE Publishes(owner, "clearing")
  BY <1>2 DEF Continue, Publishes, WaiterOwned, AgentTypeOK
<1>3. CASE ~Publishes(owner, "showing") /\ ~Publishes(owner, "clearing")
  BY <1>3 DEF Continue, WaiterOwned
<1>4. QED
  BY <1>1, <1>2, <1>3

LEMMA WaiterStep ==
  ASSUME AgentTypeOK, WaiterOwned, [AgentNext]_agentVars
  PROVE  WaiterOwned'
<1>1. ASSUME UNCHANGED <<task, waiter>>
      PROVE  WaiterOwned'
  BY <1>1 DEF WaiterOwned
<1>2. ASSUME NEW s \in Busy, SessionEvent(s) \/ Expire(s)
      PROVE  WaiterOwned'
  BY <1>1, <1>2 DEF SessionEvent, Expire, askVars
<1>3. ASSUME NEW r \in Perms, PermissionUpdated(r)
      PROVE  WaiterOwned'
  BY <1>1, <1>3 DEF PermissionUpdated, askVars
<1>4. ASSUME NEW r \in Perms, PermissionReplied(r)
      PROVE  WaiterOwned'
  <2>1. task' = task /\ \A a \in Asks : waiter'[a] # "absent" <=> waiter[a] # "absent"
    BY <1>4 DEF PermissionReplied, AgentTypeOK
  <2>2. QED
    BY <2>1 DEF WaiterOwned
<1>5. ASSUME NEW q \in Questions, QuestionResolved(RequestOf[q])
      PROVE  WaiterOwned'
  <2>1. task' = task /\ \A a \in Asks : waiter'[a] # "absent" <=> waiter[a] # "absent"
    BY <1>5 DEF QuestionResolved, AgentTypeOK
  <2>2. QED
    BY <2>1 DEF WaiterOwned
<1>6. ASSUME NEW a \in Asks, AskStart(a)
      PROVE  WaiterOwned'
  <2>1. CASE bleUp
    BY <1>6, <2>1, WaiterBody DEF AskStart
  <2>2. CASE ~bleUp
    BY <1>6, <2>2 DEF AskStart, WaiterOwned, AgentTypeOK
  <2>3. QED
    BY <2>1, <2>2
<1>7. ASSUME NEW a \in Asks, AskLinked(a)
      PROVE  WaiterOwned'
  BY <1>7, WaiterBody DEF AskLinked
<1>8. ASSUME NEW a \in Asks, AskUnlinked(a) \/ AskResponded(a)
      PROVE  WaiterOwned'
  BY <1>8 DEF AskUnlinked, AskResponded, WaiterOwned, AgentTypeOK
<1>9. ASSUME NEW a \in Asks, AskAnswered(a) \/ AskTimedOut(a)
      PROVE  WaiterOwned'
  BY <1>9, WaiterSettle DEF AskAnswered, AskTimedOut
<1>10. ASSUME NEW a \in Asks, Unlinked(a)
       PROVE  WaiterOwned'
  BY <1>10, WaiterContinue DEF Unlinked
<1>11. ASSUME NEW a \in Asks, NEW answer \in Answers(a), DeviceAnswer(a, answer)
       PROVE  WaiterOwned'
  <2>1. task' = task /\ \A b \in Asks : waiter'[b] # "absent" <=> waiter[b] # "absent"
    BY <1>11, AnswersNoMarks DEF DeviceAnswer, Accepts, AgentTypeOK
  <2>2. QED
    BY <2>1 DEF WaiterOwned
<1>12. ASSUME WriteDone
       PROVE  WaiterOwned'
  BY <1>12, WaiterContinue DEF WriteDone
<1>13. ASSUME WriteFailed \/ BleConnected \/ BleLost \/ Keepalive \/ OtaBegin \/ OtaEnd
       PROVE  WaiterOwned'
  BY <1>1, <1>13 DEF WriteFailed, BleConnected, BleLost, Keepalive, OtaBegin, OtaEnd, askVars
<1>14. ASSUME UNCHANGED agentVars
       PROVE  WaiterOwned'
  BY <1>1, <1>14 DEF agentVars, askVars
<1>15. QED
  BY <1>2, <1>3, <1>4, <1>5, <1>6, <1>7, <1>8, <1>9, <1>10, <1>11, <1>12, <1>13, <1>14
  DEF AgentNext

LEMMA WaiterInit == AgentInit => WaiterOwned
BY DEF AgentInit, WaiterOwned

(* Futures and handlers go together (agent.py:752-760, 855-868).           *)
THEOREM WaitersOwned == AgentSpec => []WaiterOwned
<1>1. AgentInit => AgentTypeOK /\ WaiterOwned
  BY TypeInit, WaiterInit
<1>2. (AgentTypeOK /\ WaiterOwned) /\ [AgentNext]_agentVars => (AgentTypeOK /\ WaiterOwned)'
  BY TypeStep, StepsOfNext, WaiterStep
<1>3. QED
  BY <1>1, <1>2, PTL DEF AgentSpec

--------------------------------------------------------------------------------
(* Prompts.  PromptsIndexed is what makes PromptHasAsk inductive: without  *)
(* it a resolution could miss the prompt it is about.                      *)

LEMMA IndexedApply ==
  ASSUME SessionTypeOK, PromptsIndexed, NEW s \in Sessions, NEW state,
         NEW prompt \in PermsOf(s) \cup {None}, Apply(s, state, prompt),
         reqControl \subseteq reqControl', prompt # None => prompt \in reqControl'
  PROVE  PromptsIndexed'
<1>1. ASSUME NEW u \in Sessions, rtPending'[u] # None
      PROVE  rtPending'[u] \in PermsOf(u) \cap reqControl'
  <2>1. rtPending'[u] = IF u = s THEN prompt ELSE rtPending[u]
    BY <1>1 DEF Apply, KeepRuntimes, SessionTypeOK
  <2>2. QED
    BY <1>1, <2>1 DEF PromptsIndexed
<1>2. ASSUME NEW u \in Sessions, recPrompt'[u] # None
      PROVE  recPrompt'[u] \in PermsOf(u) \cap catReq'
  <2>1. recPrompt'[u] = IF u = s THEN prompt ELSE recPrompt[u]
    BY DEF Apply, SessionTypeOK
  <2>2. catReq' = UpsertKeys(s, prompt)
    BY DEF Apply
  <2>3. CASE u = s
    BY <1>2, <2>1, <2>2, <2>3 DEF UpsertKeys
  <2>4. CASE u # s
    <3>1. recPrompt'[u] \in PermsOf(u) \cap catReq
      BY <1>2, <2>1, <2>4 DEF PromptsIndexed
    <3>2. recPrompt'[u] \notin PermsOf(s)
      BY <2>4, <3>1 DEF PermsOf
    <3>3. QED
      BY <2>2, <3>1, <3>2 DEF UpsertKeys
  <2>5. QED
    BY <2>3, <2>4
<1>3. QED
  BY <1>1, <1>2 DEF PromptsIndexed, PermsOf

(* What a resolution leaves of the prompts of each session.                *)
LEMMA Resolved ==
  ASSUME SessionTypeOK, PromptsIndexed, NEW r \in Perms, Resolve(r), NEW u \in Sessions
  PROVE  /\ rtPending'[u] \in {rtPending[u], None} \ {r}
         /\ recPrompt'[u] \in {recPrompt[u], rtPending[u], None} \ {r}
         /\ catReq' \subseteq (catReq \cup {rtPending[SessionOf[r]]}) \ {r}
         /\ reqControl' = reqControl \ {r}
<1> DEFINE s == SessionOf[r]
           hit == RuntimePends(r)
           mine == hit /\ rtPending[s] = r
           prompt == IF mine THEN None ELSE rtPending[s]
           state == IF mine THEN "running" ELSE rtState[s]
           keys == IF hit THEN UpsertKeys(s, prompt) ELSE catReq
<1>1. s \in Sessions /\ r # None
  BY BaseAssumption DEF Asks
<1>2. rtPending[s] = r => mine
  BY <1>1 DEF RuntimePends, PromptsIndexed
<1>3. ASSUME NEW v \in Sessions, rtPending[v] = r \/ recPrompt[v] = r
      PROVE  v = s
  BY <1>1, <1>3 DEF PromptsIndexed, PermsOf
<1>4. rtPending'[u] \in {rtPending[u], None} \ {r}
  <2>1. rtPending'[u] \in {IF hit /\ u = s THEN prompt ELSE rtPending[u], None}
    BY <1>1 DEF Resolve, KeepRuntimes, SessionTypeOK
  <2>2. QED
    BY <1>1, <1>2, <1>3, <2>1
<1>5. keys \subseteq catReq \cup {rtPending[s]}
  BY DEF UpsertKeys
<1>6. recPrompt'[u] \in {recPrompt[u], rtPending[u], None} \ {r}
  <2>1. CASE u = s
    <3>1. recPrompt'[s] = IF r \in keys THEN None ELSE IF hit THEN prompt ELSE recPrompt[s]
      BY <1>1 DEF Resolve, SessionTypeOK
    <3>2. ~hit /\ recPrompt[s] = r => r \in keys
      BY <1>1 DEF PromptsIndexed
    <3>3. prompt # r
      BY <1>1, <1>2
    <3>4. QED
      BY <1>1, <2>1, <3>1, <3>2, <3>3
  <2>2. CASE u # s
    <3>1. recPrompt'[u] = recPrompt[u]
      BY <1>1, <2>2 DEF Resolve, SessionTypeOK
    <3>2. QED
      BY <1>3, <2>2, <3>1
  <2>3. QED
    BY <2>1, <2>2
<1>7. catReq' = keys \ {r} /\ reqControl' = reqControl \ {r}
  BY DEF Resolve
<1>8. QED
  BY <1>4, <1>5, <1>6, <1>7

LEMMA IndexedResolve ==
  ASSUME SessionTypeOK, PromptsIndexed, NEW r \in Perms, Resolve(r)
  PROVE  PromptsIndexed'
<1> DEFINE s == SessionOf[r]
           hit == RuntimePends(r)
           mine == hit /\ rtPending[s] = r
           prompt == IF mine THEN None ELSE rtPending[s]
           keys == IF hit THEN UpsertKeys(s, prompt) ELSE catReq
<1>1. s \in Sessions
  BY BaseAssumption
<1>2. ASSUME NEW u \in Sessions, rtPending'[u] # None
      PROVE  rtPending'[u] \in PermsOf(u) \cap reqControl'
  BY <1>2, Resolved DEF PromptsIndexed
<1>3. ASSUME NEW u \in Sessions, recPrompt'[u] # None
      PROVE  recPrompt'[u] \in PermsOf(u) \cap catReq'
  <2>1. catReq' = keys \ {r} /\ recPrompt'[u] # r
    BY <1>3, Resolved DEF Resolve
  <2>2. CASE u = s
    <3>1. recPrompt'[s] = IF r \in keys THEN None ELSE IF hit THEN prompt ELSE recPrompt[s]
      BY <1>1 DEF Resolve, SessionTypeOK
    <3>2. recPrompt'[s] = IF hit THEN prompt ELSE recPrompt[s]
      BY <1>3, <2>2, <3>1
    <3>3. CASE hit
      <4>1. prompt = rtPending[s] /\ prompt # None
        BY <1>3, <2>2, <3>2, <3>3
      <4>2. prompt \in PermsOf(s)
        BY <1>1, <4>1 DEF PromptsIndexed
      <4>3. prompt \in keys
        BY <3>3, <4>1 DEF UpsertKeys
      <4>4. QED
        BY <2>1, <2>2, <3>2, <3>3, <4>2, <4>3
    <3>4. CASE ~hit
      BY <1>1, <1>3, <2>1, <2>2, <3>2, <3>4 DEF PromptsIndexed
    <3>5. QED
      BY <3>3, <3>4
  <2>3. CASE u # s
    <3>1. recPrompt'[u] = recPrompt[u]
      BY <1>1, <2>3 DEF Resolve, SessionTypeOK
    <3>2. recPrompt'[u] \in PermsOf(u) \cap catReq /\ recPrompt'[u] \notin PermsOf(s)
      BY <1>3, <2>3, <3>1 DEF PromptsIndexed, PermsOf
    <3>3. QED
      BY <2>1, <3>2 DEF UpsertKeys
  <2>4. QED
    BY <2>2, <2>3
<1>4. QED
  BY <1>2, <1>3 DEF PromptsIndexed, PermsOf

LEMMA RememberedApply ==
  ASSUME SessionTypeOK, NEW s \in Sessions, NEW state, NEW prompt \in Perms \cup {None},
         Apply(s, state, prompt), reqControl' \subseteq reqControl \cup {prompt},
         NEW q \in Perms, Remembered(q)'
  PROVE  Remembered(q) \/ q = prompt
<1>1. catReq' \subseteq catReq \cup {prompt}
  BY DEF Apply, UpsertKeys
<1>2. ASSUME NEW u \in Sessions
      PROVE  /\ rtPending'[u] \in {rtPending[u], prompt, None}
             /\ recPrompt'[u] \in {recPrompt[u], prompt}
  BY <1>2 DEF Apply, KeepRuntimes, SessionTypeOK
<1>3. q # None
  BY BaseAssumption DEF Asks
<1>4. QED
  BY <1>1, <1>2, <1>3 DEF Remembered

LEMMA RememberedResolve ==
  ASSUME SessionTypeOK, PromptsIndexed, NEW r \in Perms, Resolve(r),
         NEW q \in Perms, Remembered(q)'
  PROVE  Remembered(q) /\ q # r
<1>1. SessionOf[r] \in Sessions /\ q # None
  BY BaseAssumption DEF Asks
<1>2. CASE q \in catReq' \cup reqControl'
  <2>1. q \in (catReq \cup reqControl \cup {rtPending[SessionOf[r]]}) \ {r}
    BY <1>1, <1>2, Resolved
  <2>2. QED
    BY <1>1, <2>1 DEF Remembered
<1>3. CASE \E u \in Sessions : q \in {rtPending'[u], recPrompt'[u]}
  <2>1. PICK u \in Sessions : q \in {rtPending'[u], recPrompt'[u]}
    BY <1>3
  <2>2. q \in {rtPending[u], recPrompt[u]} /\ q # r
    BY <1>1, <2>1, Resolved
  <2>3. QED
    BY <2>1, <2>2 DEF Remembered
<1>4. QED
  BY <1>2, <1>3 DEF Remembered

LEMMA RememberedKept ==
  ASSUME SessionTypeOK, KeepRuntimes(rtState, rtPending),
         UNCHANGED <<recPrompt, catReq, reqControl>>, NEW q \in Perms, Remembered(q)'
  PROVE  Remembered(q)
BY BaseAssumption DEF Remembered, KeepRuntimes, SessionTypeOK, Asks

LEMMA IndexedKept ==
  ASSUME SessionTypeOK, PromptsIndexed, KeepRuntimes(rtState, rtPending),
         UNCHANGED <<recPrompt, catReq, reqControl>>
  PROVE  PromptsIndexed'
BY DEF PromptsIndexed, KeepRuntimes, SessionTypeOK, PermsOf

(* What a step may do to the prompts: an event of a session repeats the    *)
(* one it has, a permission brings a new one whose ask is shown, and a     *)
(* resolution ends one.                                                    *)
PromptStep ==
  \/ \E s \in Sessions, state \in States \cup {"absent"} :
       /\ Apply(s, state, rtPending[s])
       /\ UNCHANGED <<reqControl, task>>
  \/ \E r \in Perms :
       /\ Approval(r)
       /\ r \in Legacy \/ task'[r] \in {"showing", "waiting"}
       /\ \A a \in Perms \ {r} : task'[a] = task[a]
  \/ \E r \in Perms :
       /\ Resolve(r)
       /\ \A a \in Perms \ {r} : task'[a] = task[a]
  \/ /\ KeepRuntimes(rtState, rtPending) \/ UNCHANGED <<rtState, rtPending>>
     /\ UNCHANGED <<recPrompt, catReq, reqControl>>
     /\ \A a \in Perms : task[a] \in {"showing", "waiting"} => task'[a] \in {"showing", "waiting"}

LEMMA IndexedStep ==
  ASSUME SessionTypeOK, PromptsIndexed, PromptStep
  PROVE  PromptsIndexed'
<1>1. ASSUME NEW s \in Sessions, NEW state \in States \cup {"absent"},
             Apply(s, state, rtPending[s]), UNCHANGED reqControl
      PROVE  PromptsIndexed'
  <2>1. /\ rtPending[s] \in PermsOf(s) \cup {None}
        /\ rtPending[s] # None => rtPending[s] \in reqControl'
    BY <1>1 DEF PromptsIndexed
  <2>2. QED
    BY <1>1, <2>1, IndexedApply
<1>2. ASSUME NEW r \in Perms, Approval(r)
      PROVE  PromptsIndexed'
  <2>1. SessionOf[r] \in Sessions /\ r \in PermsOf(SessionOf[r])
    BY BaseAssumption DEF PermsOf
  <2>2. Apply(SessionOf[r], "waiting", r) /\ reqControl' = reqControl \cup {r}
    BY <1>2 DEF Approval
  <2>3. QED
    BY <2>1, <2>2, IndexedApply
<1>3. ASSUME UNCHANGED <<rtPending, recPrompt, catReq, reqControl>>
      PROVE  PromptsIndexed'
  BY <1>3 DEF PromptsIndexed, PermsOf
<1>4. QED
  BY <1>1, <1>2, <1>3, IndexedResolve, IndexedKept DEF PromptStep

LEMMA HasAskStep ==
  ASSUME SessionTypeOK, PromptsIndexed, PromptHasAsk, PromptStep
  PROVE  PromptHasAsk'
<1> SUFFICES ASSUME NEW q \in Perms \ Legacy, Remembered(q)'
             PROVE  Shown(q)'
  BY DEF PromptHasAsk
<1>1. Remembered(q) => task[q] \in {"showing", "waiting"}
  BY DEF PromptHasAsk, Shown
<1>2. ASSUME NEW s \in Sessions, NEW state \in States \cup {"absent"},
             Apply(s, state, rtPending[s]), UNCHANGED <<reqControl, task>>
      PROVE  Shown(q)'
  <2>1. rtPending[s] \in Perms \cup {None} /\ reqControl' \subseteq reqControl \cup {rtPending[s]}
    BY <1>2 DEF SessionTypeOK
  <2>2. Remembered(q) \/ q = rtPending[s]
    BY <1>2, <2>1, RememberedApply
  <2>3. Remembered(q)
    BY <2>2 DEF Remembered
  <2>4. QED
    BY <1>1, <1>2, <2>3 DEF Shown
<1>3. ASSUME NEW r \in Perms, Approval(r),
             r \in Legacy \/ task'[r] \in {"showing", "waiting"},
             \A a \in Perms \ {r} : task'[a] = task[a]
      PROVE  Shown(q)'
  <2>1. SessionOf[r] \in Sessions
    BY BaseAssumption
  <2>2. Apply(SessionOf[r], "waiting", r) /\ reqControl' = reqControl \cup {r}
    BY <1>3 DEF Approval
  <2>3. Remembered(q) \/ q = r
    BY <2>1, <2>2, RememberedApply
  <2>4. QED
    BY <1>1, <1>3, <2>3 DEF Shown
<1>4. ASSUME NEW r \in Perms, Resolve(r), \A a \in Perms \ {r} : task'[a] = task[a]
      PROVE  Shown(q)'
  BY <1>1, <1>4, RememberedResolve DEF Shown
<1>5. ASSUME KeepRuntimes(rtState, rtPending) \/ UNCHANGED <<rtState, rtPending>>,
             UNCHANGED <<recPrompt, catReq, reqControl>>,
             \A a \in Perms : task[a] \in {"showing", "waiting"} => task'[a] \in {"showing", "waiting"}
      PROVE  Shown(q)'
  <2>1. Remembered(q)
    BY <1>5, RememberedKept DEF Remembered
  <2>2. QED
    BY <1>1, <1>5, <2>1 DEF Shown
<1>6. QED
  BY <1>2, <1>3, <1>4, <1>5 DEF PromptStep

LEMMA BodyPrompts ==
  ASSUME AgentTypeOK, NEW a \in Asks, ~Shown(a), Body(a)
  PROVE  PromptStep
<1>1. CASE a \in Perms /\ a \in catReq
  <2>1. task' = [task EXCEPT ![a] = "waiting"] /\ UNCHANGED sessionVars
    BY <1>1 DEF Body, PermBody
  <2>2. QED
    BY <2>1 DEF PromptStep, AgentTypeOK, Asks, sessionVars
<1>2. CASE a \in Perms /\ a \notin catReq
  <2>1. /\ Approval(a)
        /\ task' = [task EXCEPT ![a] = "showing"] \/ task' = [task EXCEPT ![a] = "waiting"]
    BY <1>2 DEF Body, PermBody
  <2>2. task'[a] \in {"showing", "waiting"} /\ \A b \in Perms \ {a} : task'[b] = task[b]
    BY <2>1 DEF AgentTypeOK, Asks
  <2>3. QED
    BY <1>2, <2>1, <2>2 DEF PromptStep
<1>3. CASE a \notin Perms
  <2>1. /\ KeepRuntimes(rtState, rtPending) /\ UNCHANGED <<recPrompt, catReq, reqControl>>
        /\ task' = [task EXCEPT ![a] = "showing"] \/ task' = [task EXCEPT ![a] = "waiting"]
    BY <1>3 DEF Body, QuestionBody
  <2>2. \A b \in Perms : task'[b] = task[b]
    BY <1>3, <2>1 DEF AgentTypeOK, Asks
  <2>3. QED
    BY <2>1, <2>2 DEF PromptStep
<1>4. QED
  BY <1>1, <1>2, <1>3

LEMMA SettlePrompts ==
  ASSUME AgentTypeOK, NEW a \in Asks, NEW d, Settle(a, d)
  PROVE  PromptStep
<1>1. task' = [task EXCEPT ![a] = "clearing"] \/ task' = [task EXCEPT ![a] = "done"]
  BY DEF Settle
<1>2. CASE a \in Perms
  <2>1. Resolve(a) /\ \A b \in Perms \ {a} : task'[b] = task[b]
    BY <1>1, <1>2 DEF Settle, AgentTypeOK, Asks
  <2>2. QED
    BY <1>2, <2>1 DEF PromptStep
<1>3. CASE a \notin Perms
  <2>1. \A b \in Perms : task'[b] = task[b]
    BY <1>1, <1>3 DEF AgentTypeOK, Asks
  <2>2. KeepRuntimes(rtState, rtPending) /\ UNCHANGED <<recPrompt, catReq, reqControl>>
    BY <1>3 DEF Settle
  <2>3. QED
    BY <2>1, <2>2 DEF PromptStep
<1>4. QED
  BY <1>2, <1>3

LEMMA ContinuePrompts ==
  ASSUME AgentTypeOK, NEW owner, Continue(owner), UNCHANGED sessionVars
  PROVE  PromptStep
<1>1. \A a \in Perms : task[a] \in {"showing", "waiting"} => task'[a] \in {"showing", "waiting"}
  BY DEF Continue, Publishes, AgentTypeOK, Asks
<1>2. QED
  BY <1>1 DEF PromptStep, sessionVars

LEMMA AgentPrompts ==
  ASSUME AgentTypeOK, [AgentNext]_agentVars
  PROVE  PromptStep
<1>1. ASSUME UNCHANGED <<sessionVars, task>>
      PROVE  PromptStep
  BY <1>1 DEF PromptStep, sessionVars
<1>2. ASSUME NEW s \in Busy, SessionEvent(s)
      PROVE  PromptStep
  <2>1. s \in Sessions /\ CurrentState(s) \in States \cup {"absent"}
    BY AgentAssumption DEF AgentTypeOK, CurrentState, States
  <2>2. PICK state \in States \cup {"absent"} : Apply(s, state, rtPending[s]) /\ reqControl' = reqControl
    BY <1>2, <2>1 DEF SessionEvent, Turn, Output, Usage, States
  <2>3. QED
    BY <1>2, <2>1, <2>2 DEF SessionEvent, PromptStep, askVars
<1>3. ASSUME NEW s \in Busy, Expire(s)
      PROVE  PromptStep
  BY <1>3 DEF Expire, PromptStep, askVars
<1>4. ASSUME NEW r \in Perms, PermissionUpdated(r)
      PROVE  PromptStep
  BY <1>4 DEF PermissionUpdated, PromptStep, askVars
<1>5. ASSUME NEW r \in Perms, PermissionReplied(r)
      PROVE  PromptStep
  BY <1>5 DEF PermissionReplied, PromptStep
<1>6. ASSUME NEW q \in Questions, QuestionResolved(RequestOf[q])
      PROVE  PromptStep
  BY <1>6 DEF QuestionResolved, PromptStep
<1>7. ASSUME NEW a \in Asks, AskStart(a)
      PROVE  PromptStep
  <2>1. CASE bleUp
    BY <1>7, <2>1, BodyPrompts DEF AskStart, Shown
  <2>2. CASE ~bleUp
    BY <1>7, <2>2 DEF AskStart, PromptStep, AgentTypeOK, Asks, sessionVars
  <2>3. QED
    BY <2>1, <2>2
<1>8. ASSUME NEW a \in Asks, AskLinked(a)
      PROVE  PromptStep
  BY <1>8, BodyPrompts DEF AskLinked, Shown
<1>9. ASSUME NEW a \in Asks, AskUnlinked(a) \/ AskResponded(a)
      PROVE  PromptStep
  BY <1>9 DEF AskUnlinked, AskResponded, PromptStep, AgentTypeOK, Asks, sessionVars
<1>10. ASSUME NEW a \in Asks, AskAnswered(a) \/ AskTimedOut(a)
       PROVE  PromptStep
  BY <1>10, SettlePrompts DEF AskAnswered, AskTimedOut
<1>11. ASSUME NEW a \in Asks, Unlinked(a)
       PROVE  PromptStep
  BY <1>11, ContinuePrompts DEF Unlinked
<1>12. ASSUME NEW a \in Asks, NEW answer \in Answers(a), DeviceAnswer(a, answer)
       PROVE  PromptStep
  BY <1>1, <1>12 DEF DeviceAnswer
<1>13. ASSUME WriteDone
       PROVE  PromptStep
  BY <1>13, ContinuePrompts DEF WriteDone
<1>14. ASSUME BleConnected \/ Keepalive
       PROVE  PromptStep
  BY <1>14 DEF BleConnected, Keepalive, PromptStep, askVars
<1>15. ASSUME WriteFailed \/ BleLost \/ OtaBegin \/ OtaEnd
       PROVE  PromptStep
  BY <1>1, <1>15 DEF WriteFailed, BleLost, OtaBegin, OtaEnd, askVars
<1>16. ASSUME UNCHANGED agentVars
       PROVE  PromptStep
  BY <1>1, <1>16 DEF agentVars, askVars
<1>17. QED
  BY <1>2, <1>3, <1>4, <1>5, <1>6, <1>7, <1>8, <1>9, <1>10, <1>11, <1>12, <1>13, <1>14,
     <1>15, <1>16 DEF AgentNext

(* The prompts of the runtimes and the records are indexed by the two      *)
(* request maps, and none of them outlives its ask.                        *)
PromptInv == AgentTypeOK /\ PromptsIndexed /\ PromptHasAsk

THEOREM PromptsHaveAsks == AgentSpec => [](PromptsIndexed /\ PromptHasAsk)
<1>1. AgentInit => PromptInv
  <2> SUFFICES ASSUME AgentInit
               PROVE  PromptInv
    OBVIOUS
  <2>1. AgentTypeOK
    BY TypeInit
  <2>2. PromptsIndexed
    BY DEF AgentInit, PromptsIndexed
  <2>3. PromptHasAsk
    BY BaseAssumption DEF AgentInit, PromptHasAsk, Remembered, Asks
  <2>4. QED
    BY <2>1, <2>2, <2>3 DEF PromptInv
<1>2. PromptInv /\ [AgentNext]_agentVars => PromptInv'
  <2> SUFFICES ASSUME PromptInv, [AgentNext]_agentVars
               PROVE  PromptInv'
    OBVIOUS
  <2>1. AgentTypeOK /\ SessionTypeOK
    BY DEF PromptInv, AgentTypeOK, SessionTypeOK
  <2>2. AgentTypeOK' /\ PromptStep
    BY <2>1, TypeStep, StepsOfNext, AgentPrompts
  <2>3. QED
    BY <2>1, <2>2, IndexedStep, HasAskStep DEF PromptInv
<1>3. PromptInv => PromptsIndexed /\ PromptHasAsk
  BY DEF PromptInv
<1>4. QED
  BY <1>1, <1>2, <1>3, PTL DEF AgentSpec

--------------------------------------------------------------------------------
(* Questions.                                                              *)

LEMMA SlotStep ==
  ASSUME AgentTypeOK, QuestionHasAsk, [AgentNext]_agentVars
  PROVE  QuestionHasAsk'
<1>1. ASSUME activeQ' = activeQ, \A q \in Questions : Shown(q) => Shown(q)'
      PROVE  QuestionHasAsk'
  BY <1>1 DEF QuestionHasAsk, AgentTypeOK
<1>2. ASSUME UNCHANGED <<activeQ, task>>
      PROVE  QuestionHasAsk'
  BY <1>2 DEF QuestionHasAsk, Shown
<1>3. ASSUME NEW s \in Busy, SessionEvent(s) \/ Expire(s)
      PROVE  QuestionHasAsk'
  BY <1>2, <1>3 DEF SessionEvent, Expire, askVars
<1>4. ASSUME NEW r \in Perms, PermissionUpdated(r) \/ PermissionReplied(r)
      PROVE  QuestionHasAsk'
  BY <1>2, <1>4 DEF PermissionUpdated, PermissionReplied, askVars
<1>5. ASSUME NEW q \in Questions, QuestionResolved(RequestOf[q])
      PROVE  QuestionHasAsk'
  BY <1>2, <1>5 DEF QuestionResolved
<1>6. ASSUME NEW a \in Asks, Body(a)
      PROVE  QuestionHasAsk'
  <2>1. task' = [task EXCEPT ![a] = "showing"] \/ task' = [task EXCEPT ![a] = "waiting"]
    BY <1>6 DEF Body, PermBody, QuestionBody
  <2>2. Shown(a)' /\ \A q \in Questions : Shown(q) => Shown(q)'
    BY <2>1 DEF Shown, AgentTypeOK, Asks
  <2>3. activeQ' = activeQ \/ activeQ' = a
    BY <1>6 DEF Body, PermBody, QuestionBody
  <2>4. QED
    BY <1>1, <2>2, <2>3 DEF QuestionHasAsk
<1>7. ASSUME NEW a \in Asks, AskStart(a) \/ AskLinked(a)
      PROVE  QuestionHasAsk'
  <2>1. CASE Body(a)
    BY <1>6, <2>1
  <2>2. CASE task[a] = "idle" /\ task' = [task EXCEPT ![a] = "connecting"] /\ activeQ' = activeQ
    <3>1. \A q \in Questions : Shown(q) => Shown(q)'
      BY <2>2 DEF Shown, AgentTypeOK, Asks
    <3>2. QED
      BY <1>1, <2>2, <3>1
  <2>3. QED
    BY <1>7, <2>1, <2>2 DEF AskStart, AskLinked
<1>8. ASSUME NEW a \in Asks, AskUnlinked(a) \/ AskResponded(a)
      PROVE  QuestionHasAsk'
  <2>1. activeQ' = activeQ /\ \A q \in Questions : Shown(q) => Shown(q)'
    BY <1>8 DEF AskUnlinked, AskResponded, Shown, AgentTypeOK, Asks
  <2>2. QED
    BY <1>1, <2>1
<1>9. ASSUME NEW a \in Asks, NEW d, Settle(a, d)
      PROVE  QuestionHasAsk'
  <2>1. task' = [task EXCEPT ![a] = "clearing"] \/ task' = [task EXCEPT ![a] = "done"]
    BY <1>9 DEF Settle
  <2>2. \A q \in Questions \ {a} : Shown(q) => Shown(q)'
    BY <2>1 DEF Shown, AgentTypeOK, Asks
  <2>3. activeQ' \in {activeQ, None} /\ activeQ' # a
    BY <1>9, BaseAssumption DEF Settle, FreeSlot, AgentTypeOK, Asks
  <2>4. QED
    BY <2>2, <2>3 DEF QuestionHasAsk, AgentTypeOK
<1>10. ASSUME NEW a \in Asks, AskAnswered(a) \/ AskTimedOut(a)
       PROVE  QuestionHasAsk'
  BY <1>9, <1>10 DEF AskAnswered, AskTimedOut
<1>11. ASSUME NEW owner, Continue(owner), activeQ' = activeQ
       PROVE  QuestionHasAsk'
  <2>1. \A q \in Questions : Shown(q) => Shown(q)'
    BY <1>11 DEF Continue, Publishes, Shown, AgentTypeOK, Asks
  <2>2. QED
    BY <1>1, <1>11, <2>1
<1>12. ASSUME WriteDone \/ \E a \in Asks : Unlinked(a)
       PROVE  QuestionHasAsk'
  BY <1>11, <1>12 DEF WriteDone, Unlinked
<1>13. ASSUME NEW a \in Asks, NEW answer \in Answers(a), DeviceAnswer(a, answer)
       PROVE  QuestionHasAsk'
  BY <1>2, <1>13 DEF DeviceAnswer
<1>14. ASSUME WriteFailed \/ BleConnected \/ BleLost \/ Keepalive \/ OtaBegin \/ OtaEnd
       PROVE  QuestionHasAsk'
  BY <1>2, <1>14 DEF WriteFailed, BleConnected, BleLost, Keepalive, OtaBegin, OtaEnd, askVars
<1>15. ASSUME UNCHANGED agentVars
       PROVE  QuestionHasAsk'
  BY <1>2, <1>15 DEF agentVars, askVars
<1>16. QED
  BY <1>3, <1>4, <1>5, <1>7, <1>8, <1>10, <1>12, <1>13, <1>14, <1>15 DEF AgentNext

(* The question slot names a question whose ask is on its way or waiting.  *)
THEOREM QuestionsHaveAsks == AgentSpec => []QuestionHasAsk
<1>1. AgentInit => AgentTypeOK /\ QuestionHasAsk
  BY TypeInit DEF AgentInit, QuestionHasAsk
<1>2. (AgentTypeOK /\ QuestionHasAsk) /\ [AgentNext]_agentVars => (AgentTypeOK /\ QuestionHasAsk)'
  BY TypeStep, StepsOfNext, SlotStep
<1>3. QED
  BY <1>1, <1>2, PTL DEF AgentSpec

--------------------------------------------------------------------------------
(***************************************************************************)
(* The agent implements the abstract specification of an approval: its     *)
(* initial state maps to the initial state, and every step of the agent to *)
(* a step on the ask it is about, or to no step.                           *)
(***************************************************************************)

PhaseMap == [a \in Asks |-> Phase(a)]
OutcomeMap == [a \in Asks |-> Outcome(a)]

AbstractStep == [Abstract!Next]_<<PhaseMap, OutcomeMap>>

(* The steps that move one ask and leave the others alone.                 *)
Moves(a) ==
  \A b \in Asks \ {a} : task'[b] = task[b] /\ waiter'[b] = waiter[b] /\ decision'[b] = decision[b]

LEMMA MapsMove ==
  ASSUME NEW a \in Asks, Moves(a)
  PROVE  /\ PhaseMap' = [PhaseMap EXCEPT ![a] = Phase(a)']
         /\ OutcomeMap' = [OutcomeMap EXCEPT ![a] = Outcome(a)']
<1>1. \A b \in Asks \ {a} : Phase(b)' = Phase(b) /\ Outcome(b)' = Outcome(b)
  BY DEF Moves, Phase, Outcome
<1>2. QED
  BY <1>1 DEF PhaseMap, OutcomeMap

LEMMA MapsStay ==
  ASSUME \A a \in Asks : Phase(a)' = Phase(a) /\ Outcome(a)' = Outcome(a)
  PROVE  AbstractStep
BY DEF AbstractStep, PhaseMap, OutcomeMap

LEMMA MapsAsk ==
  ASSUME NEW a \in Asks, Moves(a),
         Phase(a) = "idle", Phase(a)' = "pending", Outcome(a)' = Outcome(a)
  PROVE  AbstractStep
<1>1. PhaseMap' = [PhaseMap EXCEPT ![a] = "pending"] /\ OutcomeMap' = OutcomeMap
  BY MapsMove DEF OutcomeMap
<1>2. Abstract!Ask(a)
  BY <1>1 DEF Abstract!Ask, PhaseMap, OutcomeMap
<1>3. QED
  BY <1>2 DEF AbstractStep, Abstract!Next, Abstract!Asks, Asks

LEMMA MapsAnswer ==
  ASSUME NEW a \in Asks, Moves(a), NEW x \in Answers(a),
         Phase(a) = "pending", Phase(a)' = "pending", Outcome(a) = None, Outcome(a)' = x
  PROVE  AbstractStep
<1>1. PhaseMap' = PhaseMap /\ OutcomeMap' = [OutcomeMap EXCEPT ![a] = x]
  BY MapsMove DEF PhaseMap
<1>2. a \in Abstract!Unanswered
  BY DEF Abstract!Unanswered, Abstract!Asks, Asks
<1>3. x \in Abstract!Answers(a)
  BY DEF Abstract!Answers, Abstract!PermAnswers, Abstract!QuestionAnswers, Abstract!Offered,
         Answers, PermAnswers, QuestionAnswers, Offered
<1>4. Abstract!Answer(a)
  BY <1>1, <1>2, <1>3 DEF Abstract!Answer, PhaseMap, OutcomeMap
<1>5. QED
  BY <1>4 DEF AbstractStep, Abstract!Next, Abstract!Asks, Asks

LEMMA MapsSettle ==
  ASSUME NEW a \in Asks, Moves(a), Phase(a) = "pending", Phase(a)' = "settled",
         Outcome(a)' = IF Outcome(a) = None THEN "ask" ELSE Outcome(a)
  PROVE  AbstractStep
<1>1. /\ PhaseMap' = [PhaseMap EXCEPT ![a] = "settled"]
      /\ OutcomeMap' = IF OutcomeMap[a] = None THEN [OutcomeMap EXCEPT ![a] = "ask"] ELSE OutcomeMap
  BY MapsMove DEF OutcomeMap
<1>2. Abstract!Settle(a)
  BY <1>1 DEF Abstract!Settle, PhaseMap, OutcomeMap
<1>3. QED
  BY <1>2 DEF AbstractStep, Abstract!Next, Abstract!Asks, Asks

LEMMA MapsRespond ==
  ASSUME NEW a \in Asks, Moves(a), Phase(a) = "settled", Phase(a)' = "idle", Outcome(a)' = None
  PROVE  AbstractStep
<1>1. PhaseMap' = [PhaseMap EXCEPT ![a] = "idle"] /\ OutcomeMap' = [OutcomeMap EXCEPT ![a] = None]
  BY MapsMove
<1>2. Abstract!Respond(a)
  BY <1>1 DEF Abstract!Respond, PhaseMap, OutcomeMap
<1>3. QED
  BY <1>2 DEF AbstractStep, Abstract!Next, Abstract!Asks, Asks

(* The futures of some asks get the result "ask" while they are open.      *)
LEMMA MapsWithdraw ==
  ASSUME AgentTypeOK, WaiterOwned, UNCHANGED <<task, decision>>, NEW gone \in SUBSET Asks,
         \A a \in gone : waiter[a] = "open",
         waiter' = [a \in Asks |-> IF a \in gone THEN "ask" ELSE waiter[a]]
  PROVE  AbstractStep
<1>1. \A a \in Asks : Phase(a)' = Phase(a)
  BY DEF Phase
<1>2. \A a \in gone : Phase(a) = "pending" /\ Outcome(a) = None /\ Outcome(a)' = "ask"
  <2> SUFFICES ASSUME NEW a \in gone
               PROVE  Phase(a) = "pending" /\ Outcome(a) = None /\ Outcome(a)' = "ask"
    OBVIOUS
  <2>1. task[a] \in {"showing", "waiting"}
    BY DEF WaiterOwned
  <2>2. QED
    BY <2>1 DEF Phase, Outcome
<1>3. \A a \in Asks \ gone : Outcome(a)' = Outcome(a)
  BY DEF Outcome, Phase
<1>4. PhaseMap' = PhaseMap /\ OutcomeMap' = [a \in Asks |-> IF a \in gone THEN "ask" ELSE OutcomeMap[a]]
  BY <1>1, <1>2, <1>3 DEF PhaseMap, OutcomeMap
<1>5. gone \subseteq Abstract!Unanswered
  BY <1>2 DEF Abstract!Unanswered, Abstract!Asks, Asks
<1>6. Abstract!Withdraw(gone)
  BY <1>4, <1>5 DEF Abstract!Withdraw, Abstract!Asks, Asks, PhaseMap, OutcomeMap
<1>7. QED
  BY <1>6 DEF AbstractStep, Abstract!Next, Abstract!Asks, Asks

--------------------------------------------------------------------------------
(* The steps of the agent.                                                 *)

LEMMA IdleUnanswered ==
  ASSUME AgentTypeOK, WaiterOwned, NEW a \in Asks, task[a] \in {"idle", "connecting"}
  PROVE  waiter[a] = "absent" /\ Outcome(a) = None
BY DEF WaiterOwned, Outcome, Phase

LEMMA BodyMaps ==
  ASSUME AgentTypeOK, WaiterOwned, NEW a \in Asks, task[a] \in {"idle", "connecting"}, Body(a)
  PROVE  AbstractStep
<1>1. waiter[a] = "absent" /\ Outcome(a) = None
  BY IdleUnanswered
<1>2. /\ task' = [task EXCEPT ![a] = "showing"] \/ task' = [task EXCEPT ![a] = "waiting"]
      /\ waiter' = waiter \/ waiter' = [waiter EXCEPT ![a] = "open"]
      /\ decision' = decision
  BY DEF Body, PermBody, QuestionBody
<1>3. Moves(a) /\ task'[a] \in {"showing", "waiting"} /\ waiter'[a] \in {"absent", "open"}
  BY <1>1, <1>2 DEF Moves, AgentTypeOK
<1>4. Phase(a)' = "pending" /\ Outcome(a)' = None
  BY <1>3 DEF Phase, Outcome
<1>5. CASE task[a] = "idle"
  <2>1. Phase(a) = "idle"
    BY <1>5 DEF Phase
  <2>2. QED
    BY <1>1, <1>3, <1>4, <2>1, MapsAsk
<1>6. CASE task[a] = "connecting"
  <2>1. Phase(a) = "pending"
    BY <1>6 DEF Phase
  <2>2. \A b \in Asks : Phase(b)' = Phase(b) /\ Outcome(b)' = Outcome(b)
    BY <1>1, <1>3, <1>4, <2>1 DEF Moves, Phase, Outcome
  <2>3. QED
    BY <2>2, MapsStay
<1>7. QED
  BY <1>5, <1>6

LEMMA SettleMaps ==
  ASSUME AgentTypeOK, WaiterOwned, NEW a \in Asks, waiter[a] # "absent",
         Settle(a, IF waiter[a] = "open" THEN "ask" ELSE waiter[a])
  PROVE  AbstractStep
<1> DEFINE d == IF waiter[a] = "open" THEN "ask" ELSE waiter[a]
<1>1. /\ task' = [task EXCEPT ![a] = "clearing"] \/ task' = [task EXCEPT ![a] = "done"]
      /\ waiter' = [waiter EXCEPT ![a] = "absent"]
      /\ decision' = [decision EXCEPT ![a] = d]
      /\ task[a] = "waiting"
  BY DEF Settle, DropFuture
<1>2. Moves(a) /\ task'[a] \in {"clearing", "done"} /\ decision'[a] = d
  BY <1>1 DEF Moves, AgentTypeOK
<1>3. waiter[a] # "open" => waiter[a] # None
  BY BaseAssumption DEF AgentTypeOK
<1>4. /\ Phase(a) = "pending" /\ Phase(a)' = "settled"
      /\ Outcome(a) = (IF waiter[a] = "open" THEN None ELSE waiter[a])
      /\ Outcome(a)' = d
  BY <1>1, <1>2 DEF Phase, Outcome
<1>5. QED
  BY <1>2, <1>3, <1>4, MapsSettle

LEMMA ContinueMaps ==
  ASSUME AgentTypeOK, WaiterOwned, NEW owner, Continue(owner)
  PROVE  AbstractStep
<1>1. CASE Publishes(owner, "showing")
  <2>1. /\ owner \in Asks /\ task[owner] = "showing"
        /\ task' = [task EXCEPT ![owner] = "waiting"] /\ decision' = decision
        /\ waiter' = IF owner \in Perms THEN [waiter EXCEPT ![owner] = "open"] ELSE waiter
    BY <1>1 DEF Continue, Publishes
  <2>2. owner \in Perms => waiter[owner] = "absent" /\ waiter'[owner] = "open"
    BY <2>1, BaseAssumption DEF WaiterOwned, AgentTypeOK
  <2>3. /\ task'[owner] = "waiting" /\ \A b \in Asks \ {owner} : task'[b] = task[b]
        /\ \A b \in Asks \ {owner} : waiter'[b] = waiter[b]
        /\ owner \notin Perms => waiter' = waiter
    BY <2>1 DEF AgentTypeOK
  <2>4. \A b \in Asks : Phase(b)' = Phase(b) /\ Outcome(b)' = Outcome(b)
    BY <2>1, <2>2, <2>3 DEF Phase, Outcome
  <2>5. QED
    BY <2>4, MapsStay
<1>2. CASE Publishes(owner, "clearing")
  <2>1. \A b \in Asks : Phase(b)' = Phase(b) /\ Outcome(b)' = Outcome(b)
    BY <1>2 DEF Continue, Publishes, Phase, Outcome, AgentTypeOK
  <2>2. QED
    BY <2>1, MapsStay
<1>3. CASE ~Publishes(owner, "showing") /\ ~Publishes(owner, "clearing")
  <2>1. \A b \in Asks : Phase(b)' = Phase(b) /\ Outcome(b)' = Outcome(b)
    BY <1>3 DEF Continue, Phase, Outcome
  <2>2. QED
    BY <2>1, MapsStay
<1>4. QED
  BY <1>1, <1>2, <1>3

LEMMA AgentMaps ==
  ASSUME AgentTypeOK, WaiterOwned, [AgentNext]_agentVars
  PROVE  AbstractStep
<1>1. ASSUME UNCHANGED askVars
      PROVE  AbstractStep
  <2>1. \A b \in Asks : Phase(b)' = Phase(b) /\ Outcome(b)' = Outcome(b)
    BY <1>1 DEF Phase, Outcome, askVars
  <2>2. QED
    BY <2>1, MapsStay
<1>2. ASSUME NEW s \in Busy, SessionEvent(s) \/ Expire(s)
      PROVE  AbstractStep
  BY <1>1, <1>2 DEF SessionEvent, Expire
<1>3. ASSUME NEW r \in Perms, PermissionUpdated(r)
      PROVE  AbstractStep
  BY <1>1, <1>3 DEF PermissionUpdated
<1>4. ASSUME NEW r \in Perms, PermissionReplied(r)
      PROVE  AbstractStep
  <2> DEFINE gone == IF waiter[r] = "open" THEN {r} ELSE {}
  <2>1. waiter' = [a \in Asks |-> IF a \in gone THEN "ask" ELSE waiter[a]]
    BY <1>4 DEF PermissionReplied, AgentTypeOK, Asks
  <2>2. gone \in SUBSET Asks /\ \A a \in gone : waiter[a] = "open"
    BY DEF Asks
  <2>3. UNCHANGED <<task, decision>>
    BY <1>4 DEF PermissionReplied
  <2>4. QED
    BY <2>1, <2>2, <2>3, MapsWithdraw
<1>5. ASSUME NEW q \in Questions, QuestionResolved(RequestOf[q])
      PROVE  AbstractStep
  <2> DEFINE gone == {a \in Asks : a \in Questions /\ RequestOf[a] = RequestOf[q] /\ waiter[a] = "open"}
  <2>1. waiter' = [a \in Asks |-> IF a \in gone THEN "ask" ELSE waiter[a]]
    BY <1>5 DEF QuestionResolved
  <2>2. UNCHANGED <<task, decision>>
    BY <1>5 DEF QuestionResolved
  <2>3. gone \in SUBSET Asks /\ \A a \in gone : waiter[a] = "open"
    OBVIOUS
  <2> HIDE DEF gone
  <2>4. QED
    BY <2>1, <2>2, <2>3, MapsWithdraw
<1>6. ASSUME NEW a \in Asks, AskStart(a)
      PROVE  AbstractStep
  <2>1. CASE bleUp
    BY <1>6, <2>1, BodyMaps DEF AskStart
  <2>2. CASE ~bleUp
    <3>1. /\ task[a] = "idle" /\ task' = [task EXCEPT ![a] = "connecting"]
          /\ UNCHANGED <<waiter, decision>>
      BY <1>6, <2>2 DEF AskStart
    <3>2. Moves(a) /\ task'[a] = "connecting"
      BY <3>1 DEF Moves, AgentTypeOK
    <3>3. Phase(a) = "idle" /\ Phase(a)' = "pending" /\ Outcome(a)' = Outcome(a)
      BY <3>1, <3>2 DEF Phase, Outcome
    <3>4. QED
      BY <3>2, <3>3, MapsAsk
  <2>3. QED
    BY <2>1, <2>2
<1>7. ASSUME NEW a \in Asks, AskLinked(a)
      PROVE  AbstractStep
  BY <1>7, BodyMaps DEF AskLinked
<1>8. ASSUME NEW a \in Asks, AskUnlinked(a)
      PROVE  AbstractStep
  <2>1. /\ task[a] = "connecting" /\ task' = [task EXCEPT ![a] = "done"]
        /\ decision' = [decision EXCEPT ![a] = "ask"] /\ waiter' = waiter
    BY <1>8 DEF AskUnlinked
  <2>2. Moves(a) /\ task'[a] = "done" /\ decision'[a] = "ask" /\ Outcome(a) = None
    BY <2>1, IdleUnanswered DEF Moves, AgentTypeOK
  <2>3. Phase(a) = "pending" /\ Phase(a)' = "settled" /\ Outcome(a)' = "ask"
    BY <2>1, <2>2 DEF Phase, Outcome
  <2>4. QED
    BY <2>2, <2>3, MapsSettle
<1>9. ASSUME NEW a \in Asks, AskAnswered(a) \/ AskTimedOut(a)
      PROVE  AbstractStep
  BY <1>9, SettleMaps DEF AskAnswered, AskTimedOut
<1>10. ASSUME NEW a \in Asks, AskResponded(a)
       PROVE  AbstractStep
  <2>1. /\ task[a] = "done" /\ task' = [task EXCEPT ![a] = "idle"]
        /\ decision' = [decision EXCEPT ![a] = "ask"] /\ waiter' = waiter
    BY <1>10 DEF AskResponded
  <2>2. Moves(a) /\ task'[a] = "idle" /\ waiter'[a] = "absent"
    BY <2>1, BaseAssumption DEF Moves, AgentTypeOK, WaiterOwned
  <2>3. Phase(a) = "settled" /\ Phase(a)' = "idle" /\ Outcome(a)' = None
    BY <2>1, <2>2 DEF Phase, Outcome
  <2>4. QED
    BY <2>2, <2>3, MapsRespond
<1>11. ASSUME NEW a \in Asks, NEW answer \in Answers(a), DeviceAnswer(a, answer)
       PROVE  AbstractStep
  <2>1. CASE waiter[a] = "open"
    <3>1. task[a] \in {"showing", "waiting"} /\ UNCHANGED <<task, decision>>
      BY <1>11, <2>1 DEF DeviceAnswer, WaiterOwned
    <3>2. waiter' = [waiter EXCEPT ![a] = answer]
      BY <1>11, <2>1 DEF DeviceAnswer, Accepts
    <3>3. Moves(a) /\ waiter'[a] = answer /\ answer \notin {"absent", "open"}
      BY <1>11, <3>1, <3>2, AnswersNoMarks DEF Moves, AgentTypeOK
    <3>4. Phase(a) = "pending" /\ Phase(a)' = "pending" /\ Outcome(a) = None /\ Outcome(a)' = answer
      BY <2>1, <3>1, <3>3 DEF Phase, Outcome
    <3>5. QED
      BY <1>11, <3>3, <3>4, MapsAnswer
  <2>2. CASE waiter[a] # "open"
    BY <1>1, <1>11, <2>2 DEF DeviceAnswer, Accepts, askVars
  <2>3. QED
    BY <2>1, <2>2
<1>12. ASSUME WriteDone \/ \E a \in Asks : Unlinked(a)
       PROVE  AbstractStep
  BY <1>12, ContinueMaps DEF WriteDone, Unlinked
<1>13. ASSUME WriteFailed \/ BleConnected \/ BleLost \/ Keepalive \/ OtaBegin \/ OtaEnd
       PROVE  AbstractStep
  BY <1>1, <1>13 DEF WriteFailed, BleConnected, BleLost, Keepalive, OtaBegin, OtaEnd
<1>14. ASSUME UNCHANGED agentVars
       PROVE  AbstractStep
  BY <1>1, <1>14 DEF agentVars
<1>15. QED
  BY <1>2, <1>3, <1>4, <1>5, <1>6, <1>7, <1>8, <1>9, <1>10, <1>11, <1>12, <1>13, <1>14
  DEF AgentNext

(* The first answer to an ask is the one reported, for any number of asks, *)
(* whatever writes fail, links drop and answers come late                  *)
(* (agent.py:754-762, 808-812, 861-891).                                   *)
THEOREM AgentImplementsApproval == AgentSpec => FirstAnswerReported
<1>1. AgentInit => Abstract!Init
  BY DEF AgentInit, Abstract!Init, Abstract!Asks, Asks, Phase, Outcome
<1>2. AgentTypeOK /\ WaiterOwned /\ [AgentNext]_agentVars => [Abstract!Next]_Abstract!vars
  BY AgentMaps DEF AbstractStep, Abstract!vars, PhaseMap, OutcomeMap
<1>3. QED
  BY <1>1, <1>2, AgentTypes, WaitersOwned, PTL DEF AgentSpec, FirstAnswerReported, Abstract!Spec
===============================================================================
