-------------------------- MODULE ApprovalSystemProofs --------------------------
(***************************************************************************)
(* An answer on its way from the button to OpenCode: over the radio, into  *)
(* the future of its ask, into the decision of the command, back over the  *)
(* socket and into the plugin's reply.  What holds of it for any sessions, *)
(* requests, parts and options, and any number of faults.                  *)
(***************************************************************************)
EXTENDS ApprovalSystem, BuddyAgentProofs, BuddyDeviceProofs

Backed(a, answer) == [ask |-> a, answer |-> answer] \in pressed

(* Everything that was pressed is an answer its ask can take.              *)
PressedFit == pressed \subseteq {x \in DeviceAnswers : x.answer \in Answers(x.ask)}

(* What is on its way to the agent, what the futures hold and what the     *)
(* commands are going to answer was pressed for that very ask.             *)
Carried ==
  /\ \A i \in DOMAIN upq : upq[i] \in pressed
  /\ \A a \in Asks :
       /\ waiter[a] \in {"absent", "open", "ask"} \/ Backed(a, waiter[a])
       /\ decision[a] = "ask" \/ Backed(a, decision[a])

(* Where the plugin stands in a question, and that each part it has        *)
(* collected was answered.                                                 *)
PartsCollected ==
  /\ questBusy = None => part = 0 /\ partBusy = None
  /\ questBusy # None =>
       /\ part < Len(PartsOf[questBusy])
       /\ \A i \in 1..part : \E c \in Offered : Backed(PartsOf[questBusy][i], c)
  /\ partBusy # None => RequestOf[partBusy] = questBusy /\ PartsOf[questBusy][part + 1] = partBusy

SystemInv ==
  /\ AgentTypeOK /\ DeviceTypeOK /\ PluginTypeOK
  /\ PressedFit /\ Carried /\ PartsCollected /\ RepliesWerePressed

LEMMA SystemStart ==
  ASSUME SystemInit
  PROVE  SystemInv
<1> USE DEF SystemInit
<1>1. AgentTypeOK /\ DeviceTypeOK
  BY TypeInit, DeviceStart
<1>2. PluginTypeOK
  BY DEF PluginInit, PluginTypeOK
<1>3. PressedFit
  BY DEF PressedFit
<1>4. Carried
  BY DEF Carried, AgentInit, DeviceInit
<1>5. PartsCollected
  BY DEF PartsCollected, PluginInit
<1>6. RepliesWerePressed
  BY DEF RepliesWerePressed, PluginInit, Raised
<1>7. QED
  BY <1>1, <1>2, <1>3, <1>4, <1>5, <1>6 DEF SystemInv

--------------------------------------------------------------------------------
(* The agent                                                               *)

(* A step that hands on what the futures hold and adds nothing to it.      *)
HandsOn ==
  \A a \in Asks :
    /\ waiter'[a] \in {waiter[a], "absent", "open", "ask"}
    /\ \/ decision'[a] \in {decision[a], "ask"}
       \/ decision'[a] = waiter[a] /\ waiter[a] \notin {"absent", "open"}

LEMMA BodyHandsOn ==
  ASSUME AgentTypeOK, NEW a \in Asks, Body(a)
  PROVE  HandsOn
<1>1. decision' = decision /\ waiter' \in {waiter, [waiter EXCEPT ![a] = "open"]}
  BY DEF Body, PermBody, QuestionBody
<1>2. QED
  BY <1>1 DEF HandsOn, AgentTypeOK

LEMMA SettleHandsOn ==
  ASSUME AgentTypeOK, NEW a \in Asks, NEW d, Settle(a, d),
         d = "ask" \/ (d = waiter[a] /\ waiter[a] \notin {"absent", "open"})
  PROVE  HandsOn
<1>1. decision' = [decision EXCEPT ![a] = d] /\ waiter' = [waiter EXCEPT ![a] = "absent"]
  BY DEF Settle, DropFuture
<1>2. QED
  BY <1>1 DEF HandsOn, AgentTypeOK

LEMMA ContinueHandsOn ==
  ASSUME AgentTypeOK, NEW owner \in Owners, Continue(owner)
  PROVE  HandsOn
<1>1. decision' = decision /\ waiter' \in {waiter, [waiter EXCEPT ![owner] = "open"]}
  BY DEF Continue
<1>2. QED
  BY <1>1 DEF HandsOn, AgentTypeOK

LEMMA AgentHandsOn ==
  ASSUME AgentTypeOK, OwnSteps
  PROVE  HandsOn
<1>1. ASSUME askVars' = askVars
      PROVE  HandsOn
  BY <1>1 DEF HandsOn, askVars
<1>2. ASSUME NEW r \in Perms, PermissionReplied(r)
      PROVE  HandsOn
  BY <1>2 DEF PermissionReplied, HandsOn, AgentTypeOK, Asks
<1>3. ASSUME NEW q \in Questions, QuestionResolved(RequestOf[q])
      PROVE  HandsOn
  BY <1>3 DEF QuestionResolved, HandsOn
<1>4. ASSUME NEW a \in Asks, AskStart(a) \/ AskLinked(a)
      PROVE  HandsOn
  BY <1>4, BodyHandsOn DEF AskStart, AskLinked, HandsOn
<1>5. ASSUME NEW a \in Asks, AskUnlinked(a) \/ AskResponded(a)
      PROVE  HandsOn
  BY <1>5 DEF AskUnlinked, AskResponded, HandsOn, AgentTypeOK
<1>6. ASSUME NEW a \in Asks, AskAnswered(a) \/ AskTimedOut(a)
      PROVE  HandsOn
  BY <1>6, SettleHandsOn DEF AskAnswered, AskTimedOut
<1>7. ASSUME NEW a \in Asks, Unlinked(a)
      PROVE  HandsOn
  BY <1>7, ContinueHandsOn DEF Unlinked, Owners
<1>8. ASSUME WriteDone
      PROVE  HandsOn
  <2>1. Head(outq) \in Writes
    BY <1>8 DEF WriteDone, AgentTypeOK
  <2>2. QED
    BY <1>8, <2>1, ContinueHandsOn DEF WriteDone, Writes
<1>9. QED
  BY <1>1, <1>2, <1>3, <1>4, <1>5, <1>6, <1>7, <1>8
  DEF OwnSteps, SessionEvent, Expire, PermissionUpdated, WriteFailed, BleConnected, BleLost,
      Keepalive, OtaBegin, OtaEnd, agentVars, askVars

(* What is handed on stays backed.                                         *)
LEMMA CarriedKept ==
  ASSUME Carried, HandsOn, pressed' = pressed,
         \A i \in DOMAIN upq' : upq'[i] \in pressed
  PROVE  Carried'
BY DEF Carried, HandsOn, Backed

--------------------------------------------------------------------------------
(* The plugin                                                              *)

(* What a reply to a request has to rest on.                               *)
ReplyBacked(r, reply) ==
  /\ r \in Perms =>
       /\ reply \in {"once", "always"} => Backed(r, reply)
       /\ reply = "reject" => Backed(r, "deny")
  /\ r \in Requests =>
       /\ reply = "reply" => \A i \in DOMAIN PartsOf[r] : \E c \in Offered : Backed(PartsOf[r][i], c)
       /\ reply = "reject" => \E i \in DOMAIN PartsOf[r] : Backed(PartsOf[r][i], "reject")

LEMMA RepliesBacked == RepliesWerePressed <=> \A r \in Raised : ReplyBacked(r, oc[r])
BY DEF RepliesWerePressed, ReplyBacked, Backed, Raised

LEMMA RepliesKept ==
  ASSUME PluginTypeOK, RepliesWerePressed, pressed \subseteq pressed',
         NEW r \in Raised, NEW reply, ReplyBacked(r, reply),
         oc' \in {oc, [oc EXCEPT ![r] = reply]}
  PROVE  RepliesWerePressed'
<1>1. \A s \in Raised : \A word : ReplyBacked(s, word) => ReplyBacked(s, word)'
  BY DEF ReplyBacked, Backed
<1>2. \A s \in Raised : ReplyBacked(s, oc'[s])
  BY RepliesBacked DEF PluginTypeOK
<1>3. \A s \in Raised : ReplyBacked(s, oc[s])'
  BY <1>1, <1>2 DEF ReplyBacked, Backed
<1>4. QED
  BY <1>3, RepliesBacked DEF RepliesWerePressed, ReplyBacked, Backed, Raised

(* The steps of the plugin, when what it is answered was pressed.          *)
Answering(a, answer) == (answer = "ask" \/ Backed(a, answer)) /\ Response(a, answer)

PluginSteps ==
  \/ \E r \in Perms : PermAsked(r)
  \/ \E request \in Requests : QuestionAsked(request)
  \/ \E r \in Raised : TerminalAnswers(r) \/ Notice(r)
  \/ \E a \in Asks : Request(a) \/ \E answer \in Decisions : Answering(a, answer)
  \/ UNCHANGED pluginVars

PluginInv == PluginTypeOK /\ PartsCollected /\ RepliesWerePressed

(* The part in flight belongs to the question that is being asked.         *)
LEMMA PartInFlight ==
  ASSUME PluginTypeOK, PartsCollected, partBusy # None
  PROVE  /\ RequestOf[partBusy] \in Requests /\ RequestOf[partBusy] = questBusy
         /\ partBusy \in Questions /\ PartsOf[questBusy][part + 1] = partBusy
         /\ part + 1 \in DOMAIN PartsOf[questBusy]
         /\ DOMAIN PartsOf[questBusy] = 1..Len(PartsOf[questBusy])
         /\ Len(PartsOf[questBusy]) \in Nat
<1>1. questBusy \in Requests /\ RequestOf[partBusy] = questBusy /\ partBusy \in Questions
  BY DEF PartsCollected, PluginTypeOK
<1>2. PartsOf[questBusy] \in Seq(Questions) /\ part < Len(PartsOf[questBusy]) /\ part \in Nat
  BY <1>1, PluginAssumption DEF PartsCollected, PluginTypeOK
<1>3. QED
  BY <1>1, <1>2 DEF PartsCollected

(* What can become of a request in OpenCode.                               *)
Words == {"none", "asked", "terminal", "once", "always", "reply", "reject"}
USE DEF Words

(* A reply to OpenCode changes the request it replies to, or nothing.      *)
LEMMA ReplyTyped ==
  ASSUME PluginTypeOK, NEW r \in Raised,
         NEW reply \in {"once", "always", "reply", "reject"}, ReplyOpenCode(r, reply)
  PROVE  /\ oc' \in {oc, [oc EXCEPT ![r] = reply]}
         /\ oc' \in [Raised -> Words]
         /\ notices' \in SUBSET Raised
BY DEF ReplyOpenCode, PluginTypeOK

LEMMA PermResponseKept ==
  ASSUME PluginInv, PressedFit, pressed' = pressed,
         NEW r \in Perms, NEW answer \in Decisions, Answering(r, answer)
  PROVE  PluginInv'
<1>1. PermResponse(r, answer) /\ r \in Raised /\ r \notin Requests
  BY PluginAssumption DEF Answering, Response, Raised
<1>2. PartsCollected'
  BY <1>1 DEF PermResponse, PluginInv, PartsCollected, Backed, questVars
<1>3. CASE answer = "ask"
  BY <1>1, <1>2, <1>3 DEF PermResponse, PluginInv, PluginTypeOK, RepliesWerePressed, questVars
<1>4. CASE answer # "ask"
  <2> DEFINE reply == DecisionToReply(answer)
  <2>1. Backed(r, answer) /\ answer \in {"once", "always", "deny"}
    BY <1>4 DEF Answering, Backed, PressedFit, Answers, PermAnswers
  <2>2. reply \in {"once", "always", "reject"} /\ ReplyBacked(r, reply)
    BY <1>1, <2>1 DEF DecisionToReply, ReplyBacked
  <2>3. ReplyOpenCode(r, reply)
    BY <1>1, <1>4 DEF PermResponse
  <2>4. PluginTypeOK /\ RepliesWerePressed
    BY DEF PluginInv
  <2>5. RepliesWerePressed'
    BY <1>1, <2>2, <2>3, <2>4, ReplyTyped, RepliesKept
  <2>6. PluginTypeOK'
    <3>1. /\ oc' \in [Raised -> Words]
          /\ notices' \in SUBSET Raised
      BY <1>1, <2>2, <2>3, <2>4, ReplyTyped
    <3>2. QED
      BY <3>1, <2>4, <1>1 DEF PermResponse, PluginTypeOK, questVars
  <2>7. QED
    BY <1>2, <2>5, <2>6 DEF PluginInv
<1>5. QED
  BY <1>3, <1>4

LEMMA PartResponseKept ==
  ASSUME PluginInv, PressedFit, pressed' = pressed,
         NEW q \in Questions, NEW answer \in Decisions, Answering(q, answer)
  PROVE  PluginInv'
<1> DEFINE request == RequestOf[q]
           parts == PartsOf[questBusy]
<1>1. PartResponse(q, answer) /\ PluginTypeOK /\ PartsCollected /\ RepliesWerePressed
  BY BaseAssumption DEF Answering, Response, PluginInv
<1>2. partBusy = q /\ partBusy # None /\ part \in Nat
  BY <1>1, BaseAssumption DEF PartResponse, PluginTypeOK, Asks
<1>3. /\ request \in Requests /\ request = questBusy /\ parts[part + 1] = q
      /\ part + 1 \in DOMAIN parts /\ DOMAIN parts = 1..Len(parts) /\ Len(parts) \in Nat
  BY <1>1, <1>2, PartInFlight
<1>4. request \in Raised /\ request \notin Perms /\ questBusy # None
  BY <1>3, PluginAssumption DEF Raised
<1>5. ASSUME UNCHANGED <<oc, notices>>
      PROVE  RepliesWerePressed' /\ oc' \in [Raised -> Words]
             /\ notices' \in SUBSET Raised
  BY <1>1, <1>5 DEF RepliesWerePressed, PluginTypeOK
<1>6. ASSUME NEW reply \in {"reply", "reject"},
             ReplyBacked(request, reply), ReplyOpenCode(request, reply)
      PROVE  RepliesWerePressed' /\ oc' \in [Raised -> Words]
             /\ notices' \in SUBSET Raised
  BY <1>1, <1>4, <1>6, ReplyTyped, RepliesKept
<1>7. ASSUME questBusy' = None, part' = 0,
             RepliesWerePressed', notices' \in SUBSET Raised,
             oc' \in [Raised -> Words]
      PROVE  PluginInv'
  BY <1>1, <1>7 DEF PartResponse, PluginInv, PluginTypeOK, PartsCollected, permVars
<1>8. \A i \in 1..part : \E c \in Offered : Backed(parts[i], c)
  BY <1>1, <1>4 DEF PartsCollected
<1>9. CASE answer = "ask" /\ QuestionOver /\ UNCHANGED <<oc, notices>>
  BY <1>5, <1>7, <1>9 DEF QuestionOver
<1>10. CASE answer = "reject" /\ QuestionOver /\ ReplyOpenCode(request, "reject")
  <2>1. ReplyBacked(request, "reject")
    BY <1>1, <1>3, <1>4, <1>10 DEF Answering, ReplyBacked
  <2>2. QED
    BY <2>1, <1>6, <1>7, <1>10 DEF QuestionOver
<1>11. CASE answer \in Offered /\ LastPart(request) /\ QuestionOver /\ ReplyOpenCode(request, "reply")
  <2>1. Backed(q, answer)
    BY <1>11, BaseAssumption DEF Answering, QuestionAnswers
  <2>2. ASSUME NEW i \in DOMAIN parts
        PROVE  \E c \in Offered : Backed(parts[i], c)
    <3>1. i \in 1..part \/ i = part + 1
      BY <1>2, <1>3, <1>11, <2>2 DEF LastPart
    <3>2. QED
      BY <3>1, <2>1, <1>3, <1>8, <1>11
  <2>3. ReplyBacked(request, "reply")
    BY <1>3, <1>4, <2>2 DEF ReplyBacked
  <2>4. QED
    BY <2>3, <1>6, <1>7, <1>11 DEF QuestionOver
<1>12. CASE /\ answer \in Offered /\ ~LastPart(request)
            /\ part' = part + 1
            /\ UNCHANGED <<oc, questBusy, notices>>
  <2>1. Backed(q, answer)
    BY <1>12, BaseAssumption DEF Answering, QuestionAnswers
  <2>2. part + 1 < Len(parts)
    BY <1>2, <1>3, <1>12 DEF LastPart
  <2>3. \A i \in 1..(part + 1) : \E c \in Offered : Backed(parts[i], c)
    <3>1. ASSUME NEW i \in 1..(part + 1)
          PROVE  i \in 1..part \/ i = part + 1
      BY <1>2
    <3>2. QED
      BY <3>1, <2>1, <1>3, <1>8, <1>12
  <2>4. partBusy' = None
    BY <1>1 DEF PartResponse
  <2>5. PartsCollected'
    BY <2>2, <2>3, <2>4, <1>4, <1>12 DEF PartsCollected, Backed
  <2>6. QED
    BY <2>5, <1>1, <1>2, <1>5, <1>12 DEF PluginInv, PluginTypeOK, PartResponse, permVars
<1>13. QED
  BY <1>1, <1>9, <1>10, <1>11, <1>12 DEF PartResponse

(* A request that is asked, answered at the terminal, announced or sent.   *)
LEMMA RequestKept ==
  ASSUME PluginInv, NEW a \in Asks, Request(a), pressed' = pressed
  PROVE  PluginInv'
<1>1. CASE a \in Perms
  <2>1. PermRequest(a) /\ PluginTypeOK
    BY <1>1 DEF Request, PluginInv
  <2>2. permQueue \in Seq(Perms) /\ permQueue # <<>> /\ permQueue' = Tail(permQueue)
    BY <2>1 DEF PermRequest, PluginTypeOK
  <2>3. permQueue' \in Seq(Perms)
    BY <2>2
  <2>4. PluginTypeOK'
    BY <1>1, <2>1, <2>3 DEF PermRequest, PluginTypeOK, questVars
  <2>5. PartsCollected' /\ RepliesWerePressed'
    BY <2>1 DEF PermRequest, PluginInv, PartsCollected, RepliesWerePressed, Backed, questVars
  <2>6. QED
    BY <2>4, <2>5 DEF PluginInv
<1>2. CASE a \notin Perms
  <2>1. PartRequest(a) /\ a \in Questions /\ PluginTypeOK /\ PartsCollected
    BY <1>2 DEF Request, Asks, PluginInv
  <2>2. RequestOf[a] \in Requests /\ RequestOf[a] # None /\ questQueue' \in Seq(Requests)
    <3>1. questQueue \in Seq(Requests) /\ questBusy \in Requests \cup {None} /\ None \notin Requests
      BY <2>1, PluginAssumption DEF PluginTypeOK
    <3>2. questQueue' = questQueue \/ (questQueue # <<>> /\ questQueue' = Tail(questQueue))
      BY <2>1 DEF PartRequest
    <3>3. questQueue' \in Seq(Requests)
      BY <3>1, <3>2
    <3>4. QED
      BY <2>1, <3>1, <3>3, PluginAssumption
  <2>3. part \in Nat /\ (questBusy = None => 1..part = {})
    BY <2>1 DEF PartsCollected, PluginTypeOK
  <2>4. PartsCollected'
    BY <2>1, <2>2, <2>3 DEF PartRequest, PartsCollected, Backed
  <2>5. QED
    BY <2>1, <2>2, <2>4 DEF PartRequest, PluginInv, PluginTypeOK, RepliesWerePressed, permVars
<1>3. QED
  BY <1>1, <1>2

LEMMA RaisedKept ==
  ASSUME PluginInv, pressed' = pressed,
         \/ \E r \in Perms : PermAsked(r)
         \/ \E request \in Requests : QuestionAsked(request)
         \/ \E r \in Raised : TerminalAnswers(r) \/ Notice(r)
         \/ UNCHANGED pluginVars
  PROVE  PluginInv'
<1>1. PluginTypeOK /\ RepliesWerePressed
  BY DEF PluginInv
<1>2. PartsCollected'
  BY DEF PluginInv, PartsCollected, Backed, PermAsked, QuestionAsked, TerminalAnswers, Notice,
     pluginVars, questVars
<1>3. \/ oc' = oc
      \/ \E r \in Raised : \E word \in {"asked", "terminal"} : oc' = [oc EXCEPT ![r] = word]
  BY DEF PermAsked, QuestionAsked, TerminalAnswers, Notice, Raised, pluginVars
<1>4. RepliesWerePressed'
  <2>1. \A r \in Raised : ReplyBacked(r, "asked") /\ ReplyBacked(r, "terminal")
    BY DEF ReplyBacked
  <2>2. CASE oc' = oc
    BY <1>1, <2>2 DEF RepliesWerePressed
  <2>3. QED
    BY <1>1, <1>3, <2>1, <2>2, RepliesKept
<1>5. PluginTypeOK'
  <2>1. oc' \in [Raised -> Words]
    BY <1>1, <1>3 DEF PluginTypeOK
  <2>2. permQueue' \in Seq(Perms) /\ questQueue' \in Seq(Requests) /\ notices' \in SUBSET Raised
    <3>1. permQueue \in Seq(Perms) /\ questQueue \in Seq(Requests) /\ notices \in SUBSET Raised
      BY <1>1 DEF PluginTypeOK
    <3>2. CASE UNCHANGED permQueue
      <4>1. \/ questQueue' = questQueue
            \/ \E request \in Requests : questQueue' = Append(questQueue, request)
        BY <3>1 DEF PermAsked, QuestionAsked, TerminalAnswers, Notice, pluginVars, permVars, questVars
      <4>2. questQueue' \in Seq(Requests)
        BY <3>1, <4>1
      <4>3. notices' \in SUBSET Raised
        BY <3>1 DEF PermAsked, QuestionAsked, TerminalAnswers, Notice, pluginVars, permVars, questVars
      <4>4. QED
        BY <3>1, <3>2, <4>2, <4>3
    <3>3. CASE \E r \in Perms : PermAsked(r)
      <4>1. PICK r \in Perms : permQueue' = Append(permQueue, r)
        BY <3>3 DEF PermAsked
      <4>2. permQueue' \in Seq(Perms)
        BY <3>1, <4>1
      <4>3. questQueue' = questQueue /\ notices' = notices
        BY <3>3 DEF PermAsked, questVars
      <4>4. QED
        BY <3>1, <4>2, <4>3
    <3>4. QED
      BY <3>2, <3>3 DEF QuestionAsked, TerminalAnswers, Notice, pluginVars, permVars
  <2>3. UNCHANGED <<permBusy, questBusy, partBusy, part>>
    BY DEF PermAsked, QuestionAsked, TerminalAnswers, Notice, pluginVars, permVars, questVars
  <2>4. QED
    BY <1>1, <2>1, <2>2, <2>3 DEF PluginTypeOK
<1>6. QED
  BY <1>2, <1>4, <1>5 DEF PluginInv

LEMMA PluginKept ==
  ASSUME PluginInv, PressedFit, pressed' = pressed, PluginSteps
  PROVE  PluginInv'
<1>1. \A a \in Asks : a \in Perms \/ a \in Questions
  BY DEF Asks
<1>2. QED
  BY <1>1, RaisedKept, RequestKept, PermResponseKept, PartResponseKept DEF PluginSteps

--------------------------------------------------------------------------------
(* The whole                                                               *)

(* Every step of the system but those of the device and a new agent.       *)
LEMMA HostKept ==
  ASSUME SystemInv, OwnSteps, PluginSteps, pressed' = pressed,
         UNCHANGED <<screenVars, buttonVars>>, devLink' \in BOOLEAN,
         rx' = rx \/ \E payload \in Payloads : rx' = Append(rx, payload),
         upq' \in {upq, <<>>}
  PROVE  SystemInv'
<1>1. AgentTypeOK' /\ HandsOn
  BY TypeStep, AgentHandsOn DEF SystemInv, AgentSteps
<1>2. DeviceTypeOK'
  BY RestTyped DEF SystemInv, DeviceTypeOK, screenVars
<1>3. \A i \in DOMAIN upq' : upq'[i] \in pressed
  BY DEF SystemInv, Carried
<1>4. Carried' /\ PressedFit'
  BY <1>1, <1>3, CarriedKept DEF SystemInv, PressedFit
<1>5. PluginInv'
  BY PluginKept DEF SystemInv, PluginInv
<1>6. QED
  BY <1>1, <1>2, <1>4, <1>5 DEF SystemInv, PluginInv

(* An answer of the device reaches its future, if that is still open.      *)
LEMMA AnswerKept ==
  ASSUME SystemInv, HandleAnswer
  PROVE  SystemInv'
<1> DEFINE a == Head(upq).ask
           answer == Head(upq).answer
<1>1. /\ upq # <<>> /\ upq' = Tail(upq) /\ DeviceAnswer(a, answer)
      /\ UNCHANGED <<screenVars, buttonVars, devLink, rx, pluginVars, pressed>>
  BY DEF HandleAnswer, TakeAnswer
<1>2. upq \in Seq(DeviceAnswers) /\ Head(upq) = upq[1] /\ 1 \in DOMAIN upq
  BY <1>1 DEF SystemInv, DeviceTypeOK
<1>3. a \in Asks /\ answer \in Answers(a) /\ Backed(a, answer)
  <2>1. upq[1] \in DeviceAnswers /\ upq[1].answer \in Answers(upq[1].ask) /\ upq[1] \in pressed
    BY <1>2 DEF SystemInv, DeviceTypeOK, Carried
  <2>2. upq[1] = [ask |-> upq[1].ask, answer |-> upq[1].answer] /\ upq[1].ask \in Asks
    BY <2>1 DEF DeviceAnswers
  <2>3. QED
    BY <1>2, <2>1, <2>2 DEF Backed
<1> HIDE DEF a, answer
<1>4. AgentTypeOK'
  BY <1>1, <1>3, TypeStep DEF AgentSteps, SystemInv
<1>5. DeviceTypeOK'
  BY <1>1, RestTyped DEF SystemInv, DeviceTypeOK, screenVars
<1>6. \A i \in DOMAIN upq' : upq'[i] \in pressed
  <2>1. \A i \in DOMAIN upq' : i + 1 \in DOMAIN upq /\ upq'[i] = upq[i + 1]
    BY <1>1, <1>2
  <2>2. QED
    BY <2>1 DEF SystemInv, Carried
<1>7. Carried'
  BY <1>1, <1>3, <1>6 DEF DeviceAnswer, SystemInv, AgentTypeOK, Carried, Backed
<1>8. PressedFit' /\ PluginInv'
  BY <1>1, PluginKept DEF SystemInv, PluginInv, PressedFit, PluginSteps
<1>9. QED
  BY <1>4, <1>5, <1>7, <1>8 DEF SystemInv, PluginInv

(* An iteration of the device: what it sends is what was pressed.          *)
LEMMA DeviceKept ==
  ASSUME SystemInv, NEW event \in ButtonEvents, DeviceRuns(event)
  PROVE  SystemInv'
<1> DEFINE replies == Replies(event)
           new == {Replies(event)[i] : i \in DOMAIN Replies(event)}
<1>1. /\ DeviceLoop(event) /\ pressed' = pressed \cup new /\ event \in Events
      /\ UNCHANGED <<agentVars, pluginVars>>
  BY DeviceAssumption DEF DeviceRuns
<1>2. DeviceTypeOK /\ DeviceTypeOK' /\ AgentTypeOK'
  BY <1>1, LoopTyped, TypeStep DEF SystemInv, AgentSteps, OwnSteps
<1>3. replies \in Seq(DeviceAnswers) /\ \A i \in DOMAIN replies : replies[i].answer \in Answers(replies[i].ask)
  BY <1>1, <1>2, RepliesAre, RepliesFit
<1>4. PressedFit'
  <2>1. \A i \in DOMAIN replies : replies[i] \in DeviceAnswers
    BY <1>3
  <2>2. QED
    BY <1>1, <1>3, <2>1 DEF SystemInv, PressedFit
<1>5. Carried'
  <2>1. \A i \in DOMAIN upq' : upq'[i] \in pressed'
    <3>1. upq \in Seq(DeviceAnswers) /\ upq' \in {upq, upq \o replies}
      BY <1>1, <1>2 DEF DeviceLoop, DeviceTypeOK
    <3>2. \A i \in DOMAIN (upq \o replies) :
            \/ i \in DOMAIN upq /\ (upq \o replies)[i] = upq[i]
            \/ i - Len(upq) \in DOMAIN replies /\ (upq \o replies)[i] = replies[i - Len(upq)]
      <4> HIDE DEF replies
      <4> QED BY <1>3, <3>1
    <3>3. QED
      BY <1>1, <3>1, <3>2 DEF SystemInv, Carried
  <2>2. \A a \in Asks : \A answer : Backed(a, answer) => Backed(a, answer)'
    BY <1>1 DEF Backed
  <2>3. waiter' = waiter /\ decision' = decision
    BY <1>1 DEF agentVars, askVars
  <2>4. QED
    BY <2>1, <2>2, <2>3 DEF SystemInv, Carried, Backed
<1>6. PluginTypeOK' /\ PartsCollected' /\ RepliesWerePressed'
  <2>1. oc' = oc /\ UNCHANGED <<permVars, questBusy, questQueue, partBusy, part, notices>>
    BY <1>1 DEF pluginVars, questVars
  <2>2. pressed \subseteq pressed'
    BY <1>1
  <2> HIDE DEF new
  <2>3. QED
    BY <2>1, <2>2 DEF SystemInv, PluginTypeOK, PartsCollected, RepliesWerePressed, Backed, permVars
<1>7. QED
  BY <1>2, <1>4, <1>5, <1>6 DEF SystemInv

(* A new agent knows nothing; the plugin and the device keep what they had. *)
LEMMA RestartKept ==
  ASSUME SystemInv, AgentRestarts
  PROVE  SystemInv'
<1>1. AgentTypeOK'
  <2>1. lastPayload' \in Payloads /\ outq' \in Seq(Writes)
    BY DEF AgentRestarts, AgentRestart, Payloads, NoPayload
  <2>2. task' \in [Asks -> Stages] /\ waiter' \in [Asks -> Futures] /\ decision' \in [Asks -> Decisions]
    BY DEF AgentRestarts, AgentRestart, Stages, Futures, Decisions
  <2>3. SessionTypeOK'
    BY DEF AgentRestarts, AgentRestart, SessionTypeOK
  <2>4. /\ activeQ' \in Questions \cup {None} /\ unlinking' \in SUBSET Asks
        /\ bleUp' \in BOOLEAN /\ otaClaimed' \in BOOLEAN
    BY DEF AgentRestarts, AgentRestart
  <2>5. QED
    BY <2>1, <2>2, <2>3, <2>4 DEF SessionTypeOK, Futures, Decisions, AgentTypeOK
<1>2. DeviceTypeOK'
  BY RestTyped DEF AgentRestarts, SystemInv, DeviceTypeOK, screenVars
<1>3. Carried' /\ PressedFit'
  BY DEF AgentRestarts, AgentRestart, SystemInv, Carried, PressedFit
<1>4. PluginInv'
  BY PluginKept DEF AgentRestarts, SystemInv, PluginInv, PluginSteps
<1>5. QED
  BY <1>1, <1>2, <1>3, <1>4 DEF SystemInv, PluginInv

LEMMA SystemKept ==
  SystemInv /\ [SystemNext]_systemVars => SystemInv'
<1> SUFFICES ASSUME SystemInv, [SystemNext]_systemVars
             PROVE  SystemInv'
  OBVIOUS
<1> USE DEF SystemInv
<1>1. devLink \in BOOLEAN
  BY DEF DeviceTypeOK
<1>2. ASSUME UNCHANGED deviceVars, UNCHANGED pressed, OwnSteps, PluginSteps
      PROVE  SystemInv'
  BY <1>1, <1>2, HostKept DEF deviceVars
<1>3. UNCHANGED agentVars => OwnSteps
  BY DEF OwnSteps
<1>4. UNCHANGED pluginVars => PluginSteps
  BY DEF PluginSteps
<1> USE <1>3, <1>4
<1>5. ASSUME AgentAlone
      PROVE  SystemInv'
  BY <1>2, <1>5 DEF AgentAlone, OwnSteps
<1>6. ASSUME NEW a \in Asks, Settles(a)
      PROVE  SystemInv'
  BY <1>2, <1>6 DEF Settles, OwnSteps
<1>7. ASSUME NEW a \in Asks, Requested(a)
      PROVE  SystemInv'
  <2>1. OwnSteps /\ PluginSteps
    BY <1>7 DEF Requested, OwnSteps, PluginSteps
  <2>2. QED
    BY <1>2, <1>7, <2>1 DEF Requested
<1>8. ASSUME NEW a \in Asks, Responded(a)
      PROVE  SystemInv'
  <2>1. OwnSteps
    BY <1>8 DEF Responded, OwnSteps
  <2>2. decision[a] \in Decisions /\ (decision[a] = "ask" \/ Backed(a, decision[a]))
    BY DEF AgentTypeOK, Decisions, Carried
  <2>3. PluginSteps
    BY <1>8, <2>2 DEF Responded, PluginSteps, Answering
  <2>4. QED
    BY <1>2, <1>8, <2>1, <2>3 DEF Responded
<1>9. ASSUME NEW a \in Asks, PluginTimesOut(a)
      PROVE  SystemInv'
  <2>1. PluginSteps
    BY <1>9 DEF PluginTimesOut, NoResponse, PluginSteps, Answering, Decisions
  <2>2. QED
    BY <1>2, <1>9, <2>1 DEF PluginTimesOut
<1>10. ASSUME NEW r \in Raised, Noticed(r)
       PROVE  SystemInv'
  <2>1. PluginSteps
    BY <1>10 DEF Noticed, PluginSteps
  <2>2. r \notin Perms => \E q \in Questions : RequestOf[q] = r
    <3>1. SUFFICES ASSUME r \notin Perms
                   PROVE  \E q \in Questions : RequestOf[q] = r
      OBVIOUS
    <3>2. r \in Requests /\ PartsOf[r] \in Seq(Questions) /\ PartsOf[r] # <<>>
      BY <3>1, PluginAssumption DEF Raised
    <3>3. 1 \in DOMAIN PartsOf[r] /\ PartsOf[r][1] \in Questions
      BY <3>2
    <3>4. QED
      BY <3>2, <3>3, PluginAssumption
  <2>3. OwnSteps
    BY <1>10, <2>2 DEF Noticed, OwnSteps
  <2>4. QED
    BY <1>2, <1>10, <2>1, <2>3 DEF Noticed
<1>11. ASSUME NEW r \in Perms, Announced(r)
       PROVE  SystemInv'
  BY <1>2, <1>11 DEF Announced, OwnSteps
<1>12. ASSUME OpenCodeAsks \/ TerminalSettles
       PROVE  SystemInv'
  <2>1. PluginSteps
    BY <1>12 DEF OpenCodeAsks, TerminalSettles, PluginSteps
  <2>2. QED
    BY <1>2, <1>12, <2>1 DEF OpenCodeAsks, TerminalSettles
<1>13. ASSUME Deliver
       PROVE  SystemInv'
  <2>1. Head(outq).payload \in Payloads
    <3>1. outq \in Seq(Writes) /\ outq # <<>>
      BY <1>13 DEF Deliver, AgentTypeOK
    <3>2. Head(outq) \in Writes
      BY <3>1
    <3>3. QED
      BY <3>2 DEF Writes
  <2>2. QED
    BY <1>1, <1>13, <2>1, HostKept DEF Deliver, Receive
<1>14. ASSUME Acknowledge \/ Fail \/ NoticeDrop
       PROVE  SystemInv'
  BY <1>2, <1>14 DEF Acknowledge, Fail, NoticeDrop, OwnSteps
<1>15. ASSUME Connect
       PROVE  SystemInv'
  <2>1. OwnSteps /\ PluginSteps
    BY <1>15 DEF Connect, OwnSteps
  <2>2. QED
    BY <1>15, <2>1, HostKept DEF Connect
<1>16. ASSUME Drop
       PROVE  SystemInv'
  BY <1>16, HostKept DEF Drop, DeviceLinkDown
<1>17. ASSUME UNCHANGED systemVars
       PROVE  SystemInv'
  BY <1>2, <1>17 DEF systemVars
<1>18. QED
  BY <1>5, <1>6, <1>7, <1>8, <1>9, <1>10, <1>11, <1>12, <1>13, <1>14, <1>15, <1>16, <1>17,
     AnswerKept, DeviceKept, RestartKept DEF SystemNext

(* The three programs keep their types together: what one hands to another *)
(* over the socket and the radio is of the kind it expects.                *)
THEOREM SystemTypes == SystemSpec => [](AgentTypeOK /\ DeviceTypeOK /\ PluginTypeOK)
<1>1. SystemInv => AgentTypeOK /\ DeviceTypeOK /\ PluginTypeOK
  BY DEF SystemInv
<1>2. QED
  BY <1>1, SystemStart, SystemKept, PTL DEF SystemSpec

(* OpenCode is never told anything the user did not press for that very    *)
(* request, whatever is lost, late or restarted (opencode-buddy.js:234-241, *)
(* 258-291, agent.py:808-812, 882-891).                                    *)
THEOREM OnlyPressedIsReplied == SystemSpec => []RepliesWerePressed
<1>1. SystemInv => RepliesWerePressed
  BY DEF SystemInv
<1>2. QED
  BY <1>1, SystemStart, SystemKept, PTL DEF SystemSpec
================================================================================
