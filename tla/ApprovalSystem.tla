----------------------------- MODULE ApprovalSystem ----------------------------
(***************************************************************************)
(* OpenCode's plugin, the agent and the device together: requests travel   *)
(* over the agent's socket, snapshots and answers over BLE, and any of the *)
(* three may lose the others.                                              *)
(***************************************************************************)
EXTENDS BuddyAgent, BuddyDevice, BuddyPlugin

CONSTANTS
  MaxDrops,   \* bound: how often the link drops or a write fails
  MaxCrashes  \* bound: how often the agent dies and launchd restarts it

VARIABLES
  written,  \* the device has the snapshot at the head of outq
  drops,    \* link drops and failed writes so far
  crashes,  \* restarts of the agent so far
  pressed   \* every answer given on the device, for the properties

counters == <<drops, crashes>>
systemVars == <<agentVars, deviceVars, pluginVars, written, counters, pressed>>

SystemInit ==
  /\ AgentInit /\ DeviceInit /\ PluginInit
  /\ written = FALSE /\ drops = 0 /\ crashes = 0 /\ pressed = {}

AgentAlone ==
  /\ \/ \E s \in Busy : SessionEvent(s) \/ Expire(s)
     \/ \E a \in Asks : AskLinked(a) \/ AskUnlinked(a) \/ Unlinked(a)
     \/ Keepalive
  /\ UNCHANGED <<deviceVars, pluginVars, written, counters, pressed>>

Settles(a) ==
  /\ AskAnswered(a) \/ AskTimedOut(a)
  /\ UNCHANGED <<deviceVars, pluginVars, written, counters, pressed>>

--------------------------------------------------------------------------------
(* The agent's socket                                                      *)

OpenCodeAsks ==
  /\ \/ \E r \in Perms : PermAsked(r)
     \/ \E request \in Requests : QuestionAsked(request)
  /\ InScope({r \in Perms : oc'[r] # "none"} \cup {q \in Questions : oc'[RequestOf[q]] # "none"})
  /\ UNCHANGED <<agentVars, deviceVars, written, counters, pressed>>

(* OpenCode announces a permission by a permission.updated event as well.  *)
Announced(r) ==
  /\ oc[r] # "none"
  /\ PermissionUpdated(r)
  /\ UNCHANGED <<deviceVars, pluginVars, written, counters, pressed>>

TerminalSettles ==
  /\ \E r \in Raised : TerminalAnswers(r)
  /\ UNCHANGED <<agentVars, deviceVars, written, counters, pressed>>

Requested(a) ==
  /\ Request(a) /\ AskStart(a)
  /\ UNCHANGED <<deviceVars, written, counters, pressed>>

(* The response, to a plugin that still listens or to a closed socket.     *)
Responded(a) ==
  /\ AskResponded(a)
  /\ IF InFlight(a) THEN Response(a, decision[a]) ELSE UNCHANGED pluginVars
  /\ UNCHANGED <<deviceVars, written, counters, pressed>>

CloseIgnored(a) ==
  /\ task[a] \notin {"idle", "connecting", "showing"}
  /\ NoResponse(a)
  /\ UNCHANGED <<agentVars, deviceVars, written, counters, pressed>>

(* 65 seconds have passed, or the agent has died.  They are longer than    *)
(* the agent waits for a link and for one write, but shorter than these    *)
(* and the 60 seconds it then waits for an answer.                         *)
PluginTimesOut(a) ==
  /\ task[a] \notin {"connecting", "showing"}
  /\ NoResponse(a)
  /\ UNCHANGED <<agentVars, deviceVars, written, counters, pressed>>

Noticed(r) ==
  /\ Notice(r)
  /\ IF r \in Perms THEN PermissionReplied(r) ELSE QuestionResolved(r)
  /\ UNCHANGED <<deviceVars, written, counters, pressed>>

--------------------------------------------------------------------------------
(* Bluetooth                                                               *)

(* The chunks of the snapshot reach the device before their last response  *)
(* reaches the agent.                                                      *)
Deliver ==
  /\ outq # <<>> /\ ~written /\ bleUp /\ devLink
  /\ Receive(Head(outq).payload)
  /\ written' = TRUE
  /\ UNCHANGED <<agentVars, pluginVars, counters, pressed>>

Acknowledge ==
  /\ written
  /\ WriteDone
  /\ written' = FALSE
  /\ UNCHANGED <<deviceVars, pluginVars, counters, pressed>>

(* A write fails when the link is gone, or by its timeout.                 *)
Fail ==
  /\ WriteFailed
  /\ written' = FALSE
  /\ drops' = IF bleUp /\ devLink THEN drops + 1 ELSE drops
  /\ drops' <= MaxDrops
  /\ UNCHANGED <<deviceVars, pluginVars, crashes, pressed>>

Connect ==
  /\ BleConnected
  /\ devLink' = TRUE
  /\ upq' = <<>>
  /\ UNCHANGED <<screenVars, buttonVars, rx, pluginVars, written, counters, pressed>>

Drop ==
  /\ drops < MaxDrops
  /\ DeviceLinkDown
  /\ drops' = drops + 1
  /\ UNCHANGED <<agentVars, pluginVars, written, crashes, pressed>>

NoticeDrop ==
  /\ ~devLink
  /\ BleLost
  /\ UNCHANGED <<deviceVars, pluginVars, written, counters, pressed>>

HandleAnswer ==
  /\ TakeAnswer
  /\ DeviceAnswer(Head(upq).ask, Head(upq).answer)
  /\ UNCHANGED <<pluginVars, written, counters, pressed>>

DeviceRuns(event) ==
  /\ DeviceLoop(event)
  /\ pressed' = pressed \cup {Replies(event)[i] : i \in DOMAIN Replies(event)}
  /\ UNCHANGED <<agentVars, pluginVars, written, counters>>

--------------------------------------------------------------------------------
(* The agent dies and starts again with an empty catalog; its sockets      *)
(* close, the helper goes with it.                                         *)
AgentRestarts ==
  /\ crashes < MaxCrashes
  /\ crashes' = crashes + 1
  /\ AgentRestart
  /\ written' = FALSE
  /\ devLink' = FALSE
  /\ upq' = <<>>
  /\ UNCHANGED <<screenVars, buttonVars, rx, pluginVars, drops, pressed>>

SystemNext ==
  \/ AgentAlone
  \/ \E a \in Asks : Settles(a) \/ Requested(a) \/ Responded(a) \/ PluginTimesOut(a)
  \/ \E r \in Raised : Noticed(r)
  \/ \E r \in Perms : Announced(r)
  \/ OpenCodeAsks \/ TerminalSettles
  \/ Deliver \/ Acknowledge \/ Fail \/ Connect \/ Drop \/ NoticeDrop \/ HandleAnswer
  \/ \E event \in ButtonEvents : DeviceRuns(event)
  \/ AgentRestarts

SystemSpec == SystemInit /\ [][SystemNext]_systemVars

(* The timers of the three programs, the radio's timeouts and the device's *)
(* loop; nothing obliges a user, OpenCode or a lost link to come back.     *)
SystemLiveSpec ==
  /\ SystemSpec
  /\ \A a \in Asks :
       /\ WF_systemVars(AgentAlone /\ (AskLinked(a) \/ AskUnlinked(a) \/ Unlinked(a)))
       /\ WF_systemVars(Settles(a))
       /\ WF_systemVars(Requested(a))
       /\ WF_systemVars(Responded(a))
       /\ WF_systemVars(PluginTimesOut(a))
  /\ WF_systemVars(Deliver)
  /\ WF_systemVars(Acknowledge \/ Fail)
  /\ WF_systemVars(NoticeDrop)
  /\ WF_systemVars(DeviceRuns(NoEvent))

--------------------------------------------------------------------------------
(* OpenCode is never told anything the user did not press for that very    *)
(* request: not after an agent restart, not with a late answer to a prompt *)
(* that was taken down, not when two asks overlap; and a question counts   *)
(* as answered only when each of its parts was (opencode-buddy.js:234-241, *)
(* 258-291, agent.py:808-812, 882-891).                                    *)
RepliesWerePressed ==
  /\ \A r \in Perms :
       /\ oc[r] \in {"once", "always"} => [ask |-> r, answer |-> oc[r]] \in pressed
       /\ oc[r] = "reject" => [ask |-> r, answer |-> "deny"] \in pressed
  /\ \A request \in Requests : LET parts == PartsOf[request] IN
       /\ oc[request] = "reply" =>
            \A i \in DOMAIN parts : \E c \in Offered : [ask |-> parts[i], answer |-> c] \in pressed
       /\ oc[request] = "reject" =>
            \E i \in DOMAIN parts : [ask |-> parts[i], answer |-> "reject"] \in pressed

(* Whatever happens to the agent, the plugin gets rid of every permission  *)
(* and question it queued: one lost request never blocks those behind it   *)
(* (opencode-buddy.js:226-248, 250-300).                                   *)
Members(queue) == {queue[i] : i \in DOMAIN queue}

EveryRequestLeaves ==
  \A r \in Raised :
    oc[r] = "asked" ~> r \notin Members(permQueue) \cup Members(questQueue) \cup {permBusy, questBusy}

(* Once the link stays up, the device ends up showing no prompt of an ask  *)
(* that is over, without waiting for a keepalive: every publish the agent  *)
(* skips or loses is made good by a later one (agent.py:907-916, 643-645). *)
DeviceCleared ==
  <>[](bleUp /\ devLink) => <>[](devPrompt = None /\ devQuestion = None)

(* README.md:46 says that A approves a prompt that is shown: an answer     *)
(* that reaches the agent before any other, while the ask is being shown   *)
(* or waited for, decides it.                                              *)
AnswerDecides ==
  [][\A a \in Asks :
       /\ HandleAnswer /\ Head(upq).ask = a
       /\ task[a] \in {"showing", "waiting"} /\ waiter[a] \in {"absent", "open"}
       => waiter'[a] = Head(upq).answer]_systemVars

(* The same line: the only permission OpenCode and the agent still wait    *)
(* for is the prompt of the snapshot.                                      *)
PendingShown ==
  \A r \in Perms :
    /\ oc[r] = "asked" /\ waiter[r] = "open"
    /\ \A other \in Perms \ {r} : task[other] = "idle"
    => ShownPrompt = r
================================================================================
