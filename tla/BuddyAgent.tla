------------------------------ MODULE BuddyAgent -------------------------------
(***************************************************************************)
(* The agent process (agent.py, catalog.py): one asyncio loop that turns   *)
(* OpenCode events into session records, holds one waiting task per        *)
(* permission or question, and publishes snapshots to the device.  A step  *)
(* here is the code one task runs between two awaits that really suspend.  *)
(***************************************************************************)
EXTENDS BuddyBase

CONSTANTS
  Legacy,   \* permissions also announced by a permission.updated event
  Busy,     \* bound: the sessions that report turns, output and usage
  MaxQueue, \* bound: the background writes that may be queued
  Scopes    \* bound: the sets of asks that may be in progress together

ASSUME AgentAssumption ==
  /\ Legacy \subseteq Perms /\ Busy \subseteq Sessions
  /\ MaxQueue \in Nat \ {0}
  /\ Scopes \subseteq SUBSET Asks

VARIABLES
  rtState,     \* _opencode_runtime[s].state, "absent" when s has no entry
  rtPending,   \* _opencode_runtime[s].pending_prompt
  recState,    \* catalog._sessions[s].state, "absent" when s has no record
  recPrompt,   \* catalog._sessions[s].pending_prompt
  fresh,       \* records still inside their visibility window
  catReq,      \* keys of catalog._request_to_session
  reqControl,  \* keys of _request_to_control
  task,        \* where the command handler of each ask stands
  waiter,      \* the future of each ask: "absent", "open" or its result
  decision,    \* the decision of the command that is being handled for each ask
  activeQ,     \* _active_question
  unlinking,   \* publishers inside _ble.disconnect() after a failed write
  bleUp,       \* _ble_connected
  otaClaimed,  \* _ota_session_active
  lastPayload, \* _last_payload
  outq         \* snapshot writes, in the order of the transport lock

sessionVars == <<rtState, rtPending, recState, recPrompt, fresh, catReq, reqControl>>
askVars == <<task, waiter, decision>>
linkVars == <<unlinking, bleUp, otaClaimed>>
pubVars == <<lastPayload, outq>>
agentVars == <<sessionVars, askVars, activeQ, linkVars, pubVars>>

States == {"recent", "running", "waiting", "completed"}
Stages == {"idle", "connecting", "showing", "waiting", "clearing", "done"}
Owners == Asks \cup {"background"}
Writes == [owner : Owners, payload : Payloads]

AgentTypeOK ==
  /\ rtState \in [Sessions -> States \cup {"absent"}]
  /\ rtPending \in [Sessions -> Perms \cup {None}]
  /\ recState \in [Sessions -> States \cup {"absent"}]
  /\ recPrompt \in [Sessions -> Perms \cup {None}]
  /\ fresh \in SUBSET Sessions
  /\ catReq \in SUBSET Perms
  /\ reqControl \in SUBSET Perms
  /\ task \in [Asks -> Stages]
  /\ waiter \in [Asks -> {"absent", "open", "ask"} \cup PermAnswers \cup QuestionAnswers]
  /\ decision \in [Asks -> {"ask"} \cup PermAnswers \cup QuestionAnswers]
  /\ activeQ \in Questions \cup {None}
  /\ unlinking \in SUBSET Asks
  /\ bleUp \in BOOLEAN
  /\ otaClaimed \in BOOLEAN
  /\ lastPayload \in Payloads
  /\ outq \in Seq(Writes)

NoPayload == [prompt |-> None, question |-> None]

AgentInit ==
  /\ rtState = [s \in Sessions |-> "absent"]
  /\ rtPending = [s \in Sessions |-> None]
  /\ recState = [s \in Sessions |-> "absent"]
  /\ recPrompt = [s \in Sessions |-> None]
  /\ fresh = {} /\ catReq = {} /\ reqControl = {}
  /\ task = [a \in Asks |-> "idle"]
  /\ waiter = [a \in Asks |-> "absent"]
  /\ decision = [a \in Asks |-> "ask"]
  /\ activeQ = None
  /\ unlinking = {} /\ bleUp = FALSE /\ otaClaimed = FALSE
  /\ lastPayload = NoPayload
  /\ outq = <<>>

--------------------------------------------------------------------------------
(* Snapshots                                                               *)

(* A session is listed while it runs or waits, and for a while after.      *)
Visible(s) == recState[s] \in {"running", "waiting"} \/ s \in fresh

ManagedWaiting == {s \in Sessions : recState[s] = "waiting" /\ recPrompt[s] # None}

(* The snapshot carries a prompt only when exactly one session waits; with *)
(* more it only says how many approvals to open on the host.               *)
ShownPrompt ==
  IF \E s \in Sessions : ManagedWaiting = {s}
  THEN recPrompt[CHOOSE s \in Sessions : ManagedWaiting = {s}]
  ELSE None

Payload == [prompt |-> ShownPrompt, question |-> activeQ]

(* _publish_state: "sends" says whether the payload differs from the last  *)
(* one, in the fields kept here or in those left out (messages, counters). *)
(* A publisher that sends suspends until its write ends.                   *)
QueueRoom == Cardinality({i \in DOMAIN outq : outq[i].owner = "background"}) < MaxQueue

Publish(owner, forced, sends) ==
  /\ sends => bleUp' /\ ~otaClaimed' /\ (owner = "background" => QueueRoom)
  /\ ~sends => ~bleUp' \/ otaClaimed' \/ (~forced /\ Payload' = lastPayload)
  /\ lastPayload' = IF otaClaimed' THEN lastPayload ELSE Payload'
  /\ outq' = IF sends THEN Append(outq, [owner |-> owner, payload |-> Payload']) ELSE outq

(* _snapshot forgets the runtimes of the sessions that left the catalog.   *)
KeepRuntimes(states, pending) ==
  /\ rtState' = [s \in Sessions |-> IF Visible(s)' THEN states[s] ELSE "absent"]
  /\ rtPending' = [s \in Sessions |-> IF Visible(s)' THEN pending[s] ELSE None]

--------------------------------------------------------------------------------
(* Session events                                                          *)

CurrentState(s) == IF rtState[s] = "absent" THEN "recent" ELSE rtState[s]

(* SessionCatalog.upsert: the keys left by earlier prompts of the session  *)
(* go away only when the new record has none.                              *)
UpsertAlwaysAdds(s, prompt) == catReq \cup {prompt}
UpsertForgets(s, prompt) == catReq \ PermsOf(s)
UpsertKeys(s, prompt) == IF prompt = None THEN catReq \ PermsOf(s) ELSE catReq \cup {prompt}

(* runtime.apply, to_record and catalog.upsert for an event of session s.  *)
Apply(s, state, prompt) ==
  /\ recState' = [recState EXCEPT ![s] = state]
  /\ recPrompt' = [recPrompt EXCEPT ![s] = prompt]
  /\ fresh' = fresh \cup {s}
  /\ catReq' = UpsertKeys(s, prompt)
  /\ KeepRuntimes([rtState EXCEPT ![s] = state], [rtPending EXCEPT ![s] = prompt])

(* session.status and session.idle                                         *)
Turn(s, active) ==
  /\ Apply(s, IF active THEN "running" ELSE "completed", rtPending[s])
  /\ UNCHANGED reqControl

(* message.part.updated and session.error                                  *)
Output(s) ==
  /\ Apply(s, IF CurrentState(s) \in {"running", "waiting"} THEN CurrentState(s) ELSE "recent",
           rtPending[s])
  /\ UNCHANGED reqControl

(* message.updated                                                         *)
Usage(s) == Apply(s, CurrentState(s), rtPending[s]) /\ UNCHANGED reqControl

(* permission.asked through the command, permission.updated by itself      *)
Approval(r) ==
  /\ Apply(SessionOf[r], "waiting", r)
  /\ reqControl' = reqControl \cup {r}

(* The runtime that a request still concerns.                              *)
RuntimeShows(r) == r \in reqControl /\ recPrompt[SessionOf[r]] = r
RuntimePends(r) == r \in reqControl /\ rtPending[SessionOf[r]] # None

(* _resolve_opencode_permission: the runtime first, which may write its    *)
(* record back, then the catalog's own copy of the prompt.                 *)
Resolve(r) ==
  LET s == SessionOf[r]
      hit == RuntimePends(r)
      mine == hit /\ rtPending[s] = r
      prompt == IF mine THEN None ELSE rtPending[s]
      state == IF mine THEN "running" ELSE rtState[s]
      keys == IF hit THEN UpsertKeys(s, prompt) ELSE catReq
      stateNow == IF hit THEN state ELSE recState[s]
      promptNow == IF hit THEN prompt ELSE recPrompt[s]
  IN /\ reqControl' = reqControl \ {r}
     /\ catReq' = keys \ {r}
     /\ recState' = [recState EXCEPT ![s] =
          IF r \in keys /\ stateNow = "waiting" THEN "running" ELSE stateNow]
     /\ recPrompt' = [recPrompt EXCEPT ![s] = IF r \in keys THEN None ELSE promptNow]
     /\ fresh' = IF hit THEN fresh \cup {s} ELSE fresh
     /\ IF hit
        THEN KeepRuntimes([rtState EXCEPT ![s] = state], [rtPending EXCEPT ![s] = prompt])
        ELSE KeepRuntimes(rtState, rtPending)

SessionEvent(s) ==
  /\ \/ \E active \in BOOLEAN : Turn(s, active)
     \/ Output(s)
     \/ Usage(s)
  /\ UNCHANGED <<askVars, activeQ, linkVars>>
  /\ \E sends \in BOOLEAN : Publish("background", FALSE, sends)

PermissionUpdated(r) ==
  /\ r \in Legacy
  /\ Approval(r)
  /\ UNCHANGED <<askVars, activeQ, linkVars>>
  /\ \E sends \in BOOLEAN : Publish("background", FALSE, sends)

(* permission.replied: somebody answered, here or at the terminal.         *)
PermissionReplied(r) ==
  /\ Resolve(r)
  /\ waiter' = IF waiter[r] = "open" THEN [waiter EXCEPT ![r] = "ask"] ELSE waiter
  /\ UNCHANGED <<task, decision, activeQ, linkVars>>
  /\ \E sends \in BOOLEAN : Publish("background", FALSE, sends)

(* question.replied and question.rejected end every part of the request.   *)
QuestionResolved(request) ==
  /\ waiter' = [a \in Asks |->
       IF a \in Questions /\ RequestOf[a] = request /\ waiter[a] = "open"
       THEN "ask" ELSE waiter[a]]
  /\ UNCHANGED <<recState, recPrompt, fresh, catReq, reqControl, task, decision, activeQ, linkVars>>
  /\ KeepRuntimes(rtState, rtPending)
  /\ \E sends \in BOOLEAN : Publish("background", FALSE, sends)

(* A record that neither runs nor waits leaves its visibility window.      *)
Expire(s) ==
  /\ s \in fresh
  /\ recState[s] \in {"recent", "completed"}
  /\ fresh' = fresh \ {s}
  /\ UNCHANGED <<rtState, rtPending, recState, recPrompt, catReq, reqControl,
                 askVars, activeQ, linkVars, pubVars>>

--------------------------------------------------------------------------------
(* permission_ask and question_ask                                         *)

(* A permission already known to the catalog is not announced again.  The  *)
(* future is created only once the snapshot has been written.              *)
PermBody(r) ==
  IF r \in catReq
  THEN /\ task' = [task EXCEPT ![r] = "waiting"]
       /\ waiter' = [waiter EXCEPT ![r] = "open"]
       /\ UNCHANGED <<sessionVars, activeQ, pubVars>>
  ELSE /\ Approval(r)
       /\ UNCHANGED activeQ
       /\ \E sends \in BOOLEAN :
            /\ Publish(r, FALSE, sends)
            /\ task' = [task EXCEPT ![r] = IF sends THEN "showing" ELSE "waiting"]
            /\ waiter' = IF sends THEN waiter ELSE [waiter EXCEPT ![r] = "open"]

(* A question takes the only slot and creates its future before publishing. *)
QuestionBody(q) ==
  /\ activeQ' = q
  /\ waiter' = [waiter EXCEPT ![q] = "open"]
  /\ UNCHANGED <<recState, recPrompt, fresh, catReq, reqControl>>
  /\ KeepRuntimes(rtState, rtPending)
  /\ \E sends \in BOOLEAN :
       /\ Publish(q, FALSE, sends)
       /\ task' = [task EXCEPT ![q] = IF sends THEN "showing" ELSE "waiting"]

Body(a) ==
  /\ UNCHANGED <<decision, linkVars>>
  /\ IF a \in Perms THEN PermBody(a) ELSE QuestionBody(a)

(* The command arrives; without a link the handler polls for one.          *)
AskStart(a) ==
  /\ task[a] = "idle"
  /\ IF bleUp
     THEN Body(a)
     ELSE /\ task' = [task EXCEPT ![a] = "connecting"]
          /\ UNCHANGED <<sessionVars, waiter, decision, activeQ, linkVars, pubVars>>

AskLinked(a) == task[a] = "connecting" /\ bleUp /\ Body(a)

(* opencode_connect_wait has passed without a link.                        *)
AskUnlinked(a) ==
  /\ task[a] = "connecting" /\ ~bleUp
  /\ task' = [task EXCEPT ![a] = "done"]
  /\ decision' = [decision EXCEPT ![a] = "ask"]
  /\ UNCHANGED <<sessionVars, waiter, activeQ, linkVars, pubVars>>

(* _handle_device_permission and _handle_device_question: the first answer *)
(* to an open future counts, every other one is dropped.                   *)
AcceptsAgain(a) == waiter[a] # "absent"
Accepts(a) == waiter[a] = "open"

AnswerToAnyWaiter(a, answer) ==
  /\ waiter' = [b \in Asks |-> IF Accepts(b) THEN answer ELSE waiter[b]]
  /\ UNCHANGED <<sessionVars, task, decision, activeQ, linkVars, pubVars>>

DeviceAnswer(a, answer) ==
  /\ waiter' = IF Accepts(a) THEN [waiter EXCEPT ![a] = answer] ELSE waiter
  /\ UNCHANGED <<sessionVars, task, decision, activeQ, linkVars, pubVars>>

KeepFuture(a) == waiter
DropFuture(a) == [waiter EXCEPT ![a] = "absent"]

KeepSlot(q) == activeQ
FreeSlot(q) == IF activeQ = q THEN None ELSE activeQ

(* The finally block: drop the future, take the prompt down, publish.      *)
Settle(a, d) ==
  /\ task[a] = "waiting"
  /\ decision' = [decision EXCEPT ![a] = d]
  /\ waiter' = DropFuture(a)
  /\ IF a \in Perms
     THEN Resolve(a) /\ UNCHANGED activeQ
     ELSE /\ activeQ' = FreeSlot(a)
          /\ UNCHANGED <<recState, recPrompt, fresh, catReq, reqControl>>
          /\ KeepRuntimes(rtState, rtPending)
  /\ UNCHANGED linkVars
  /\ \E sends \in BOOLEAN :
       /\ Publish(a, FALSE, sends)
       /\ task' = [task EXCEPT ![a] = IF sends THEN "clearing" ELSE "done"]

AskAnswered(a) == waiter[a] \notin {"absent", "open"} /\ Settle(a, waiter[a])

TimesOutWhenLinked(a) == waiter[a] = "open" /\ bleUp /\ Settle(a, "ask")
TimeOutApproves(a) == waiter[a] = "open" /\ Settle(a, CHOOSE x \in Answers(a) : x # "deny")
AskTimedOut(a) == waiter[a] = "open" /\ Settle(a, "ask")

(* The response is written to the command's socket; the handler is gone.   *)
AskResponded(a) ==
  /\ task[a] = "done"
  /\ task' = [task EXCEPT ![a] = "idle"]
  /\ decision' = [decision EXCEPT ![a] = "ask"]
  /\ UNCHANGED <<sessionVars, waiter, activeQ, linkVars, pubVars>>

--------------------------------------------------------------------------------
(* Snapshot writes and the BLE loop                                        *)

(* The publisher returns from _publish_state.                              *)
Publishes(owner, stage) == owner \in Asks /\ task[owner] = stage

Continue(owner) ==
  /\ UNCHANGED decision
  /\ \/ /\ Publishes(owner, "showing")
        /\ task' = [task EXCEPT ![owner] = "waiting"]
        /\ waiter' = IF owner \in Perms THEN [waiter EXCEPT ![owner] = "open"] ELSE waiter
     \/ /\ Publishes(owner, "clearing")
        /\ task' = [task EXCEPT ![owner] = "done"]
        /\ UNCHANGED waiter
     \/ /\ ~Publishes(owner, "showing") /\ ~Publishes(owner, "clearing")
        /\ UNCHANGED <<task, waiter>>

WriteDone ==
  /\ outq # <<>>
  /\ outq' = Tail(outq)
  /\ Continue(Head(outq).owner)
  /\ UNCHANGED <<sessionVars, activeQ, linkVars, lastPayload>>

WriteFailed ==
  /\ outq # <<>>
  /\ outq' = Tail(outq)
  /\ bleUp' = FALSE
  /\ unlinking' = unlinking \cup ({Head(outq).owner} \cap Asks)
  /\ UNCHANGED <<sessionVars, askVars, activeQ, otaClaimed, lastPayload>>

Unlinked(a) ==
  /\ a \in unlinking
  /\ unlinking' = unlinking \ {a}
  /\ Continue(a)
  /\ UNCHANGED <<sessionVars, activeQ, bleUp, otaClaimed, pubVars>>

(* A new link gets a snapshot even when nothing changed since the last.    *)
TrustLastPayload == FALSE
ForceOnConnect == TRUE

BleConnected ==
  /\ ~bleUp
  /\ bleUp' = TRUE
  /\ UNCHANGED <<recState, recPrompt, fresh, catReq, reqControl>>
  /\ KeepRuntimes(rtState, rtPending)
  /\ UNCHANGED <<askVars, activeQ, unlinking, otaClaimed>>
  /\ \E sends \in BOOLEAN : Publish("background", ForceOnConnect, sends)

BleLost ==
  /\ bleUp
  /\ bleUp' = FALSE
  /\ UNCHANGED <<sessionVars, askVars, activeQ, unlinking, otaClaimed, pubVars>>

Keepalive ==
  /\ UNCHANGED <<recState, recPrompt, fresh, catReq, reqControl>>
  /\ KeepRuntimes(rtState, rtPending)
  /\ UNCHANGED <<askVars, activeQ, linkVars>>
  /\ \E sends \in BOOLEAN : Publish("background", TRUE, sends)

(* _begin_ota_update refuses while a runtime has a pending prompt.         *)
OtaBegin ==
  /\ ~otaClaimed /\ bleUp
  /\ \A s \in Sessions : rtPending[s] = None
  /\ otaClaimed' = TRUE
  /\ UNCHANGED <<sessionVars, askVars, activeQ, unlinking, bleUp, pubVars>>

OtaEnd ==
  /\ otaClaimed
  /\ otaClaimed' = FALSE
  /\ UNCHANGED <<sessionVars, askVars, activeQ, unlinking, bleUp, pubVars>>

(* The process dies, or "stop" ends it, and launchd starts it again:       *)
(* nothing of the above is kept on disk.                                   *)
AgentRestart ==
  /\ rtState' = [s \in Sessions |-> "absent"]
  /\ rtPending' = [s \in Sessions |-> None]
  /\ recState' = [s \in Sessions |-> "absent"]
  /\ recPrompt' = [s \in Sessions |-> None]
  /\ fresh' = {} /\ catReq' = {} /\ reqControl' = {}
  /\ task' = [a \in Asks |-> "idle"]
  /\ waiter' = [a \in Asks |-> "absent"]
  /\ decision' = [a \in Asks |-> "ask"]
  /\ activeQ' = None
  /\ unlinking' = {} /\ bleUp' = FALSE /\ otaClaimed' = FALSE
  /\ lastPayload' = NoPayload
  /\ outq' = <<>>

--------------------------------------------------------------------------------

InScope(asks) == \E scope \in Scopes : asks \subseteq scope

AgentNext ==
  \/ \E s \in Busy : SessionEvent(s) \/ Expire(s)
  \/ \E r \in Perms : PermissionUpdated(r) \/ PermissionReplied(r)
  \/ \E q \in Questions : QuestionResolved(RequestOf[q])
  \/ \E a \in Asks :
       \/ AskStart(a) /\ InScope({a} \cup {b \in Asks : task[b] # "idle"})
       \/ AskLinked(a) \/ AskUnlinked(a)
       \/ AskAnswered(a) \/ AskTimedOut(a) \/ AskResponded(a)
       \/ Unlinked(a)
       \/ \E answer \in Answers(a) : DeviceAnswer(a, answer)
  \/ WriteDone \/ WriteFailed
  \/ BleConnected \/ BleLost \/ Keepalive
  \/ OtaBegin \/ OtaEnd

AgentSpec == AgentInit /\ [][AgentNext]_agentVars

(* What asyncio and the transport's own timeouts guarantee: writes end one *)
(* way or the other, a disconnect returns, and every timer of an ask fires *)
(* unless the ask ends first.                                              *)
AskFairness(a) ==
  /\ WF_agentVars(AskLinked(a) \/ AskUnlinked(a))
  /\ WF_agentVars(AskAnswered(a) \/ AskTimedOut(a))
  /\ WF_agentVars(Unlinked(a))
  /\ WF_agentVars(AskResponded(a))

AgentLiveSpec ==
  /\ AgentSpec
  /\ WF_agentVars(WriteDone \/ WriteFailed)
  /\ \A a \in Asks : AskFairness(a)

--------------------------------------------------------------------------------
(* An ask holds a future exactly while it can be answered: none is left    *)
(* behind by a finished ask (agent.py:759) and none is missing while the   *)
(* handler waits on it, whatever write, drop or reply came in between.     *)
WaiterOwned ==
  \A a \in Asks :
    waiter[a] # "absent" <=>
      task[a] = "waiting" \/ (a \in Questions /\ task[a] = "showing")

(* No prompt outlives its ask: whatever the runtime, the catalog and the   *)
(* two request maps still remember of a permission belongs to an ask that  *)
(* is going to take it down.  The maps are written on three paths          *)
(* (agent.py:789, catalog.py:62, catalog.py:81) and overlap when a session *)
(* has two prompts.                                                        *)
Remembered(r) ==
  \/ r \in catReq \cup reqControl
  \/ \E s \in Sessions : r \in {rtPending[s], recPrompt[s]}

Shown(a) == task[a] \in {"showing", "waiting"}

PromptHasAsk == \A r \in Perms \ Legacy : Remembered(r) => Shown(r)

(* A prompt a session shows is one of its own and can still be found: by   *)
(* the map its resolution starts from in the runtime (agent.py:789), and   *)
(* by the other in the catalog (catalog.py:62), although a session has two *)
(* prompts at times and either resolution rewrites both.                   *)
PromptsIndexed ==
  \A s \in Sessions :
    /\ rtPending[s] # None => rtPending[s] \in PermsOf(s) \cap reqControl
    /\ recPrompt[s] # None => recPrompt[s] \in PermsOf(s) \cap catReq

(* The question slot always names a question somebody still waits for      *)
(* (agent.py:869).                                                         *)
QuestionHasAsk == activeQ # None => Shown(activeQ)

(* The agent keeps the promise of the abstract specification: the first    *)
(* answer to an ask, from the device or the terminal, is the one reported, *)
(* whatever else arrives while the prompt is taken down.                   *)
Phase(a) ==
  IF task[a] = "idle" THEN "idle"
  ELSE IF task[a] \in {"clearing", "done"} THEN "settled" ELSE "pending"

Outcome(a) ==
  IF Phase(a) = "settled" THEN decision[a]
  ELSE IF waiter[a] \in {"absent", "open"} THEN None ELSE waiter[a]

Abstract == INSTANCE Approval WITH
  phase <- [a \in Asks |-> Phase(a)], answer <- [a \in Asks |-> Outcome(a)]

FirstAnswerReported == Abstract!Spec

(* Every ask is settled and its command answered: no interleaving of       *)
(* failed writes, lost links and late answers leaves a handler waiting.    *)
EveryAskEnds == \A a \in Asks : task[a] # "idle" ~> task[a] = "idle"
================================================================================
