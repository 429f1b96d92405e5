------------------------------ MODULE BuddyPlugin -------------------------------
(***************************************************************************)
(* The OpenCode plugin (opencode-buddy.js) and what it sees of OpenCode:   *)
(* the requests OpenCode raises, the two queues the plugin drains one at a *)
(* time, the socket request in flight in each, and the replies it makes.   *)
(***************************************************************************)
EXTENDS BuddyBase

CONSTANT PartsOf  \* the device ids of each question request, in order

Requests == DOMAIN PartsOf

ASSUME PluginAssumption ==
  /\ None \notin Requests /\ Requests \cap Perms = {}
  /\ \A q \in Questions : RequestOf[q] \in Requests
  /\ \A request \in Requests :
       /\ PartsOf[request] \in Seq(Questions) /\ PartsOf[request] # <<>>
       /\ \A i \in DOMAIN PartsOf[request] : RequestOf[PartsOf[request][i]] = request

VARIABLES
  oc,          \* each request in OpenCode: "none", "asked", "terminal" or the
               \* reply the plugin made
  permQueue,   \* permissionQueue
  permBusy,    \* the permission whose request is in flight
  questQueue,  \* questionQueue
  questBusy,   \* the question request being asked part by part
  partBusy,    \* the part whose socket request is in flight
  part,        \* collected.length: the parts already answered
  notices      \* replied and rejected events on their way to the agent

permVars == <<permQueue, permBusy>>
questVars == <<questQueue, questBusy, partBusy, part>>
pluginVars == <<oc, permVars, questVars, notices>>

Raised == Perms \cup Requests

PluginTypeOK ==
  /\ oc \in [Raised -> {"none", "asked", "terminal", "once", "always", "reply", "reject"}]
  /\ permQueue \in Seq(Perms) /\ permBusy \in Perms \cup {None}
  /\ questQueue \in Seq(Requests) /\ questBusy \in Requests \cup {None}
  /\ partBusy \in Questions \cup {None}
  /\ part \in Nat
  /\ notices \in SUBSET Raised

PluginInit ==
  /\ oc = [r \in Raised |-> "none"]
  /\ permQueue = <<>> /\ permBusy = None
  /\ questQueue = <<>> /\ questBusy = None /\ partBusy = None /\ part = 0
  /\ notices = {}

--------------------------------------------------------------------------------
(* permission.asked and question.asked                                     *)
PermAsked(r) ==
  /\ oc[r] = "none"
  /\ oc' = [oc EXCEPT ![r] = "asked"]
  /\ permQueue' = Append(permQueue, r)
  /\ UNCHANGED <<permBusy, questVars, notices>>

QuestionAsked(request) ==
  /\ oc[request] = "none"
  /\ oc' = [oc EXCEPT ![request] = "asked"]
  /\ questQueue' = Append(questQueue, request)
  /\ UNCHANGED <<permVars, questBusy, partBusy, part, notices>>

(* A reply reaches OpenCode while the request is still open there; the     *)
(* plugin tries several methods and gives up when all of them fail.        *)
ReplyOpenCode(r, reply) ==
  \/ /\ oc[r] = "asked"
     /\ oc' = [oc EXCEPT ![r] = reply]
     /\ notices' = notices \cup {r}
  \/ UNCHANGED <<oc, notices>>

TerminalAnswers(r) ==
  /\ oc[r] = "asked"
  /\ oc' = [oc EXCEPT ![r] = "terminal"]
  /\ notices' = notices \cup {r}
  /\ UNCHANGED <<permVars, questVars>>

(* The event reaches the agent, or its two seconds pass.                   *)
Notice(r) ==
  /\ r \in notices
  /\ notices' = notices \ {r}
  /\ UNCHANGED <<oc, permVars, questVars>>

--------------------------------------------------------------------------------
(* drainPermissions                                                        *)
PermRequest(r) ==
  /\ permBusy = None
  /\ permQueue # <<>> /\ Head(permQueue) = r
  /\ permBusy' = r
  /\ permQueue' = Tail(permQueue)
  /\ UNCHANGED <<oc, questVars, notices>>

(* decisionToReply: OpenCode's word for each decision.                     *)
ReplyUnconverted(decision) == decision
DecisionToReply(decision) == IF decision = "deny" THEN "reject" ELSE decision

PermResponse(r, decision) ==
  /\ permBusy = r
  /\ permBusy' = None
  /\ IF decision = "ask" THEN UNCHANGED <<oc, notices>> ELSE ReplyOpenCode(r, DecisionToReply(decision))
  /\ UNCHANGED <<permQueue, questVars>>

--------------------------------------------------------------------------------
(* drainQuestions: the parts of a request one after the other; the first   *)
(* that is not answered ends it.                                           *)
PartRequest(q) ==
  LET request == RequestOf[q] IN
  /\ partBusy = None
  /\ \/ questBusy = request /\ UNCHANGED questQueue
     \/ /\ questBusy = None
        /\ questQueue # <<>> /\ Head(questQueue) = request
        /\ questQueue' = Tail(questQueue)
  /\ part < Len(PartsOf[request]) /\ PartsOf[request][part + 1] = q
  /\ questBusy' = request
  /\ partBusy' = q
  /\ UNCHANGED <<oc, permVars, part, notices>>

QuestionOver == questBusy' = None /\ part' = 0

NextToLastPart(request) == part + 2 >= Len(PartsOf[request])
LastPart(request) == part + 1 = Len(PartsOf[request])

PartResponse(q, decision) ==
  LET request == RequestOf[q]
      last == LastPart(request)
  IN
  /\ partBusy = q
  /\ partBusy' = None
  /\ UNCHANGED <<permVars, questQueue>>
  /\ \/ decision = "ask" /\ QuestionOver /\ UNCHANGED <<oc, notices>>
     \/ decision = "reject" /\ QuestionOver /\ ReplyOpenCode(request, "reject")
     \/ decision \in Offered /\ last /\ QuestionOver /\ ReplyOpenCode(request, "reply")
     \/ /\ decision \in Offered /\ ~last
        /\ part' = part + 1
        /\ UNCHANGED <<oc, questBusy, notices>>

(* The plugin's requests of an ask, whichever queue it is in.              *)
Request(a) == IF a \in Perms THEN PermRequest(a) ELSE PartRequest(a)
Response(a, decision) == IF a \in Perms THEN PermResponse(a, decision) ELSE PartResponse(a, decision)
InFlight(a) == permBusy = a \/ partBusy = a

(* 65 seconds, a refused connection or a socket closed by the agent.       *)
NoResponse(a) == InFlight(a) /\ Response(a, "ask")
================================================================================
