----------------------------- MODULE WifiPortal -----------------------------
(***************************************************************************)
(* The HTTP side of the setup portal (wifi_portal_http_logic.h and         *)
(* pollPortalHttp): one client at a time, read a few bytes a poll by a     *)
(* parser with a limit on everything, closed when it stalls or is slow.    *)
(* What a line says is chosen when it ends; a form is the sequence of its  *)
(* fields.                                                                 *)
(***************************************************************************)
EXTENDS Naturals, Sequences

CONSTANTS
  PollBytes,       \* WIFI_HTTP_POLL_BYTE_CAP
  MaxRequestLine, MaxHeaderLine, MaxHeaderBytes, MaxHeaders, MaxBody,
  IdleTimeout, TotalTimeout,   \* in ticks, each of which sees a poll
  MaxFields        \* fields of a form

\* The parser has one buffer for both kinds of line.
ASSUMPTION PortalAssumption ==
  /\ {PollBytes, MaxRequestLine, MaxHeaderLine, MaxHeaderBytes, MaxHeaders, MaxBody,
      IdleTimeout, TotalTimeout, MaxFields} \subseteq Nat
  /\ MaxRequestLine <= MaxHeaderLine

VARIABLES
  client,    \* whether a client is connected
  parser,    \* WifiHttpParser
  said,      \* history: what the header lines of the request said
  left,      \* bytes this poll may still read
  idle, age, \* ticks since the last byte, since the client came
  polled,    \* the main loop polled since the last tick
  answer,    \* status of the last answer
  posted     \* the form the last answer was about

portalVars == <<client, parser, said, left, idle, age, polled, answer, posted>>

FreshParser ==
  [phase |-> "requestLine", method |-> "none", save |-> FALSE, line |-> 0, bytes |-> 0,
   headers |-> 0, length |-> 0, body |-> 0, form |-> FALSE, encoding |-> FALSE, status |-> 0]

Rejected(p, status) == [p EXCEPT !.phase = "rejected", !.status = status]
Done(p) == p.phase \in {"complete", "rejected"}

(***************************************************************************)
(* The lines.                                                              *)
(***************************************************************************)

RequestLines == {"get", "postSave", "postOther", "malformed"}
HeaderLines ==
  {"badLength", "formType", "otherType", "encoding", "other", "noColon"} \X {0}
    \cup {"length"} \X (0..(MaxBody + 1))

(* wifiHttpParseRequestLine *)
RequestLine(p, line) ==
  IF p.line = 0 \/ line = "malformed" THEN Rejected(p, 400)
  ELSE [p EXCEPT !.phase = "headers",
                 !.method = IF line = "get" THEN "get" ELSE "post",
                 !.save = (line = "postSave")]

(* wifiHttpParseHeaderLine; a length that is said again replaces the first. *)
HeaderLine(p, line) ==
  LET q == [p EXCEPT !.headers = @ + 1]
  IN  CASE q.headers > MaxHeaders \/ line[1] \in {"badLength", "noColon"} -> Rejected(q, 400)
        [] q.headers <= MaxHeaders /\ line[1] = "length" -> [q EXCEPT !.length = line[2]]
        [] q.headers <= MaxHeaders /\ line[1] = "formType" -> [q EXCEPT !.form = TRUE]
        [] q.headers <= MaxHeaders /\ line[1] = "otherType" -> Rejected([q EXCEPT !.form = FALSE], 400)
        [] q.headers <= MaxHeaders /\ line[1] = "encoding" -> Rejected([q EXCEPT !.encoding = TRUE], 400)
        [] OTHER -> q

(* wifiHttpFinishHeaders *)
FinishHeaders(p) ==
  IF p.method = "get" THEN [p EXCEPT !.phase = "complete"]
  ELSE IF ~p.save THEN Rejected(p, 405)
  ELSE IF p.encoding \/ ~p.form THEN Rejected(p, 415)
  ELSE IF p.length > MaxBody THEN Rejected(p, 413)
  ELSE IF p.length = 0 THEN Rejected(p, 400)
  ELSE [p EXCEPT !.phase = "body"]

(***************************************************************************)
(* wifiHttpParserFeed, one byte: of the body, or of a line.                *)
(***************************************************************************)

BodyByte(p) ==
  LET q == [p EXCEPT !.body = @ + 1]
  IN  IF p.body >= MaxBody THEN Rejected(p, 413)
      ELSE IF q.body = q.length THEN [q EXCEPT !.phase = "complete"] ELSE q

LineMax(p) == IF p.phase = "requestLine" THEN MaxRequestLine ELSE MaxHeaderLine
Counted(p) == [p EXCEPT !.bytes = @ + 1]
TooMany(p) == p.bytes >= MaxHeaderBytes

LineByte(p) ==
  IF TooMany(p) \/ p.line >= LineMax(p) THEN Rejected(Counted(p), 431)
  ELSE [Counted(p) EXCEPT !.line = @ + 1]

CarriageReturn(p) == IF TooMany(p) THEN Rejected(Counted(p), 431) ELSE Counted(p)

(* wifiHttpConsumeLine *)
NewLine(p, consume) ==
  IF TooMany(p) THEN Rejected(Counted(p), 431) ELSE [consume EXCEPT !.line = 0]

(***************************************************************************)
(* wifiHttpDecodeForm: every field in order; the first that is unknown,    *)
(* repeated or undecodable ends it.                                        *)
(***************************************************************************)

FieldNames == {"nonce", "ssid", "password"}

(* At most one value of a form is spoiled. *)
Forms ==
  UNION {{[i \in 1..n |-> [name |-> names[i], value |-> IF i = at THEN v ELSE "usable"]] :
            names \in [1..n -> FieldNames \cup {"unknown"}],
            at \in 0..n, v \in {"unusable", "undecodable"}} : n \in 0..MaxFields}

\* For comparison: a field that is said again replaces the first.
TakeFieldAgain(seen, f) ==
  IF "refused" \notin seen /\ f.name \in FieldNames /\ f.value # "undecodable"
  THEN seen \cup {f.name} ELSE {"refused"}

TakeField(seen, f) ==
  IF "refused" \notin seen /\ f.name \in FieldNames \ seen /\ f.value # "undecodable"
  THEN seen \cup {f.name} ELSE {"refused"}

DecodesForm(fields) ==
  LET seen[n \in 0..Len(fields)] ==
        IF n = 0 THEN {} ELSE TakeField(seen[n - 1], fields[n])
  IN  seen[Len(fields)] = FieldNames

(* handlePortalComplete also wants the nonce of the moment, and an SSID and *)
(* a password that a network can have.                                      *)
FormValid(fields) ==
  DecodesForm(fields) /\ \A i \in DOMAIN fields : fields[i].value = "usable"

(***************************************************************************)
(* pollPortalHttp, a byte a step.                                          *)
(***************************************************************************)

CloseClient ==
  /\ client' = FALSE /\ parser' = FreshParser /\ said' = {}
  /\ left' = PollBytes /\ idle' = 0 /\ age' = 0 /\ polled' = TRUE

(* A client that is not on the hotspot is turned away. *)
Accept(onHotspot) ==
  /\ ~client
  /\ client' = onHotspot
  /\ answer' = (IF onHotspot THEN 0 ELSE 403) /\ posted' = <<>>
  /\ UNCHANGED <<parser, said, left, idle, age, polled>>

Read(p) ==
  /\ client /\ left > 0 /\ ~Done(parser)
  /\ parser' = p
  /\ left' = left - 1 /\ idle' = 0
  /\ UNCHANGED <<client, age, polled, answer, posted>>

ReadBody == parser.phase = "body" /\ Read(BodyByte(parser)) /\ UNCHANGED said
ReadLineByte ==
  /\ parser.phase # "body" /\ UNCHANGED said
  /\ Read(LineByte(parser)) \/ Read(CarriageReturn(parser))
ReadRequestLine ==
  /\ parser.phase = "requestLine" /\ UNCHANGED said
  /\ \E line \in RequestLines : Read(NewLine(parser, RequestLine(Counted(parser), line)))
ReadHeaderLine ==
  /\ parser.phase = "headers" /\ parser.line > 0
  /\ \E line \in HeaderLines :
        Read(NewLine(parser, HeaderLine(Counted(parser), line))) /\ said' = said \cup {line}
ReadEmptyLine ==
  /\ parser.phase = "headers" /\ parser.line = 0 /\ UNCHANGED said
  /\ Read(NewLine(parser, FinishHeaders(Counted(parser))))

(* wifiHttpParserTimedOut *)
TimedOut == idle > IdleTimeout \/ age > TotalTimeout

(* The end of a poll: answer and close, or wait for the next poll. *)
AnswerRequest ==
  /\ client /\ parser.phase = "complete"
  /\ \/ parser.method = "get" /\ answer' = 200 /\ UNCHANGED posted
     \/ /\ parser.method = "post" /\ posted' \in Forms
        /\ answer' = IF FormValid(posted') THEN 202 ELSE 400
  /\ CloseClient

AnswerRejected ==
  /\ client /\ (parser.phase = "rejected" \/ (~Done(parser) /\ TimedOut))
  /\ answer' = IF Done(parser) THEN parser.status ELSE 408
  /\ UNCHANGED posted
  /\ CloseClient

EndPoll ==
  /\ ~polled \/ left = 0
  /\ client => ~Done(parser) /\ ~TimedOut
  /\ left' = PollBytes /\ polled' = TRUE
  /\ UNCHANGED <<client, parser, said, idle, age, answer, posted>>

HangUp == client /\ CloseClient /\ UNCHANGED <<answer, posted>>

(* The main loop polls more often than the timeouts' unit. *)
PortalTick ==
  /\ polled /\ polled' = FALSE
  /\ idle' = IF client /\ idle <= IdleTimeout THEN idle + 1 ELSE idle
  /\ age' = IF client /\ age <= TotalTimeout + 1 THEN age + 1 ELSE age
  /\ UNCHANGED <<client, parser, said, left, answer, posted>>

PortalInit ==
  /\ client = FALSE /\ parser = FreshParser /\ said = {}
  /\ left = PollBytes /\ idle = 0 /\ age = 0 /\ polled = TRUE /\ answer = 0
  /\ posted = <<>>

PortalNext ==
  \/ Accept(TRUE) \/ Accept(FALSE)
  \/ ReadBody \/ ReadLineByte \/ ReadRequestLine \/ ReadHeaderLine \/ ReadEmptyLine
  \/ AnswerRequest \/ AnswerRejected \/ EndPoll \/ HangUp \/ PortalTick

PortalFairness ==
  /\ WF_portalVars(AnswerRequest \/ AnswerRejected \/ EndPoll)
  /\ WF_portalVars(PortalTick)

PortalSpec == PortalInit /\ [][PortalNext]_portalVars /\ PortalFairness

(* What a request made the device read stays in its buffers, and a request *)
(* that is complete is a GET, or a POST to /save whose headers said one    *)
(* thing each: the form type, no encoding, and last a length that is the   *)
(* body's (wifiHttpParserFeed, wifiHttpFinishHeaders).                     *)
RequestsJudged ==
  /\ parser.line <= MaxHeaderLine /\ parser.body <= MaxBody
  /\ parser.phase = "body" => parser.body < parser.length
  /\ parser.phase = "complete" /\ parser.method = "post" =>
        /\ parser.save /\ <<"formType", 0>> \in said
        /\ said \cap ({"badLength", "otherType", "encoding", "noColon"} \X {0}) = {}
        /\ <<"length", parser.body>> \in said /\ parser.body > 0

(* A form is accepted whatever the order of its fields, if and only if it  *)
(* has each of the three once, with a usable value, and nothing else       *)
(* (wifiHttpDecodeForm).                                                   *)
FormsJudged ==
  posted # <<>> =>
     (answer = 202 <=>
        /\ Len(posted) = 3
        /\ {posted[i].name : i \in DOMAIN posted} = FieldNames
        /\ \A i \in DOMAIN posted : posted[i].value = "usable")

(* One client holds the portal, which serves one at a time, no longer than *)
(* the timeout and the poll that sees it, however it drips its bytes.      *)
HeldBriefly == client => age <= TotalTimeout + 1

(* Whoever posts what, byte by byte: it is judged, and in time.            *)
PortalJudges == RequestsJudged /\ FormsJudged /\ HeldBriefly

(* A client never keeps the portal: it is answered or gone.                *)
ClientLeaves == client ~> ~client
=============================================================================
