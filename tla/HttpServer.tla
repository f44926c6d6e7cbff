----------------------------- MODULE HttpServer -----------------------------
(***************************************************************************)
(* HttpServer::OnMessage of src/http/http.hpp on one connection: it feeds  *)
(* the parser of HttpContext.tla, routes and answers each request, and     *)
(* shuts the connection down when a request or an error asks for it.       *)
(*                                                                         *)
(* Everything runs on the connection's loop. ShutDown is called inside     *)
(* OnMessage and, while input is left, calls OnMessage again before it     *)
(* returns; `depth` counts the calls. Of the connection only what matters  *)
(* to its answers is kept: Connection.tla has the rest, and sending a part *)
(* of the output. A Release is carried out when the handler that called it *)
(* ends, as RunAllTasks follows. Of a response is kept what the client     *)
(* goes by: its code, what it answers, and how it says where it ends.      *)
(***************************************************************************)
EXTENDS HttpContext

VARIABLES
    stat,       \* the Connection's _stat
    out,        \* _out_buffer is not empty
    depth,      \* how many calls of OnMessage are active
    after,      \* what the Connection does when the outermost one returns
    answered    \* history: the responses

connVars == <<stat, out, depth, after, answered>>
vars == <<wireVars, arrived, read, ctxVars, pc, connVars>>

Init ==
    /\ ContextInit
    /\ pc = "idle"
    /\ stat = "CONNECTED" /\ out = FALSE
    /\ depth = 0 /\ after = "nothing"
    /\ answered = <<>>

-----------------------------------------------------------------------------
(***************************************************************************)
(* The Connection's handlers.                                              *)
(***************************************************************************)
\* What follows the message callback in the handler that called it, when the
\* status is s by then.
Finish(then, s) ==
    /\ pc' = "idle"
    /\ depth' = 0
    /\ stat' = IF then = "release" \/ (then = "shutdown" /\ ~out') THEN "DISCONNECTED"
                                                                 ELSE s

\* Calls the message callback if there is input, then does `then`.
MsgCb(then) ==
    /\ after' = then
    /\ LET s == IF then = "shutdown" THEN "DISCONNECTING" ELSE stat
       IN  IF arrived' > read THEN pc' = "loop" /\ depth' = 1 /\ stat' = s
                              ELSE Finish(then, s)

\* Nothing comes from the peer after an error of recv.
HandleRead ==
    /\ pc = "idle" /\ stat # "DISCONNECTED"
    /\ after = "nothing"
    /\ arrived' \in arrived + 1..Len(wire)
    /\ UNCHANGED <<read, wireVars, ctxVars, out, answered>>
    /\ MsgCb("nothing")

\* The peer closed (HandleClose) or recv failed (ShutDownInLoop).
HandleEnd(then) ==
    /\ pc = "idle" /\ stat # "DISCONNECTED"
    /\ then = "shutdown" => after = "nothing"
    /\ UNCHANGED <<arrived, read, wireVars, ctxVars, out, answered>>
    /\ MsgCb(then)

\* The rest of the output leaves.
HandleWrite ==
    /\ pc = "idle" /\ stat # "DISCONNECTED" /\ out
    /\ out' = FALSE
    /\ stat' = IF stat = "DISCONNECTING" THEN "DISCONNECTED" ELSE stat
    /\ UNCHANGED <<wireVars, arrived, read, ctxVars, pc, depth, after, answered>>

-----------------------------------------------------------------------------
(***************************************************************************)
(* OnMessage. OnConnected has set the context before the first message     *)
(* comes, so its branch without one (http.hpp:580-585) is left out.        *)
(***************************************************************************)
\* An inner call returns into the ShutDown that made it, and so into the loop
\* of the outer one.
Return(s) ==
    IF depth = 1
      THEN Finish(after, s)
      ELSE depth' = depth - 1 /\ pc' = "loop" /\ stat' = s

Loop ==
    /\ pc = "loop"
    /\ UNCHANGED <<wireVars, arrived, read, ctxVars, out, after, answered>>
    /\ IF ReadableSize = 0
         THEN Return(stat)
         ELSE pc' = "recv" /\ UNCHANGED <<depth, stat>>

Parse ==
    /\ RecvHttpRequest
    /\ UNCHANGED connVars

\* HttpRequest::IsClose.
IsClose == req.head = 0 \/ ~reqs[req.head].keep

\* Route's outcomes for a good request: the code and whether there is a body.
\* FileHandler's file may be gone since IsFileHandler saw it; Dispatcher leaves
\* the body to the handler, and has none for a path without one.
Route ==
    CASE reqs[req.line].route = "file" -> [code : {200}, full : BOOLEAN]
      [] reqs[req.line].route = "none" -> {[code |-> 404, full |-> FALSE]}
      [] reqs[req.line].route = "handler" -> {[code |-> 200, full |-> TRUE]}
      [] OTHER -> {[code |-> 200, full |-> FALSE]}

\* ErrorHandler's page.
ErrorPage == [code |-> resp_code, full |-> TRUE]

\* WriteResponse of resp when its Connection field says `says` by then:
\* SetHeader keeps a field that is there.
WriteResponse(resp, says) ==
    /\ answered' = Append(answered,
          [code |-> resp.code, sized |-> resp.full, req |-> req.line, body |-> req.body,
           close |-> says = "close" \/ (says = "nothing" /\ IsClose)])
    /\ out' = TRUE

MutantFailureStat_StaysOpen == stat

FailureStat == "DISCONNECTING"

\* parse failure: answer, drop the input, shut down.
OnFailure ==
    /\ pc = "done"
    /\ resp_code >= 400
    /\ WriteResponse(ErrorPage, "nothing")
    /\ Reset
    /\ read' = arrived
    /\ Return(FailureStat)
    /\ UNCHANGED <<wireVars, arrived, after>>

MutantAwaitInput_Spins == pc' = "loop" /\ UNCHANGED <<depth, stat>>

AwaitInput == Return(stat)

OnIncomplete ==
    /\ pc = "done"
    /\ resp_code < 400 /\ recv_stat # "OVER"
    /\ UNCHANGED <<wireVars, arrived, read, ctxVars, out, after, answered>>
    /\ AwaitInput

MutantShutDownIf_Returns(close) ==
    Return(IF close THEN "DISCONNECTING" ELSE stat)

\* Back to the loop, by way of ShutDown if the response says so, which calls
\* OnMessage again for what is left.
ShutDownIf(close) ==
    /\ stat' = IF close THEN "DISCONNECTING" ELSE stat
    /\ depth' = IF close /\ ReadableSize > 0 THEN depth + 1 ELSE depth
    /\ pc' = "loop"

\* A whole request. HttpResponse::IsClose reads what was written.
OnRequest ==
    /\ pc = "done"
    /\ resp_code < 400 /\ recv_stat = "OVER"
    /\ \E resp \in Route : WriteResponse(resp, reqs[req.line].says)
    /\ Reset
    /\ ShutDownIf(Last(answered').close)
    /\ UNCHANGED <<wireVars, arrived, read, after>>

OnMessage == Loop \/ Parse \/ OnFailure \/ OnIncomplete \/ OnRequest

\* The inactivity timer: Release.
Ontime ==
    /\ pc = "idle" /\ stat # "DISCONNECTED"
    /\ stat' = "DISCONNECTED"
    /\ UNCHANGED <<wireVars, arrived, read, ctxVars, pc, out, depth, after, answered>>

Next ==
    \/ HandleRead
    \/ \E then \in {"release", "shutdown"} : HandleEnd(then)
    \/ HandleWrite
    \/ Ontime
    \/ OnMessage

Spec == Init /\ [][Next]_vars

\* The loop's thread runs on and the peer reads; it need not send, nor the
\* timer go off.
FairSpec == Spec /\ WF_vars(OnMessage) /\ WF_vars(HandleWrite)

-----------------------------------------------------------------------------
TypeOK ==
    /\ arrived \in 0..Len(wire) /\ read \in 0..arrived
    /\ recv_stat \in {"LINE", "HEAD", "BODY", "OVER", "ERROR"}
    /\ resp_code \in {200, 400, 414}
    /\ req.line \in 0..Len(reqs) /\ req.head \in {0, req.line}
    /\ pc \in {"idle", "loop", "recv", "done"}
    /\ stat \in {"CONNECTED", "DISCONNECTING", "DISCONNECTED"}
    /\ out \in BOOLEAN
    /\ after \in {"nothing", "release", "shutdown"}
    /\ depth \in Nat /\ (depth = 0 <=> pc = "idle")

\* Where the header of request i ends: its blank line.
Blank(i) == CHOOSE p \in DOMAIN wire : wire[p].req = i /\ wire[p].part = "blank"

\* The code request i deserves by itself.
Verdict(i) ==
    LET k == reqs[i]
    IN  CASE k.line > MaxLine -> 414
          [] k.line <= MaxLine /\ ~k.proper -> 400
          [] k.line <= MaxLine /\ k.proper /\ k.head > MaxLine -> 414
          [] k.line <= MaxLine /\ k.proper /\ k.head \in 1..MaxLine /\ ~k.field -> 400
          [] OTHER -> IF k.route = "none" THEN 404 ELSE 200

Failures == {400, 414}

\* The requests before the i-th are such that the i-th starts where they end.
Framed(i) ==
    \A j \in 1..i - 1 : Verdict(j) \notin Failures /\ reqs[j].length = reqs[j].body

(***************************************************************************)
(* However the input was cut, the k-th response is the one to the k-th     *)
(* request: to its own line and the Content-Length bytes after its header, *)
(* or the failure it deserves. It can no longer be said after the first    *)
(* request that fails or declares another length than it sends.            *)
(***************************************************************************)
AnswersMatch ==
    \A k \in DOMAIN answered : Framed(k) =>
        LET a == answered[k]
        IN  /\ k \in DOMAIN reqs
            /\ a.code = Verdict(k)
            /\ a.code \notin Failures =>
                  /\ a.req = k
                  /\ a.body = [j \in 1..reqs[k].length |-> Blank(k) + j]

(***************************************************************************)
(* A request is answered by the handler that brought its last byte: no cut *)
(* leaves a complete one waiting in the Buffer for more input.             *)
(***************************************************************************)
AnsweredOnArrival ==
    pc = "idle" =>
        \A k \in DOMAIN reqs :
            Framed(k) /\ arrived >= Blank(k) + reqs[k].length => Len(answered) >= k

(***************************************************************************)
(* Between handlers the Buffer holds nothing the parser could use, so that *)
(* HandleClose and ShutDownInLoop may call OnMessage again for nothing.    *)
(***************************************************************************)
ParserWaits ==
    pc = "idle" =>
        \/ recv_stat \in {"LINE", "HEAD"} /\ LineEnd = 0 /\ ReadableSize <= MaxLine
        \/ recv_stat = "BODY" /\ ReadableSize = 0 /\ Len(req.body) < ContentLength

(***************************************************************************)
(* OnMessage returns, also when nested calls leave input to the outer one. *)
(***************************************************************************)
OnMessageReturns ==
    pc # "idle" ~> pc = "idle"

(***************************************************************************)
(* After a response that announced the end or reported a request that      *)
(* cannot be parsed the connection is closed.                              *)
(***************************************************************************)
CloseIsHonoured ==
    (\E a \in Range(answered) : a.close \/ a.code \in Failures)
        ~> stat = "DISCONNECTED"

(***************************************************************************)
(* The client of an HTTP/1.1 server (README.md:3) can tell where each      *)
(* response ends: it has a Content-Length or ends with the connection.     *)
(***************************************************************************)
ResponsesDelimited ==
    \A a \in Range(answered) : a.sized \/ a.close
=============================================================================
