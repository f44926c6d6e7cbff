---------------------------- MODULE HttpContext ----------------------------
(***************************************************************************)
(* The resumable request parser of src/http/http.hpp (HttpContext) reading *)
(* one connection's input Buffer.                                          *)
(*                                                                         *)
(* What the client has to say, `wire`, is fixed at the start: requests cut *)
(* into pieces, a piece being what cannot be told apart further: a part of *)
(* a request line, of its header, its blank line, or a byte of its body.   *)
(* The last piece of a line holds the LF. The Buffer is the stretch of the *)
(* wire between `read` and `arrived`. A request's header is one line with  *)
(* its Content-Length and Connection fields; without it both default.      *)
(***************************************************************************)
EXTENDS Naturals, FiniteSetsExt, SequencesExt

CONSTANTS
    Kind,           \* the requests clients send
    MaxRequests,    \* bound: requests on the wire
    MaxLine         \* MAX_LINE, in pieces

\* line, head: pieces of the request line and the header line (0: none).
\* proper, field: ParseLine and ParseHead accept them. length: the declared
\* Content-Length. body: the bytes that follow the blank line. keep: the
\* Connection field says keep-alive. route, says: where HttpServer routes it,
\* and the Connection field the handler there puts in the response.
ASSUME HttpContextAssumption ==
    /\ Kind \subseteq [line : Nat \ {0}, proper : BOOLEAN, head : Nat,
                       field : BOOLEAN, length : Nat, body : Nat, keep : BOOLEAN,
                       route : {"handler", "silent", "file", "none"},
                       says : {"nothing", "keep-alive", "close"}]
    /\ \A k \in Kind : k.head = 0 => k.length = 0 /\ ~k.keep
    /\ MaxRequests \in Nat \ {0}
    /\ MaxLine \in Nat \ {0}

VARIABLES
    reqs,       \* the client's requests
    wire,       \* their pieces, in order
    arrived,    \* how many pieces were put in the Buffer (its write offset)
    read,       \* how many of them were taken out (its read offset)
    recv_stat,  \* _recv_stat
    resp_code,  \* _resp_code
    req,        \* _req: whose request line and header it has, and its body
    pc          \* "recv" inside RecvHttpRequest, "done" when it returned

ctxVars == <<recv_stat, resp_code, req>>
wireVars == <<reqs, wire>>

Pieces(i, k) ==
    LET Part(name, n, line) ==
            [j \in 1..n |-> [req |-> i, part |-> name, first |-> j = 1,
                             lf |-> line /\ j = n]]
    IN  Part("line", k.line, TRUE) \o Part("head", k.head, TRUE)
            \o Part("blank", 1, TRUE) \o Part("body", k.body, FALSE)

WireOf(s) == FlattenSeq([i \in DOMAIN s |-> Pieces(i, s[i])])

Fresh == [line |-> 0, head |-> 0, body |-> <<>>]

ContextInit ==
    /\ reqs \in BoundedSeq(Kind, MaxRequests) \ {<<>>}
    /\ wire = WireOf(reqs)
    /\ arrived = 0 /\ read = 0
    /\ recv_stat = "LINE" /\ resp_code = 200 /\ req = Fresh

ReadableSize == arrived - read

\* Where the first complete line in the Buffer ends, 0 without one.
LineEnd == SelectInSubSeq(wire, read + 1, arrived, LAMBDA p : p.lf)

Accept(stat, r) ==
    /\ recv_stat' = stat /\ req' = r
    /\ UNCHANGED <<resp_code, pc>>

\* What a rejected line leaves behind in _req, which is not modelled, shows only
\* in the version and the Connection field that WriteResponse takes from it for
\* the error answer (http.hpp:592); the connection is shut down whatever it says.
Fail(code) ==
    /\ recv_stat' = "ERROR" /\ resp_code' = code
    /\ pc' = "done"
    /\ UNCHANGED req

\* A complete line in RecvLine: ParseLine takes nothing but a request line.
ParseLine(p) ==
    IF p.part = "line" /\ p.first /\ reqs[p.req].proper
      THEN Accept("HEAD", [req EXCEPT !.line = p.req])
      ELSE Fail(400)

\* A complete line in RecvHead: a blank one ends its loop.
ParseHead(p) ==
    CASE p.part = "blank" -> Accept("BODY", req)
      [] p.part # "blank" /\ reqs[p.req].field ->
           Accept("HEAD", [req EXCEPT !.head = p.req])
      [] OTHER -> Fail(400)

\* RecvLine, or one turn of RecvHead's loop: GetLineAndMove, the length checks,
\* and the parser of the stage for a complete line, given its first piece.
RecvLine ==
    LET e == LineEnd
        size == IF e = 0 THEN ReadableSize ELSE e - read
        first == wire[read + 1]
    IN  /\ read' = IF e = 0 THEN read ELSE e
        /\ CASE size > MaxLine -> Fail(414)
             [] size <= MaxLine /\ e = 0 -> pc' = "done" /\ UNCHANGED ctxVars
             [] size <= MaxLine /\ e # 0 /\ recv_stat = "LINE" -> ParseLine(first)
             [] OTHER -> ParseHead(first)
        /\ UNCHANGED <<wireVars, arrived>>

ContentLength == IF req.head = 0 THEN 0 ELSE reqs[req.head].length

MutantMissing_All == ContentLength

\* What the body lacks, `realsize`.
Missing == ContentLength - Len(req.body)

MutantBodyOver_WaitsForMore == Missing = 0 \/ ReadableSize > Missing

BodyOver == ReadableSize >= Missing

\* Takes what is missing of the body, or all there is.
RecvBody ==
    /\ LET n == Min({Missing, ReadableSize})
       IN  /\ req' = [req EXCEPT !.body = @ \o [j \in 1..n |-> read + j]]
           /\ read' = read + n
    /\ recv_stat' = IF BodyOver THEN "OVER" ELSE "BODY"
    /\ pc' = "done"
    /\ UNCHANGED <<wireVars, arrived, resp_code>>

\* The switch falls through from each stage to the next, which returns at once
\* unless the one before it ended in the next one's status.
RecvHttpRequest ==
    /\ pc = "recv"
    /\ CASE recv_stat \in {"LINE", "HEAD"} -> RecvLine
         [] recv_stat = "BODY" -> RecvBody
         [] OTHER -> pc' = "done" /\ UNCHANGED <<wireVars, arrived, read, ctxVars>>

MutantReset_KeepsHeaders ==
    /\ recv_stat' = "LINE" /\ resp_code' = 200
    /\ req' = [Fresh EXCEPT !.head = req.head]

\* HttpContext::Reset, HttpRequest::Reset.
Reset ==
    /\ recv_stat' = "LINE" /\ resp_code' = 200 /\ req' = Fresh
=============================================================================
