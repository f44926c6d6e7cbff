---------------------------- MODULE MCHttpServer ----------------------------
(***************************************************************************)
(* HttpServer with lines of at most two pieces and one request of each     *)
(* kind that OnMessage tells apart.                                        *)
(***************************************************************************)
EXTENDS HttpServer

\* A GET of a file that keeps the connection, one that does not, one that does
\* because its handler says so, and a POST to nobody.
Get == [line |-> 2, proper |-> TRUE, head |-> 2, field |-> TRUE, length |-> 0,
        body |-> 0, keep |-> TRUE, route |-> "file", says |-> "nothing"]
GetClose == [Get EXCEPT !.line = 1, !.head = 0, !.keep = FALSE, !.route = "handler"]
GetKept == [GetClose EXCEPT !.says = "keep-alive"]
Post == [Get EXCEPT !.line = 1, !.head = 1, !.length = 2, !.body = 2, !.route = "none"]

\* Lines that are wrong or too long, and a body shorter than declared, for a
\* handler that ends the connection.
BadLine == [Get EXCEPT !.proper = FALSE]
BadHead == [Get EXCEPT !.field = FALSE]
LongLine == [Get EXCEPT !.line = 3]
LongHead == [Get EXCEPT !.head = 3]
ShortBody == [Post EXCEPT !.body = 1, !.route = "silent", !.says = "close"]

MCKind == {Get, GetClose, GetKept, Post, BadLine, BadHead, LongLine, LongHead, ShortBody}

\* What PutFile of src/http/main.cc gets: an upload, answered without a body.
Put == [Post EXCEPT !.route = "silent"]

MCUpload == {Put}
=============================================================================
