------------------------------- MODULE HtmlServer -------------------------------
(***************************************************************************)
(* HtmlServer: one thread that accepts the connections of browser panels,  *)
(* feeds what they deliver to a parser each, answers requests and passes   *)
(* events on to the parts of WindowHTTP.  TCP delivers what a client sends *)
(* in pieces that may end anywhere.                                        *)
(***************************************************************************)
EXTENDS HttpReq, Subsequence

CONSTANTS Conns,        \* the sockets, numbered
          Requests,     \* [url, keep]: what a panel may ask, on a kept connection or not
          MaxRequests,  \* bound on the requests sent
          MaxPieces     \* bound on the pieces a request is cut into

(* What a panel asks for has an address, and no white space in it.         *)
ASSUME ServerAssumption ==
    /\ Conns \subseteq Nat /\ MaxRequests \in Nat /\ MaxPieces \in Nat \ {0}
    /\ \A r \in Requests : /\ r.keep \in BOOLEAN /\ IsSeq(r.url) /\ r.url # <<>>
                           /\ Elements(r.url) \cap White = {}

VARIABLES
    server,     \* the server thread: "none", "running", "ended", "stuck" in a
                \* piece, "failed" with select, or "threw" and ended the process
    keepGoing,  \* HtmlServer::serverKeepAlive
    sock,       \* of each connection: "none", "pending", "open", "hungup"
    req,        \* the parsers, HtmlServer::panelSockets
    stream,     \* what the client has sent and TCP has not delivered
    pieces,     \* in how many more pieces it may arrive
    buf,        \* what has been delivered and not been received
    asked,      \* the request that the client waits to have answered
    answer,     \* the last answer of the server
    posted,     \* the events of the last request that were passed on
    requests    \* how many requests so far

connections == <<sock, req, stream, pieces, buf, asked>>
serverVars  == <<server, keepGoing, connections, answer, posted, requests>>

NoRequest == [url |-> <<>>, keep |-> FALSE]
NoAnswer  == [status |-> 0, asked |-> NoRequest, url |-> <<>>, keep |-> FALSE]
NoEvents  == <<>>

ServerTyped ==
    /\ server \in {"none", "running", "ended", "stuck", "failed", "threw"}
    /\ keepGoing \in BOOLEAN
    /\ sock \in [Conns -> {"none", "pending", "open", "hungup"}]
    /\ pieces \in [Conns -> 0..MaxPieces]
    /\ asked \in [Conns -> Requests \cup {NoRequest}]
    /\ answer.status \in {0, 200, 404}

(* A request as a browser sends it, with a Connection header if it wants   *)
(* the connection to be kept.                                              *)
Text(r) == <<"GET", SP>> \o r.url \o <<SP, "HTTP/1.1", CR, LF, "Host:", CR, LF>>
             \o (IF r.keep THEN <<"keep-alive", CR, LF>> ELSE <<>>)
             \o <<CR, LF>>

ServerInit ==
    /\ server = "none" /\ keepGoing = FALSE
    /\ sock = [c \in Conns |-> "none"] /\ req = [c \in Conns |-> NewReq]
    /\ stream = [c \in Conns |-> <<>>] /\ buf = [c \in Conns |-> <<>>]
    /\ pieces = [c \in Conns |-> 0] /\ asked = [c \in Conns |-> NoRequest]
    /\ answer = NoAnswer /\ posted = NoEvents /\ requests = 0

-----------------------------------------------------------------------------
(* The clients, and TCP                                                    *)

Connect(c) ==
    /\ server \in {"running", "stuck"}
    /\ sock[c] = "none"
    /\ sock' = [sock EXCEPT ![c] = "pending"]
    /\ UNCHANGED <<server, keepGoing, req, stream, pieces, buf, asked, answer, posted,
                   requests>>

Send(c) ==
    /\ sock[c] \in {"pending", "open"} /\ asked[c] = NoRequest
    /\ requests < MaxRequests /\ requests' = requests + 1
    /\ \E r \in Requests :
          /\ asked' = [asked EXCEPT ![c] = r]
          /\ stream' = [stream EXCEPT ![c] = Text(r)]
    /\ pieces' = [pieces EXCEPT ![c] = MaxPieces]
    /\ UNCHANGED <<server, keepGoing, sock, req, buf, answer, posted>>

Deliver(c) ==
    /\ stream[c] # <<>> /\ sock[c] \in {"pending", "open"}
    /\ \E n \in IF pieces[c] = 1 THEN {Len(stream[c])} ELSE 1..Len(stream[c]) :
          /\ buf' = [buf EXCEPT ![c] = @ \o SubSeq(stream[c], 1, n)]
          /\ stream' = [stream EXCEPT ![c] = Drop(@, n)]
          /\ pieces' = [pieces EXCEPT ![c] = IF n = Len(stream[c]) THEN 0 ELSE @ - 1]
    /\ UNCHANGED <<server, keepGoing, sock, req, asked, answer, posted, requests>>

(* The client gives up: the server finds the end of the stream.            *)
HangUp(c) ==
    /\ sock[c] = "open"
    /\ sock' = [sock EXCEPT ![c] = "hungup"]
    /\ stream' = [stream EXCEPT ![c] = <<>>]
    /\ asked' = [asked EXCEPT ![c] = NoRequest]
    /\ pieces' = [pieces EXCEPT ![c] = 0]
    /\ UNCHANGED <<server, keepGoing, req, buf, answer, posted, requests>>

-----------------------------------------------------------------------------
(* The server thread                                                       *)

(* A value that std::stoi accepts: it starts with a number.  A symbol of   *)
(* Digits stands for a run of them that fits an int.                       *)
Digits == {"0", "1", "2", "3", "4", "5", "6", "7", "8", "9"}

IsNumber(v) == \/ v # <<>> /\ v[1] \in Digits
               \/ Len(v) > 1 /\ v[1] \in {"+", "-"} /\ v[2] \in Digits

(* An event with the values that are read for it, if the address has all   *)
(* of them.                                                                *)
Event(r, kind, asks, reads) ==
    IF \E name \in asks \cup Elements(reads) : ~hasQuery(r, name) THEN <<>>
    ELSE << [kind |-> kind,
             values |-> [i \in DOMAIN reads |-> queryStrings(r.url)[<<reads[i]>>]]] >>

(* The events that one request reports, in the order in which              *)
(* processRequest passes them on: a wheel turned both ways is turned up,   *)
(* and a mode comes before a tool.                                         *)
Events(r) ==
    IF r.url[1] # "/e" THEN NoEvents
    ELSE Event(r, "mouse", {}, <<"x", "y", "b">>)
         \o (IF hasQuery(r, "wu") THEN Event(r, "wheelUp", {}, <<"x", "y">>)
             ELSE Event(r, "wheelDown", {"wd"}, <<"x", "y">>))
         \o Event(r, "resize", {}, <<"w", "h">>)
         \o (IF hasQuery(r, "m") THEN Event(r, "mode", {}, <<"m">>)
             ELSE Event(r, "tool", {}, <<"t">>))

Readable(event) == \A v \in Elements(event.values) : IsNumber(v)

(* Nothing catches what std::stoi throws.                                  *)
Throws(r) == ~hasError(r) /\ \E e \in Elements(Events(r)) : ~Readable(e)

(* The events that are passed on: those before the first that cannot be    *)
(* read.                                                                   *)
PassedOn(r) ==
    IF hasError(r) THEN NoEvents
    ELSE LET all == Events(r)
         IN  SubSeq(all, 1, CHOOSE n \in 0..Len(all) :
                               /\ \A i \in 1..n : Readable(all[i])
                               /\ n < Len(all) => ~Readable(all[n + 1]))

(* processRequest: what is answered to the client that asked a.            *)
processRequest(r, a) ==
    [status |-> IF hasError(r) \/ r.url[1] \notin {"/e", "/p", "/i", "/s"} THEN 404 ELSE 200,
     asked |-> a, url |-> r.url, keep |-> ~hasError(r) /\ keepAlive(r)]

(* A slip: the parser of a connection that is kept is used again.          *)
NextReqReused(fed) == fed

(* A connection that is kept gets a new parser.                            *)
NextReq(fed) == NewReq

(* One recv from connection c: the end of the stream, or a piece: one that *)
(* the parser never leaves, one that does not end the request, or one that *)
(* does, which is answered.                                                *)
HangUpSeen(c) ==
    /\ sock' = [sock EXCEPT ![c] = "none"]
    /\ req' = [req EXCEPT ![c] = NewReq]
    /\ UNCHANGED <<server, buf, stream, asked, answer, posted>>

Stuck(fed) ==
    /\ Endless(fed) /\ server' = "stuck"
    /\ UNCHANGED <<sock, req, buf, stream, asked, answer, posted>>

More(c, fed) ==
    /\ ~Endless(fed) /\ ~Ended(fed)
    /\ req' = [req EXCEPT ![c] = fed]
    /\ buf' = [buf EXCEPT ![c] = <<>>]
    /\ UNCHANGED <<server, sock, stream, asked, answer, posted>>

(* The request reports an event with a value that is no number: the        *)
(* process ends.                                                           *)
Thrown(fed) ==
    /\ Ended(fed) /\ Throws(fed) /\ server' = "threw"
    /\ posted' = PassedOn(fed)
    /\ UNCHANGED <<sock, req, buf, stream, asked, answer>>

Answer(c, fed) ==
    /\ Ended(fed) /\ ~Throws(fed)
    /\ answer' = processRequest(fed, asked[c])
    /\ posted' = PassedOn(fed)
    /\ req' = [req EXCEPT ![c] = NextReq([fed EXCEPT !.in = <<>>])]
    /\ buf' = [buf EXCEPT ![c] = <<>>]
    /\ asked' = [asked EXCEPT ![c] = NoRequest]
    /\ IF answer'.keep THEN UNCHANGED <<sock, stream>>
       ELSE /\ sock' = [sock EXCEPT ![c] = "none"]
            /\ stream' = [stream EXCEPT ![c] = <<>>]
    /\ UNCHANGED server

Receive(c) ==
    IF buf[c] = <<>> THEN HangUpSeen(c)
    ELSE \E fed \in {feedData(req[c], buf[c])} :
            Stuck(fed) \/ More(c, fed) \/ Thrown(fed) \/ Answer(c, fed)

(* A connection is accepted, with a parser of its own.                     *)
Accept(c) ==
    /\ sock[c] = "pending"
    /\ sock' = [sock EXCEPT ![c] = "open"]
    /\ req' = [req EXCEPT ![c] = NewReq]
    /\ UNCHANGED <<server, buf, stream, asked, answer, posted>>

Ready(c) == sock[c] \in {"open", "hungup"} /\ (buf[c] # <<>> \/ sock[c] = "hungup")

(* serverLoop: a turn serves what select reports, which is one connection  *)
(* after the other here.  Between two of them the flag may be cleared, and *)
(* the rest of the turn goes on.                                           *)
Serve(c) ==
    /\ server = "running"
    /\ Accept(c) \/ (Ready(c) /\ Receive(c))
    /\ UNCHANGED <<keepGoing, pieces, requests>>

serverLoop == \E c \in Conns : Serve(c)

serverEnds ==
    /\ server = "running" /\ ~keepGoing
    /\ server' = "ended"
    /\ UNCHANGED <<keepGoing, connections, answer, posted, requests>>

(* select reports an error: the thread ends by itself.  The connections    *)
(* stay open and nobody serves them.                                       *)
serverFails ==
    /\ server = "running"
    /\ server' = "failed"
    /\ UNCHANGED <<keepGoing, connections, answer, posted, requests>>

ClientNext == \E c \in Conns : Connect(c) \/ Send(c) \/ Deliver(c) \/ HangUp(c)

ServerNext == serverLoop \/ serverEnds \/ serverFails
=============================================================================
