-------------------------------- MODULE PanelLink --------------------------------
(***************************************************************************)
(* PanelLink: the panel in a browser or in the simulator, which looks for  *)
(* a panel server on a range of ports, polls the one it has found, and     *)
(* looks again when that one has died; and the servers, which start on one *)
(* of the ports, die and start again.  An answer may take its time and be  *)
(* overtaken by others.                                                    *)
(***************************************************************************)
EXTENDS Integers, FiniteSets, Sequences

CONSTANTS NumPorts,   \* how many ports a server may get, the base port being 1
          MaxStarts,  \* bound on the times that a server starts
          MaxChanges, \* bound on the times that the core changes its tools
          FailedLimit,\* how many images that fail in a row say that the server is gone
          MaxInFlight \* bound on the requests that are not answered, when another is made

ASSUME LinkAssumption == NumPorts \in Nat \ {0} /\ MaxStarts \in Nat /\ MaxChanges \in Nat
                         /\ FailedLimit \in Nat \ {0} /\ MaxInFlight \in Nat \ {0}

Ports == 1..NumPorts

VARIABLES
    up,             \* the port of the server, 0 while none runs
    tools,          \* its WindowHTTP::activeTools
    starts, changes,\* how often so far
    requests,       \* what the panel has asked and not been answered, but for the image
    image,          \* the image that is loading, or NoImage
    connected,      \* NavitabElement.connected
    shown,          \* the tools that the panel shows
    portNum,        \* NavitabProtocol: the server's port, 0 for none
    failedLoads,    \*   images that failed since one was loaded
    imageLoading, statusLoading,
    codedStatus,    \*   the last status; <<>> for the empty string
    portNumber,     \* PortFinder: the port that answered, 0 for none
    nextPort        \*   the port to ping next

serverVars   == <<up, tools, starts, changes>>
protocolVars == <<portNum, failedLoads, imageLoading, statusLoading, codedStatus>>
finderVars   == <<portNumber, nextPort>>
vars == <<serverVars, requests, image, connected, shown, protocolVars, finderVars>>

Masks   == {0, 1}    \* no tools, some tools
NoImage == [port |-> 0, state |-> "none"]
Nothing == 0

(* A status: the time and the position, and the tools.  The one that the   *)
(* panel starts with has the time and position only.                       *)
Statuses == {<<"now", t>> : t \in Masks}
Texts    == Statuses \cup {<<"now">>, <<>>}

Request(kind, port, state, text) ==
    [kind |-> kind, port |-> port, state |-> state, text |-> text]

AllRequests ==
    {Request("ping", p, s, <<>>) : p \in Ports, s \in {"sent", "ok", "failed"}}
        \cup {Request("status", p, "sent", <<>>) : p \in Ports}
        \cup {Request("status", p, "failed", <<>>) : p \in Ports}
        \cup {Request("status", p, "ok", t) : p \in Ports, t \in Statuses}

TypeOK ==
    /\ up \in Ports \cup {0} /\ tools \in Masks
    /\ starts \in 0..MaxStarts /\ changes \in 0..MaxChanges
    /\ requests \subseteq AllRequests
    /\ image \in {NoImage} \cup [port : Ports, state : {"sent", "ok", "failed"}]
    /\ connected \in BOOLEAN /\ shown \in Masks
    /\ portNum \in Ports \cup {0} /\ failedLoads \in 0..FailedLimit
    /\ imageLoading \in BOOLEAN /\ statusLoading \in BOOLEAN
    /\ codedStatus \in Texts
    /\ portNumber \in Ports \cup {0} /\ nextPort \in Ports

Init ==
    /\ up = 0 /\ tools = 0 /\ starts = 0 /\ changes = 0
    /\ requests = {} /\ image = NoImage
    /\ connected = TRUE /\ shown = Nothing
    /\ portNum = 0 /\ failedLoads = 0 /\ imageLoading = FALSE /\ statusLoading = FALSE
    /\ codedStatus = <<"now">>
    /\ portNumber = 0 /\ nextPort = 1

-----------------------------------------------------------------------------
(* The servers                                                             *)

(* A server gets the first port that is free when it starts.               *)
Start ==
    /\ up = 0 /\ starts < MaxStarts /\ starts' = starts + 1
    /\ up' \in Ports /\ tools' = 0
    /\ UNCHANGED <<changes, requests, image, connected, shown, protocolVars, finderVars>>

Lost(request) == IF request.state = "sent" THEN [request EXCEPT !.state = "failed"] ELSE request

(* It dies: what it has not answered fails.                                *)
Die ==
    /\ up # 0 /\ up' = 0
    /\ requests' = {IF r.port = up THEN Lost(r) ELSE r : r \in requests}
    /\ image' = IF image.port = up THEN Lost(image) ELSE image
    /\ UNCHANGED <<tools, starts, changes, connected, shown, protocolVars,
                   finderVars>>

SetActiveTools ==
    /\ up # 0
    /\ changes < MaxChanges /\ changes' = changes + 1
    /\ tools' = 1 - tools
    /\ UNCHANGED <<up, starts, requests, image, connected, shown, protocolVars, finderVars>>

EncodeStatus == <<"now", tools>>

(* An answer is made, or the connection is refused.                        *)
Served(r) ==
    IF r.port # up THEN Lost(r)
    ELSE [r EXCEPT !.state = "ok", !.text = IF r.kind = "status" THEN EncodeStatus ELSE @]

Serve(r) ==
    /\ r \in requests /\ r.state = "sent"
    /\ requests' = (requests \ {r}) \cup {Served(r)}
    /\ UNCHANGED <<serverVars, image, connected, shown, protocolVars, finderVars>>

EncodeBMP ==
    /\ image.state = "sent"
    /\ image' = IF image.port = up THEN [image EXCEPT !.state = "ok"] ELSE Lost(image)
    /\ UNCHANGED <<serverVars, requests, connected, shown, protocolVars, finderVars>>

-----------------------------------------------------------------------------
(* The panel's link, NavitabProtocol                                       *)

setPort(p) ==
    /\ portNum' = p /\ failedLoads' = 0
    /\ imageLoading' = FALSE /\ statusLoading' = FALSE

isConnected == portNum # 0 /\ failedLoads < FailedLimit

(* sendMessage, of whatever event: it may be the first to find that the    *)
(* server is gone.                                                         *)
sendMessage ==
    /\ portNum # 0 /\ ~isConnected
    /\ setPort(0)
    /\ UNCHANGED <<serverVars, requests, image, connected, shown, codedStatus, finderVars>>

(* The listeners for an image that is loaded or fails.                     *)
onLoad ==
    /\ image.state = "ok"
    /\ failedLoads' = 0 /\ imageLoading' = FALSE
    /\ image' = NoImage
    /\ UNCHANGED <<serverVars, requests, connected, shown, portNum, statusLoading,
                   codedStatus, finderVars>>

onError ==
    /\ image.state = "failed"
    /\ failedLoads' = IF failedLoads < FailedLimit THEN failedLoads + 1 ELSE FailedLimit
    /\ imageLoading' = FALSE
    /\ image' = NoImage
    /\ UNCHANGED <<serverVars, requests, connected, shown, portNum, statusLoading,
                   codedStatus, finderVars>>

(* The status has come: the text of a request that failed is empty, and    *)
(* its status 0 is let through.                                            *)
onStatus(r) ==
    /\ r \in requests /\ r.kind = "status" /\ r.state # "sent"
    /\ requests' = requests \ {r}
    /\ codedStatus' = r.text /\ statusLoading' = FALSE
    /\ UNCHANGED <<serverVars, image, connected, shown, portNum, failedLoads,
                   imageLoading, finderVars>>

-----------------------------------------------------------------------------
(* The search for a server, PortFinder                                     *)

(* A ping is answered: the port is taken from the answer's address, which  *)
(* a ping that failed has none of.                                         *)
onPing(r) ==
    /\ r \in requests /\ r.kind = "ping" /\ r.state # "sent"
    /\ requests' = requests \ {r}
    /\ portNumber' = IF r.state = "ok" THEN r.port ELSE portNumber
    /\ UNCHANGED <<serverVars, image, connected, shown, protocolVars, nextPort>>

(* A slip: the port that was found before is kept.                         *)
LinkDownKeeping == nextPort' = 1 /\ UNCHANGED portNumber

linkDown == portNumber' = 0 /\ nextPort' = 1

(* A ping every 250 ms, to one port after the other.                       *)
getPortNumber ==
    /\ requests' = requests \cup {Request("ping", nextPort, "sent", <<>>)}
    /\ nextPort' = IF nextPort + 1 \in Ports THEN nextPort + 1 ELSE 1
    /\ UNCHANGED portNumber

-----------------------------------------------------------------------------
(* The panel, NavitabElement                                               *)

lostServer == connected' = FALSE /\ linkDown /\ shown' = Nothing

(* The next image and the next status are asked for once the last have     *)
(* come.  A new image takes the place of one that is loading.              *)
pollServer ==
    /\ imageLoading' = TRUE
    /\ image' = IF imageLoading THEN image ELSE [port |-> portNum, state |-> "sent"]
    /\ statusLoading' = TRUE
    /\ requests' = IF statusLoading THEN requests
                   ELSE requests \cup {Request("status", portNum, "sent", <<>>)}
    /\ UNCHANGED <<portNum, failedLoads, codedStatus>>

flightLoop ==
    IF ~isConnected
    THEN /\ IF portNum = 0 THEN UNCHANGED protocolVars
            ELSE setPort(0) /\ UNCHANGED codedStatus
         /\ lostServer
         /\ UNCHANGED <<requests, image>>
    ELSE /\ pollServer
         /\ IF codedStatus = <<>> THEN lostServer
            ELSE /\ shown' = IF Len(codedStatus) = 1 THEN shown
                             ELSE codedStatus[2]
                 /\ UNCHANGED <<connected, finderVars>>

(* due: it is time for a ping.                                             *)
findServer(due) ==
    IF portNumber # 0
    THEN /\ connected' = TRUE /\ setPort(portNumber)
         /\ UNCHANGED <<requests, image, shown, codedStatus, finderVars>>
    ELSE /\ due /\ getPortNumber
         /\ UNCHANGED <<image, connected, shown, protocolVars>>

updateLoop(due) ==
    /\ Cardinality(requests) <= MaxInFlight
    /\ IF connected THEN flightLoop ELSE findServer(due)
    /\ UNCHANGED serverVars

-----------------------------------------------------------------------------
Next ==
    \/ Start \/ Die \/ SetActiveTools \/ EncodeBMP
    \/ \E r \in requests : Serve(r) \/ onStatus(r) \/ onPing(r)
    \/ sendMessage \/ onLoad \/ onError
    \/ updateLoop(TRUE)

(* A browser draws frames, and with time a ping is due; a server answers   *)
(* and a connection that nobody takes is refused; the answer comes.  A     *)
(* server need not start or die.                                           *)
Fairness ==
    /\ WF_vars(updateLoop(TRUE))
    /\ WF_vars(EncodeBMP) /\ WF_vars(onLoad) /\ WF_vars(onError)
    /\ \A r \in AllRequests : WF_vars(Serve(r)) /\ WF_vars(onStatus(r) \/ onPing(r))

Spec == Init /\ [][Next]_vars /\ Fairness

-----------------------------------------------------------------------------
(* A server that goes on running is found, whatever ran before on which    *)
(* port and whatever answers are late, and its tools are what the panel    *)
(* shows from then on, once they no longer change.                         *)
PanelFindsServer ==
    \A p \in Ports : <>[](up = p) => <>[](connected /\ portNum = p /\ shown = tools)

(* When no server runs any more the panel says so, for good.               *)
PanelNoticesLoss == <>[](up = 0) => <>[](~connected /\ shown = Nothing)

(* The two together: the panel follows the server, up and down.            *)
PanelFollowsServer == PanelFindsServer /\ PanelNoticesLoss
=============================================================================
