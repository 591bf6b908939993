--------------------------------- MODULE MsfsLink ---------------------------------
(***************************************************************************)
(* MsfsLink: the thread that connects to Microsoft Flight Simulator when   *)
(* it runs, takes what it dispatches, and posts one of two buffers to the  *)
(* core in turn; and the simulator, which may be quit and started again.   *)
(***************************************************************************)
EXTENDS Integers, Sequences, FiniteSets

CONSTANTS MaxFrames,    \* bound on the frames and traffic that the simulator reports
          MaxFlights,   \* bound on the times that it is started
          MaxOther      \* SimStateData::MAX_OTHER_AIRCRAFT

ASSUME MsfsAssumption == MaxFrames \in Nat /\ MaxFlights \in Nat /\ MaxOther \in Nat \ {0}

VARIABLES
    flights,      \* how often the simulator was started
    flying,       \* it runs
    frame,        \* how many frames and traffic reports so far
    dispatched,   \* what it has dispatched and not been taken, in order
    simThread,    \* the thread: "none", "polling", "ended"
    polling,      \* MsfsSimulator::running
    hSimConnect,  \* there is a connection
    simData,      \* the two buffers
    tikTok,       \* the one to fill and post next
    posted,       \* the updates that the core has not run
    simState      \* Navitab::simState

msfsVars == <<flights, flying, frame, dispatched, simThread, polling, hSimConnect,
              simData, tikTok, posted, simState>>

(* others: nOtherPlanes, and the planes in otherPlanes that were reported. *)
NoPlanes == [mine |-> 0, n |-> 0, others |-> {}]

MsfsTyped ==
    /\ flights \in 0..MaxFlights /\ frame \in 0..MaxFrames
    /\ simThread \in {"none", "polling", "ended"}
    /\ hSimConnect \in BOOLEAN /\ flying \in BOOLEAN /\ polling \in BOOLEAN
    /\ DOMAIN simData = {0, 1} /\ tikTok \in {0, 1} /\ Len(posted) <= 2

MsfsInit ==
    /\ flights = 0 /\ flying = FALSE /\ frame = 0 /\ dispatched = <<>>
    /\ simThread = "none" /\ polling = FALSE /\ hSimConnect = FALSE
    /\ simData = [b \in {0, 1} |-> NoPlanes] /\ tikTok = 0
    /\ posted = <<>> /\ simState = NoPlanes

-----------------------------------------------------------------------------
(* The simulator, and SimConnect                                           *)

(* The connection is to the flight that runs now, or did last.             *)
Linked == hSimConnect /\ \A i \in DOMAIN dispatched : dispatched[i].id # "QUIT"

Fly ==
    /\ ~flying /\ flights < MaxFlights
    /\ flying' = TRUE /\ flights' = flights + 1
    /\ UNCHANGED <<frame, dispatched, simThread, polling, hSimConnect, simData, tikTok,
                   posted, simState>>

(* A frame, or one of the other planes in answer to a request for them;    *)
(* or the end of the flight.                                               *)
Report ==
    /\ flying /\ Linked /\ frame < MaxFrames
    /\ frame' = frame + 1
    /\ \E d \in {[id |-> "DATA", at |-> frame']}
              \cup {[id |-> "BYTYPE", entry |-> e, outof |-> o] : e, o \in 1..MaxOther} :
          /\ d.id = "BYTYPE" => d.entry <= d.outof
          /\ dispatched' = Append(dispatched, d)
    /\ UNCHANGED <<flights, flying, simThread, polling, hSimConnect, simData, tikTok,
                   posted, simState>>

Quit ==
    /\ flying /\ flying' = FALSE
    /\ dispatched' = IF Linked THEN Append(dispatched, [id |-> "QUIT"]) ELSE dispatched
    /\ UNCHANGED <<flights, frame, simThread, polling, hSimConnect, simData, tikTok,
                   posted, simState>>

-----------------------------------------------------------------------------
(* The thread                                                              *)

Larger(a, b) == IF a > b THEN a ELSE b

(* UpdateAircraftLocation, into the buffer that is posted next.            *)
UpdateAircraftLocation(b, d) ==
    CASE d.id = "DATA"   -> [b EXCEPT !.mine = d.at]
      [] d.id = "BYTYPE" -> [b EXCEPT !.n = Larger(d.outof, MaxOther),
                                      !.others = @ \cup {d.entry}]
      [] OTHER           -> b

(* A slip: the buffer that was posted last is not reset.                   *)
ResetCurrentOnly(data) == [data EXCEPT ![tikTok] = NoPlanes]

(* Both buffers are; what other planes they hold is not, but is not        *)
(* counted.                                                                *)
ResetSimAircraftData(data) ==
    [b \in {0, 1} |-> [mine |-> 0, n |-> 0, others |-> data[b].others]]

(* HandleMsfsDispatch for all that is dispatched, in order: the connection *)
(* is given up when the flight has been quit, and nothing comes after it.  *)
HandleMsfsDispatch ==
    LET after[n \in 0..Len(dispatched)] ==
            IF n = 0 THEN simData[tikTok]
            ELSE UpdateAircraftLocation(after[n - 1], dispatched[n])
        filled == [simData EXCEPT ![tikTok] = after[Len(dispatched)]]
    IN  IF \E i \in DOMAIN dispatched : dispatched[i].id = "QUIT"
        THEN [sim |-> FALSE, data |-> ResetSimAircraftData(filled)]
        ELSE [sim |-> TRUE, data |-> filled]

(* The other buffer is next.                                               *)
PostSimUpdates(data) ==
    /\ posted' = Append(posted, data[tikTok])
    /\ simData' = data /\ tikTok' = 1 - tikTok

(* A turn with a connection: what there is is taken, and posted if there   *)
(* was something.                                                          *)
RetrieveMsfsObjectData ==
    /\ hSimConnect
    /\ IF dispatched = <<>>
       THEN UNCHANGED <<hSimConnect, simData, tikTok, posted>>
       ELSE /\ hSimConnect' = HandleMsfsDispatch.sim
            /\ PostSimUpdates(HandleMsfsDispatch.data)
    /\ dispatched' = <<>>

(* A turn without one: it is tried, and what there is is posted whether a  *)
(* connection was made or not.                                             *)
TryConnectToMsfsSim ==
    /\ ~hSimConnect
    /\ hSimConnect' = flying
    /\ PostSimUpdates(simData)
    /\ UNCHANGED dispatched

(* One turn of the loop; the bound on what is posted stands for the second *)
(* that passes between two attempts, and the rate of the frames.           *)
AsyncPollSimulator ==
    /\ simThread = "polling" /\ polling /\ Len(posted) < 2
    /\ RetrieveMsfsObjectData \/ TryConnectToMsfsSim
    /\ UNCHANGED <<flights, flying, frame, simThread, polling, simState>>

PollingEnds ==
    /\ simThread = "polling" /\ ~polling
    /\ simThread' = "ended"
    /\ UNCHANGED <<flights, flying, frame, dispatched, polling, hSimConnect, simData,
                   tikTok, posted, simState>>

(* onSimFlightLoop, on the core's thread: it is ignored unless activated.  *)
onSimFlightLoop(activated) ==
    /\ posted # <<>> /\ posted' = Tail(posted)
    /\ simState' = IF activated THEN Head(posted) ELSE simState
    /\ UNCHANGED <<flights, flying, frame, dispatched, simThread, polling, hSimConnect,
                   simData, tikTok>>

-----------------------------------------------------------------------------
(* The core, on main's thread                                              *)

ConnectSim ==
    /\ simThread' = "polling" /\ polling' = TRUE
    /\ UNCHANGED <<flights, flying, frame, dispatched, hSimConnect, simData, tikTok,
                   posted, simState>>

(* Disconnect: the flag, and then the join.                                *)
StopPolling == polling' = FALSE /\ UNCHANGED <<flights, flying, frame, dispatched, simThread,
                                     hSimConnect, simData, tikTok, posted, simState>>

(* The process ends, and the connection with it.                           *)
MsfsGone ==
    /\ simThread' = "none" /\ polling' = FALSE /\ hSimConnect' = FALSE
    /\ simData' = [b \in {0, 1} |-> NoPlanes] /\ tikTok' = 0
    /\ posted' = <<>> /\ simState' = NoPlanes /\ dispatched' = <<>>
    /\ UNCHANGED <<flights, flying, frame>>

SimNext == Fly \/ Report \/ Quit

LinkNext == AsyncPollSimulator \/ PollingEnds
=============================================================================
