------------------------------ MODULE PanelServer ------------------------------
(***************************************************************************)
(* PanelServer: the program with the browser window, from its start to its *)
(* end: the main function, the event loop of WindowHTTP, the thread that   *)
(* reads commands, and the server of HtmlServer, which posts what panels   *)
(* do to the parts of the core that the window holds.                      *)
(***************************************************************************)
EXTENDS HtmlServer

CONSTANTS Ports,        \* the ports that are tried, in order
          Taken,        \* the sets of ports that other programs may have
          MaxSignals    \* bound on the times that the console is closed

ASSUME PortsAssumption == /\ Ports \subseteq Nat /\ IsFiniteSet(Ports)
                          /\ \A t \in Taken : t \subseteq Ports
                          /\ MaxSignals \in Nat

VARIABLES
    pc,        \* where main is, "Faulted" once the process has crashed in Stop
    taken,     \* the ports that other programs have
    port,      \* the port that the server listens on, 0 for none
    running,   \* WindowHTTP::running
    jobs,      \* how many times Finish is in WindowHTTP::jobs
    command,   \* the command thread: "none", "reading", "ended"
    clients,   \* the window holds the core and its parts
    saved,     \* the settings have been saved
    signals    \* how many times the console was closed

mainVars == <<pc, taken, port, running, jobs, command, clients, saved, signals>>
vars     == <<serverVars, mainVars>>

Script == <<"Window", "Connect", "Activate", "EventLoop", "Deactivate", "Disconnect",
            "Release", "Stop", "Docs", "Settings", "Worker", "Reset", "Done">>

Past(place) == \E i, j \in DOMAIN Script : Script[i] = pc /\ Script[j] = place /\ i > j

TypeOK ==
    /\ ServerTyped /\ pc \in {Script[i] : i \in DOMAIN Script} \cup {"Faulted"}
    /\ taken \in Taken /\ port \in Ports \cup {0}
    /\ running \in BOOLEAN /\ jobs \in 0..MaxSignals + 1
    /\ command \in {"none", "reading", "ended"}
    /\ clients \in BOOLEAN /\ saved \in BOOLEAN /\ signals \in 0..MaxSignals

Init ==
    /\ ServerInit
    /\ pc = "Window" /\ taken \in Taken /\ port = 0
    /\ running = TRUE /\ jobs = 0 /\ command = "none"
    /\ clients = FALSE /\ saved = FALSE /\ signals = 0

-----------------------------------------------------------------------------
(* The main thread                                                         *)

(* The window is made, and with it the thread that reads commands.         *)
MakeWindow ==
    /\ pc = "Window" /\ pc' = "Connect"
    /\ command' = "reading"
    /\ UNCHANGED <<serverVars, taken, port, running, jobs, clients, saved, signals>>

(* HtmlServer::start: whatever ran before is stopped, and the server       *)
(* thread runs if the port is free.                                        *)
start(p) == /\ server' = "running" /\ keepGoing' = TRUE /\ port' = p

(* WindowHTTP::Connect: the parts first, then the first port that is free; *)
(* with none the program goes on without a server.                         *)
ConnectWindow ==
    LET free == Ports \ taken
    IN  /\ pc = "Connect" /\ pc' = "Activate"
        /\ clients' = TRUE
        /\ IF free = {} THEN UNCHANGED <<server, keepGoing, port>>
           ELSE start(CHOOSE p \in free : \A q \in free : p <= q)
        /\ UNCHANGED <<connections, answer, posted, requests, taken, running, jobs,
                       command, saved, signals>>

Activate ==
    /\ pc = "Activate" /\ pc' = "EventLoop"
    /\ UNCHANGED <<serverVars, taken, port, running, jobs, command, clients, saved, signals>>

(* A slip: the flag is tested before the jobs only.                        *)
OnFinishKept == UNCHANGED running

onFinish == running' = FALSE

(* One turn of EventLoop: the only jobs are those that Finish posts.       *)
EventLoop ==
    /\ pc = "EventLoop"
    /\ \/ ~running /\ pc' = "Deactivate" /\ UNCHANGED <<running, jobs>>
       \/ running /\ jobs > 0 /\ jobs' = jobs - 1 /\ onFinish /\ UNCHANGED pc
    /\ UNCHANGED <<serverVars, taken, port, command, clients, saved, signals>>

Deactivate ==
    /\ pc = "Deactivate" /\ pc' = "Disconnect"
    /\ keepGoing' = FALSE     \* the first thing that Disconnect does
    /\ UNCHANGED <<server, connections, answer, posted, requests, taken, port, running,
                   jobs, command, clients, saved, signals>>

(* A slip: the parts are let go without waiting for the server thread.     *)
ServerJoinedHastily == TRUE

(* The join in HtmlServer::stop.                                           *)
ServerJoined == server \in {"none", "ended", "failed"}

(* Disconnect: the sockets are closed and then the parts are let go.       *)
Disconnect ==
    /\ pc = "Disconnect" /\ ServerJoined
    /\ pc' = "Release"
    /\ sock' = [c \in Conns |-> "none"] /\ stream' = [c \in Conns |-> <<>>]
    /\ buf' = [c \in Conns |-> <<>>] /\ asked' = [c \in Conns |-> NoRequest]
    /\ req' = [c \in Conns |-> NewReq] /\ pieces' = [c \in Conns |-> 0]
    /\ clients' = FALSE
    /\ UNCHANGED <<server, keepGoing, answer, posted, requests, taken, port, running, jobs,
                   command, saved, signals>>

(* win.reset: the core still holds the window, as its window control.      *)
Release ==
    /\ pc = "Release" /\ pc' = "Stop"
    /\ UNCHANGED <<serverVars, taken, port, running, jobs, command, clients, saved, signals>>

(* nvt->Stop: the parts of the core go one after the other, then the       *)
(* document manager, which waits for the download thread; it may wait for  *)
(* ever (DocManager).                                                      *)
Stop ==
    /\ pc = "Stop" /\ pc' = "Docs"
    /\ UNCHANGED <<serverVars, taken, port, running, jobs, command, clients, saved, signals>>

DocsStopped ==
    /\ pc = "Docs" /\ pc' = "Settings"
    /\ UNCHANGED <<serverVars, taken, port, running, jobs, command, clients, saved, signals>>

(* settings.reset saves them.                                              *)
SettingsSaved ==
    /\ pc = "Settings" /\ pc' = "Worker"
    /\ saved' = TRUE
    /\ UNCHANGED <<serverVars, taken, port, running, jobs, command, clients, signals>>

WorkerJoined ==
    /\ pc = "Worker" /\ pc' = "Reset"
    /\ UNCHANGED <<serverVars, taken, port, running, jobs, command, clients, saved, signals>>

(* Until it is joined the worker may run a job for a part that has gone    *)
(* (NavitabCore).                                                          *)
WorkerFaults ==
    /\ pc \in {"Docs", "Settings", "Worker"} /\ pc' = "Faulted"
    /\ UNCHANGED <<serverVars, taken, port, running, jobs, command, clients, saved, signals>>

(* nvt.reset: the core goes and the window with it, which waits for the    *)
(* command thread.                                                         *)
Reset ==
    /\ pc = "Reset" /\ command = "ended"
    /\ pc' = "Done"
    /\ UNCHANGED <<serverVars, taken, port, running, jobs, command, clients, saved, signals>>

(* What main does of itself, and what is left to other threads.            *)
MainGoesOn == \/ MakeWindow \/ ConnectWindow \/ Activate \/ EventLoop \/ Deactivate
              \/ Disconnect \/ Release \/ Stop \/ SettingsSaved \/ WorkerJoined \/ Reset

Main == MainGoesOn \/ DocsStopped \/ WorkerFaults

-----------------------------------------------------------------------------
(* The command thread, and the console                                     *)

Finish == jobs' = jobs + 1

(* CommandRunner: quit, exit or the end of the input.                      *)
CommandRunner ==
    /\ command = "reading"
    /\ command' = "ended" /\ Finish
    /\ UNCHANGED <<serverVars, pc, taken, port, running, clients, saved, signals>>

(* The console is closed, on Windows: main's reference to the window is    *)
(* empty before the window is made and once it has been reset.             *)
SigStop ==
    /\ pc # "Done" /\ signals < MaxSignals
    /\ signals' = signals + 1
    /\ IF Past("Connect") /\ ~Past("Release") THEN Finish ELSE UNCHANGED jobs
    /\ UNCHANGED <<serverVars, pc, taken, port, running, command, clients, saved>>

-----------------------------------------------------------------------------
Alive == server # "threw" /\ pc # "Faulted"

Done == (pc = "Done" \/ ~Alive) /\ UNCHANGED vars

Next ==
    \/ Alive /\ \/ Main
                \/ CommandRunner \/ SigStop
                \/ (ClientNext \/ ServerNext) /\ UNCHANGED mainVars
    \/ Done

(* Threads run when they can and TCP delivers; a client may always give    *)
(* up, a command need never come, and the download thread need not end.    *)
(* That the server thread serves what waits is weak fairness of Serve(c),  *)
(* stated without the parser: what waits on a connection is finite and     *)
(* each Serve(c) takes some of it.                                         *)
Waiting(c) == Alive /\ server = "running" /\ (sock[c] = "pending" \/ Ready(c))

Fairness ==
    /\ WF_vars(Alive /\ MainGoesOn)
    /\ WF_vars(Alive /\ serverEnds /\ UNCHANGED mainVars)
    /\ \A c \in Conns : WF_vars(Alive /\ Deliver(c) /\ UNCHANGED mainVars)
    /\ \A c \in Conns : []<>~Waiting(c)

Spec == Init /\ [][Next]_vars /\ Fairness

-----------------------------------------------------------------------------
(* Properties                                                              *)

(* Whatever the pieces a request arrives in and whatever was asked on its  *)
(* connection before, an answer of success is an answer to the address and *)
(* the Connection header that were sent.                                   *)
AnsweredAsSent ==
    (answer.status = 200 /\ answer.asked # NoRequest) =>
        answer.url = answer.asked.url /\ answer.keep = answer.asked.keep

(* Nothing that a panel does reaches the parts of the core before the      *)
(* window holds them or once it has let them go.                           *)
PostsReachClients == [][posted' # posted => clients]_vars

(* The server thread is caught only by a line end that TCP has cut: by a   *)
(* piece that ends with its first character, or that is its second.        *)
CutLineEnd(piece) == piece # <<>> /\ (piece[Len(piece)] = CR \/ piece = <<LF>>)

CaughtByCutLineEnds ==
    [][server # "stuck" /\ server' = "stuck" => \E c \in Conns : CutLineEnd(buf[c])]_vars

(* A panel that asks is answered, or its connection ends; unless the       *)
(* server thread spins on a line end that was cut in two, has ended by     *)
(* itself when select failed, or has ended the process with a number that  *)
(* was none.                                                               *)
RequestEnds ==
    \A c \in Conns :
        asked[c] # NoRequest
            ~> (asked[c] = NoRequest \/ server \in {"stuck", "failed", "threw"})

(* A command to quit, or a closed console while the window is there, leads *)
(* to the settings saved; unless the server thread cannot be joined or has *)
(* ended the process, or Stop faults or waits for the download thread for  *)
(* ever before it comes to the settings.                                   *)
FinishIsHeeded ==
    jobs > 0 ~> (\/ saved \/ server \in {"stuck", "threw"}
                 \/ pc = "Faulted" \/ [](pc = "Docs"))

(* The deviation: a line end that is cut in two hangs the server.          *)
NeverStuck == server # "stuck"
=============================================================================
