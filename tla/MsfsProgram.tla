------------------------------- MODULE MsfsProgram -------------------------------
(***************************************************************************)
(* MsfsProgram: the program for Microsoft Flight Simulator, run after run: *)
(* its main function with the settings, the log and the tile servers that  *)
(* a run starts with, and the thread that is linked to the simulator.  A   *)
(* run may be killed, and the user may edit the files between two runs.    *)
(***************************************************************************)
EXTENDS Settings, LogManager, TileConfig, MsfsLink

CONSTANTS DirChoices,   \* the states that the candidates for a directory may be in
          FileChoices,  \* the settings files that a user may leave
          TileChoices,  \* and the tile server files
          SortedNames,  \* the names of tile servers in alphabetical order
          MaxRuns, MaxEdits

(* What "logging" may be set to: the filters are in a map, from patterns.  *)
FilterConf(conf) == /\ IsFiniteSet(conf) /\ \A c \in conf : IsSeq(c.pattern)
                    /\ \A c, d \in conf : c.pattern = d.pattern => c = d

LogConf(value) == value = Hollow \/ FilterConf(value)

(* The defaults configure the log; an entry for a tile server has hosts    *)
(* and an address, and a name in the order of names.                       *)
ProgramAssumption ==
    /\ {"general", "logging", "maps"} \subseteq Keys
    /\ "logging" \in DOMAIN Defaults /\ LogConf(Defaults["logging"])
    /\ \A ds \in DirChoices : ds \in Seq(DirKinds)
    /\ \A f \in FileChoices :
          /\ f = Corrupt \/ f = Text(f.values)
          /\ DOMAIN f.values \subseteq Keys
          /\ "logging" \in DOMAIN f.values => LogConf(f.values["logging"])
    /\ \A f \in TileChoices :
          /\ IsSeq(f.entries)
          /\ \A e \in Elements(f.entries) :
                /\ IsSeq(e.servers) /\ IsSeq(e.url)
                /\ \A host \in Elements(e.servers) : IsSeq(host)
          /\ DOMAIN Populate(f) \subseteq Elements(SortedNames)
    /\ IsSeq(SortedNames)
    /\ MaxRuns \in Nat /\ MaxEdits \in Nat

ASSUME ProgramAssumption

VARIABLES
    pc,         \* where main is
    activated,  \* Navitab::activated
    tileFiles,  \* of each directory: its tile server file
    configs,    \* TileProviderConfigLoader::smConfigs
    chosen,     \* MapTileProvider::smapConfig
    kept,       \* the settings as they were saved last, or written by the user
    cut,        \* whether a run has been killed since then while it saved
    runs, edits

mainVars == <<pc, activated, tileFiles, configs, chosen, kept, cut, runs, edits>>
vars     == <<settingsVars, logVars, msfsVars, mainVars>>

NoConfig == NewConfig

Places == {"Off", "Make", "Configure", "Early", "Start", "Abort", "Connect", "Activate",
           "EventLoop", "Deactivate", "Disconnect", "Join", "Stop", "Saving", "Exit"}

TypeOK == /\ SettingsTyped /\ LogTyped /\ MsfsTyped
          /\ pc \in Places /\ activated \in BOOLEAN
          /\ runs \in 0..MaxRuns /\ edits \in 0..MaxEdits
          /\ DOMAIN tileFiles = DOMAIN dirs

Init ==
    /\ dirs \in DirChoices /\ dir = 0 /\ settings = <<>> /\ saveAtExit = TRUE
    /\ files = [d \in DOMAIN dirs |-> Absent]
    /\ \E f \in TileChoices : tileFiles = [d \in DOMAIN dirs |-> f]
    /\ LogInit /\ MsfsInit
    /\ pc = "Off" /\ activated = FALSE /\ configs = <<>> /\ chosen = NoConfig
    /\ kept = <<>> /\ cut = FALSE /\ runs = 0 /\ edits = 0

Goto(place) == pc' = place

-----------------------------------------------------------------------------
(* Between two runs                                                        *)

Run ==
    /\ pc = "Off" /\ runs < MaxRuns /\ runs' = runs + 1
    /\ Goto("Make")
    /\ UNCHANGED <<settingsVars, logVars, msfsVars, activated, tileFiles, configs, chosen,
                   kept, cut, edits>>

(* The user writes a settings file, in a directory that is there, or one   *)
(* for the tile servers.                                                   *)
Edit ==
    /\ pc = "Off" /\ edits < MaxEdits /\ edits' = edits + 1
    /\ \E d \in Usable :
          \/ /\ \E f \in FileChoices :
                /\ files' = [files EXCEPT ![d] = f]
                /\ IF d = First(Usable) THEN kept' = f.values /\ cut' = FALSE
                   ELSE UNCHANGED <<kept, cut>>
             /\ UNCHANGED tileFiles
          \/ /\ \E f \in TileChoices : tileFiles' = [tileFiles EXCEPT ![d] = f]
             /\ UNCHANGED <<files, kept, cut>>
    /\ UNCHANGED <<dirs, dir, settings, saveAtExit, logVars, msfsVars, pc, activated,
                   configs, chosen, runs>>

(* What a process leaves behind.                                           *)
ProcessGone == /\ MsfsGone /\ activated' = FALSE /\ configs' = <<>> /\ chosen' = NoConfig
         /\ Goto("Off") /\ UNCHANGED <<tileFiles, runs, edits>>

(* The process is killed; while the settings are being saved that leaves   *)
(* a part of them in the file, or nothing.                                 *)
Killed ==
    /\ pc # "Off"
    /\ \E halfway \in IF pc = "Saving" /\ saveAtExit THEN BOOLEAN ELSE {FALSE} :
          SettingsGone(halfway)
    /\ cut' = (cut \/ (pc = "Saving" /\ saveAtExit))
    /\ LogGone(<<>>) /\ ProcessGone /\ UNCHANGED kept

-----------------------------------------------------------------------------
(* The constructor of Navitab                                              *)

(* A directory for the files, and the settings; without a directory the    *)
(* program ends.                                                           *)
Make ==
    /\ pc = "Make"
    /\ IF Throws
       THEN /\ Goto("Off")
            /\ UNCHANGED <<settingsVars, logVars>>
       ELSE /\ Goto("Configure") /\ LoadSettings
            /\ LET W == Message(<<"prefs">>, "W") IN
               Log(IF files[dir'] \in NoText THEN <<W, W>> ELSE <<Message(<<"prefs">>, "S")>>)
    /\ UNCHANGED <<msfsVars, activated, tileFiles, configs, chosen, kept, cut, runs, edits>>

(* The log, appended to if the settings say so, which they then no longer  *)
(* do.                                                                     *)
ConfigureLog ==
    /\ pc = "Configure" /\ Goto("Early")
    /\ IF Value("general") = "reloading" THEN Put("general", "plain")
       ELSE settings' = GotFrom("general")
    /\ Configure(Value("general") = "reloading",
                 IF Value("logging") = Hollow THEN {} ELSE Value("logging"), FALSE, "started")
    /\ UNCHANGED <<dirs, dir, files, saveAtExit, msfsVars, activated, tileFiles, configs,
                   chosen, kept, cut, runs, edits>>

Early ==
    /\ pc = "Early" /\ Goto("Start")
    /\ Log(<<Message(<<"main">>, "S")>>)
    /\ UNCHANGED <<settingsVars, msfsVars, activated, tileFiles, configs, chosen, kept, cut, runs,
                   edits>>

Reported(errors) == [i \in DOMAIN errors |-> Message(<<"tile", "cfg">>, "E")]

(* A debug build ends at the first address with placeholders that have     *)
(* nothing between them.                                                   *)
Asserted ==
    LET file == tileFiles[dir]
        ends == {i \in DOMAIN file.entries : Asserts(file.entries[i])}
        at   == CHOOSE i \in ends : \A j \in ends : i <= j
    IN  /\ pc = "Start" /\ ends # {} /\ Goto("Abort")
        /\ Log(Reported(ErrorsUpTo(file, at - 1)))
        /\ UNCHANGED <<settingsVars, msfsVars, activated, tileFiles, configs, chosen, kept,
                       cut, runs, edits>>

(* Start, and in it the constructor of MapTileProvider: the tile server    *)
(* that the settings name, or the first, which is then named.  A name that *)
(* is not there throws, and so does main's handler when it logs that.      *)
Start ==
    LET read   == TileProviderConfigLoader(tileFiles[dir])
        named  == Value("maps")
        name   == IF named = Null THEN FirstName(read, SortedNames) ELSE named
        errors == Reported(ReadErrors(tileFiles[dir]))
    IN  /\ pc = "Start"
        /\ configs' = read
        /\ IF named = Null THEN Put("maps", name) ELSE UNCHANGED settings
        /\ IF GetConfigThrows(read, name)
           THEN /\ Goto("Abort") /\ UNCHANGED chosen
                /\ Log(errors \o <<Message(<<"main">>, "F")>>)
           ELSE /\ Goto("Connect") /\ chosen' = GetConfig(read, name, SortedNames)
                /\ Log(errors)
        /\ UNCHANGED <<dirs, dir, files, saveAtExit, msfsVars, activated, tileFiles, kept,
                       cut, runs, edits>>

Abort ==
    /\ pc = "Abort"
    /\ SettingsGone(FALSE) /\ LogGone(<<>>) /\ ProcessGone
    /\ UNCHANGED <<kept, cut>>

-----------------------------------------------------------------------------
(* The rest of main                                                        *)

Connect ==
    /\ pc = "Connect" /\ Goto("Activate") /\ ConnectSim
    /\ UNCHANGED <<settingsVars, logVars, activated, tileFiles, configs, chosen, kept, cut, runs,
                   edits>>

Activate ==
    /\ pc = "Activate" /\ Goto("EventLoop") /\ activated' = TRUE
    /\ Log(<<Message(<<"main">>, "S")>>)
    /\ UNCHANGED <<settingsVars, msfsVars, tileFiles, configs, chosen, kept, cut, runs,
                   edits>>

(* The window is closed.                                                   *)
EventLoopEnds ==
    /\ pc = "EventLoop" /\ Goto("Deactivate")
    /\ Log(<<Message(<<"main">>, "S")>>)
    /\ UNCHANGED <<settingsVars, msfsVars, activated, tileFiles, configs, chosen,
                   kept, cut, runs, edits>>

Deactivate ==
    /\ pc = "Deactivate" /\ Goto("Disconnect") /\ activated' = FALSE
    /\ UNCHANGED <<settingsVars, logVars, msfsVars, tileFiles, configs, chosen, kept, cut, runs,
                   edits>>

Disconnect ==
    /\ pc = "Disconnect" /\ Goto("Join") /\ StopPolling
    /\ UNCHANGED <<settingsVars, logVars, activated, tileFiles, configs, chosen, kept, cut, runs,
                   edits>>

Join ==
    /\ pc = "Join" /\ simThread = "ended" /\ Goto("Stop")
    /\ UNCHANGED <<settingsVars, logVars, msfsVars, activated, tileFiles, configs, chosen,
                   kept, cut, runs, edits>>

(* Stop lets go of the settings, which are saved in two steps.             *)
Stop ==
    /\ pc = "Stop" /\ Goto("Saving") /\ OpenToSave
    /\ UNCHANGED <<logVars, msfsVars, activated, tileFiles, configs, chosen, kept, cut, runs, edits>>

Saving ==
    /\ pc = "Saving" /\ Goto("Exit") /\ Save
    /\ IF saveAtExit THEN kept' = settings /\ cut' = FALSE ELSE UNCHANGED <<kept, cut>>
    /\ Log(IF saveAtExit THEN <<Message(<<"prefs">>, "S"), Message(<<"prefs">>, "S")>>
           ELSE <<Message(<<"prefs">>, "S")>>)
    /\ UNCHANGED <<msfsVars, activated, tileFiles, configs, chosen, runs, edits>>

Exit ==
    /\ pc = "Exit"
    /\ LogGone(<<"ended">>) /\ ProcessGone
    /\ UNCHANGED <<settingsVars, kept, cut>>

Main == \/ Run \/ Make \/ ConfigureLog \/ Early \/ Start \/ Asserted \/ Abort \/ Connect \/ Activate
        \/ EventLoopEnds \/ Deactivate \/ Disconnect \/ Join \/ Stop \/ Saving \/ Exit

(* The thread that polls says when the link is made or given up.           *)
Link ==
    /\ LinkNext /\ writing = <<>>
    /\ IF hSimConnect' # hSimConnect THEN LogBegins(Message(<<"msfs", "sim">>, "S"))
       ELSE UNCHANGED logVars
    /\ UNCHANGED <<settingsVars, mainVars>>

LinkLogged == LogEnds /\ UNCHANGED <<settingsVars, msfsVars, mainVars>>

(* The simulator, and what the link posted to the core's thread.           *)
Beside ==
    /\ (simThread # "none" /\ SimNext) \/ onSimFlightLoop(activated)
    /\ UNCHANGED <<settingsVars, logVars, mainVars>>

Next == Main \/ Edit \/ Killed \/ Link \/ LinkLogged \/ Beside

Spec == Init /\ [][Next]_vars

-----------------------------------------------------------------------------
(* Properties                                                              *)

(* The values of an earlier run are there, but for those that are empty.   *)
ComesBack(old, new) == \A k \in DOMAIN old : old[k] \in {Hollow, Null} \/ new[k] = old[k]

(* A settings file that cannot be parsed, be it edited or half written, is *)
(* left to its user by every run, however it ends; and a run starts with   *)
(* every value that the last run to save its settings had, or that the     *)
(* user wrote since, unless a later run was killed while it saved and left *)
(* nothing that can be read.                                               *)
SettingsKept ==
    [][/\ \A d \in DOMAIN files :
             pc # "Off" /\ files[d] = Corrupt => files'[d] = Corrupt
       /\ kept # <<>> /\ settings = <<>> /\ settings' # <<>> =>
             ComesBack(kept, settings') \/ (cut /\ files[dir'] \in NoText)]_vars

(* A tile's column, row and zoom; and an address with each placeholder,    *)
(* where it is first, replaced by its value.                               *)
TileValue == [p \in Placeholders |-> CASE p = "{x}" -> "1" [] p = "{y}" -> "2" [] p = "{z}" -> "3"]

FilledIn(u, value) == [i \in DOMAIN u |-> IF u[i] \in Placeholders /\ i = Position(u, u[i])
                                          THEN value[u[i]] ELSE u[i]]

(* Every address that a tile server makes is what an entry says: a host    *)
(* that it names, and its path with the placeholders replaced.             *)
AsEntrySays(cfg, e) ==
    /\ ~Disabled(e)
    /\ \A si \in DOMAIN cfg.servers :
          /\ cfg.servers[si] \in Elements(e.servers) \ {Blank}
          /\ FormatUrl(cfg, TileValue, si) =
                <<Lower(e.protocol), "://">> \o cfg.servers[si] \o <<"/">>
                    \o FilledIn(WithoutSlashes(e.url), TileValue)

TileServers == {configs[name] : name \in DOMAIN configs} \cup {chosen}

(* The tile servers that a run has accepted, the one that it uses among    *)
(* them, make the addresses that one entry of the file which it read says. *)
UrlAsConfigured ==
    [][\A cfg \in TileServers' \ TileServers :
           cfg.valid => \E e \in Elements(tileFiles[dir].entries) : AsEntrySays(cfg, e)]_vars

(* From the moment that the link has heard of the end of a flight, and     *)
(* until it is connected again, what it posted last and what the core      *)
(* shows in the end count no other planes, from neither of the buffers.    *)
NoGhostPlanes ==
    ~hSimConnect /\ activated =>
        IF posted = <<>> THEN simState.n = 0 ELSE posted[Len(posted)].n = 0
=============================================================================
