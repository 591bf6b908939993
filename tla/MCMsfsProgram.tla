------------------------------ MODULE MCMsfsProgram ------------------------------
(* MCMsfsProgram: MsfsProgram for two runs, with a first directory that    *)
(* is missing, a settings file that names a tile server and logs what the  *)
(* link does, one that cannot be parsed, and tile server files with the    *)
(* placeholders of their addresses in all six orders.                      *)
EXTENDS MsfsProgram

MCDefaults == [general |-> "plain",
               logging |-> {[pattern |-> <<"*">>,
                             letters |-> [F |-> {"F", "2"}, E |-> {"F", "2"}, S |-> {"F", "1"},
                                          W |-> {"F", "1"}, I |-> {"N"}, D |-> {"N"}]]}]

Quieter == {[pattern |-> <<"msfs">>, letters |-> [S |-> {"2"}]],
            [pattern |-> <<"msfs", "sim">>, letters |-> [S |-> {"F", "2"}]],
            [pattern |-> <<"prefs">>, letters |-> [W |-> {"N"}]]}

MCFiles == {Corrupt, Text([general |-> "reloading", logging |-> Quieter, maps |-> <<"b">>]),
            Text([logging |-> Hollow])}

Entry(name, url, hosts) ==
    [kind |-> "object", name |-> name, disabled |-> FALSE, servers |-> hosts,
     protocol |-> "https", url |-> url, sound |-> TRUE]

MCHosts == << <<"h1">>, Blank, <<"no", "text">>, <<"h2">> >>

File(entries) == [parsed |-> TRUE, array |-> TRUE, entries |-> entries]

One == << <<"h1">> >>

MCTiles == {[parsed |-> FALSE, array |-> FALSE, entries |-> <<>>],
            File(<<Entry(<<"a">>, <<"/", "{y}", "/", "{z}", "/", "{x}">>, MCHosts),
                   [Entry(<<"b">>, <<"{x}", "{y}">>, One) EXCEPT !.disabled = TRUE],
                   Entry(<<"c">>, <<"{x}", "-", "{y}", "-", "{z}">>, One),
                   Entry(<<"d">>, <<"{z}", "-", "{y}", "-", "{x}", "t">>, One)>>),
            File(<<[Entry(<<"b">>, <<"{x}">>, One) EXCEPT !.kind = "other"],
                   [Entry(<<"b">>, <<"t", "{z}", "-", "{x}", "{y}", "{z}">>, MCHosts)
                        EXCEPT !.protocol = "HTTPS"],
                   Entry(<<"c">>, <<"{x}", "-", "{z}", "-", "{y}">>, One),
                   Entry(<<"d">>, <<"{y}", "-", "{x}", "-", "{z}">>, One)>>)}

MCSortedNames == << <<"Entry", 1>>, <<"a">>, <<"b">>, <<"c">>, <<"d">> >>

MCDirs == { <<"missing", "usable">>, <<"barred", "missing">>, <<"unusable">> }

-----------------------------------------------------------------------------
(* Nothing of what was saved last survives a kill in the middle of the     *)
(* next save, and of two messages at a time none need reach the log.       *)
SettingsSurviveKills ==
    [][kept # <<>> /\ settings = <<>> /\ settings' # <<>> => ComesBack(kept, settings')]_vars
AllAreLogged ==
    configured => logFile = base \o Only(said, {m \in Elements(said) : ForFile(m)})

(* The deviations: an entry that was not accepted is used, and a name that *)
(* is no longer there ends every run; more planes are counted than were    *)
(* reported; the user's plane goes back to where it was.                   *)
ProviderAccepted == chosen # NoConfig => chosen.valid
NeverAborts      == pc # "Abort"
PlanesReported   == \A i \in DOMAIN posted : posted[i].n <= Cardinality(posted[i].others)
NeverBackwards   == [][simState'.mine >= simState.mine \/ simState'.mine = 0]_vars
=============================================================================
