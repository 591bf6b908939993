--------------------------------- MODULE Settings ---------------------------------
(***************************************************************************)
(* Settings: the settings of a run, which override the defaults by what    *)
(* the file of an earlier run holds, and are saved at the end.  A settings *)
(* file holds a function from the names of its top level to their values,  *)
(* or none.                                                                *)
(***************************************************************************)
EXTENDS Integers, FiniteSets

CONSTANTS Keys,       \* the names of the top level
          Defaults,   \* a function from some of them to their values
          Null,       \* the value of what was asked for and is not there
          Hollow      \* the value of an empty array or object

ASSUME SettingsAssumption == DOMAIN Defaults \subseteq Keys

VARIABLES
    dirs,        \* the candidates for the data directory, in order
    dir,         \* the one that this run uses, 0 for none
    files,       \* of each: the settings file that it holds
    settings,    \* SettingsManager::settingsJson, <<>> before it is there
    saveAtExit

settingsVars == <<dirs, dir, files, settings, saveAtExit>>

(* A settings file that can be parsed, one that is not there or empty, and *)
(* one with some text that cannot be parsed.                               *)
Text(values) == [kind |-> "text", values |-> values]
Absent       == [kind |-> "absent", values |-> <<>>]
Corrupt      == [kind |-> "corrupt", values |-> <<>>]

NoText == {Absent, Corrupt}

DirKinds == {"usable", "unusable", "missing", "barred"}

SettingsTyped ==
    /\ \A d \in DOMAIN dirs : dirs[d] \in DirKinds
    /\ dir \in {0} \cup DOMAIN dirs
    /\ DOMAIN settings \subseteq Keys /\ saveAtExit \in BOOLEAN

(* FindDataFilesPath: the first directory that is there and can be written *)
(* to; if there is none, the first that can be made.  One that cannot be   *)
(* made throws.                                                            *)
Usable == {d \in DOMAIN dirs : dirs[d] = "usable"}
Gone   == {d \in DOMAIN dirs : dirs[d] \in {"missing", "barred"}}

First(S) == CHOOSE d \in S : \A e \in S : d <= e

Throws == Usable = {} /\ (Gone = {} \/ dirs[First(Gone)] = "barred")

FindDataFilesPath == IF Usable # {} THEN First(Usable) ELSE First(Gone)

Override(f, g) == [k \in DOMAIN f \cup DOMAIN g |-> IF k \in DOMAIN g THEN g[k] ELSE f[k]]

(* A slip: whatever cannot be read is replaced at the end.                 *)
SavedAtExitAlways(text) == TRUE

(* load: what cannot be parsed is kept as it is, for its user to mend.     *)
SavedAtExit(text) == text # Corrupt

(* The constructor: the defaults, and then the file.                       *)
LoadSettings ==
    /\ dir' = FindDataFilesPath
    /\ dirs' = [dirs EXCEPT ![dir'] = "usable"]
    /\ settings' = IF files[dir'] \in NoText THEN Defaults ELSE Override(Defaults, files[dir'].values)
    /\ saveAtExit' = SavedAtExit(files[dir'])
    /\ UNCHANGED files

(* Get: what is not there is there afterwards, as a null.                  *)
Value(key)   == IF key \in DOMAIN settings THEN settings[key] ELSE Null
GotFrom(key) == Override([k \in {key} |-> Null], settings)

Put(key, value) == settings' = Override(settings, [k \in {key} |-> value])

(* save, up to the opening of the file, which makes it empty ...           *)
OpenToSave ==
    /\ files' = [files EXCEPT ![dir] = IF saveAtExit THEN Absent ELSE @]
    /\ UNCHANGED <<dirs, dir, settings, saveAtExit>>

(* ... and what is written then: nulls are left out, and empty arrays and  *)
(* objects with them, as flatten makes nulls of those.                     *)
Saved == Text([k \in {k \in DOMAIN settings : settings[k] \notin {Null, Hollow}} |-> settings[k]])

Save ==
    /\ files' = [files EXCEPT ![dir] = IF saveAtExit THEN Saved ELSE @]
    /\ settings' = <<>> /\ dir' = 0
    /\ UNCHANGED <<dirs, saveAtExit>>

(* The process is gone, perhaps with the file half written.                *)
SettingsGone(halfway) ==
    /\ files' = IF halfway THEN [files EXCEPT ![dir] = Corrupt] ELSE files
    /\ settings' = <<>> /\ dir' = 0
    /\ UNCHANGED <<dirs, saveAtExit>>
=============================================================================
