-------------------------------- MODULE LogManager --------------------------------
(***************************************************************************)
(* LogManager: messages are kept until the manager is configured, and from *)
(* then on go where the filter of the logger's name says.  A name is a     *)
(* sequence of syllables, and a pattern matches a name that it begins.     *)
(* No mutex keeps two threads apart: when one logs while the other does,   *)
(* what becomes of the two messages is left open.                          *)
(***************************************************************************)
EXTENDS Integers, Sequences, FiniteSets, Subsequence

Severities == {"F", "E", "S", "W", "I", "D"}
Unknown    == 0     \* UnknownFilterId

VARIABLES
    configured,  \* LogManager::isConfigured
    filters,     \* LogManager::filters
    cache,       \* the messages before the configuration
    fids,        \* of each logger: the filter that it found, or Unknown
    logFile,     \* what the log file holds, but for messages logged at the same time
    base,        \* what of it is of an earlier run
    said,        \* every message of this run, those that were logged alone marked
    writing      \* <<m>> while the thread beside main is in Log with m, else <<>>

logVars == <<configured, filters, cache, fids, logFile, base, said, writing>>

Message(name, severity) == [name |-> name, severity |-> severity, alone |-> TRUE]

NotAlone(messages) == [i \in DOMAIN messages |-> [messages[i] EXCEPT !.alone = FALSE]]

(* Filter: where messages go when no configuration says.                   *)
DefaultDests(console) ==
    [F |-> {"FILE", "STDERR"}, E |-> {"FILE", "STDERR"},
     S |-> {"FILE"} \cup (IF console THEN {"STDOUT"} ELSE {}),
     W |-> {"FILE"} \cup (IF console THEN {"STDERR"} ELSE {}),
     I |-> {}, D |-> {}]

(* Filter::Configure, for one severity and the letters that configure it.  *)
Dest(dests, letters) ==
    IF letters = {} THEN dests
    ELSE IF "N" \in letters THEN {}
    ELSE (IF "F" \in letters THEN {"FILE"} ELSE {})
          \cup (IF "1" \in letters THEN {"STDOUT"} ELSE {})
          \cup (IF "2" \in letters THEN {"STDERR"} ELSE {})

Configured(dests, letters) ==
    [s \in Severities |-> IF s \in DOMAIN letters THEN Dest(dests[s], letters[s]) ELSE dests[s]]

(* Configure: the filter for every name first, then one for each other     *)
(* pattern, which starts as a copy of that.  conf is a set of              *)
(* [pattern, letters].                                                     *)
Filters(conf, console) ==
    LET any   == {c \in conf : c.pattern = <<"*">>}
        first == [pattern |-> <<"*">>,
                  dests |-> IF any = {} THEN DefaultDests(console)
                            ELSE Configured(DefaultDests(console), (CHOOSE c \in any : TRUE).letters)]
        some  == conf \ any
        order == CHOOSE f \in [1..Cardinality(some) -> some] : \A c \in some : \E i \in DOMAIN f : f[i] = c
    IN  <<first>> \o [i \in DOMAIN order |->
                        [pattern |-> order[i].pattern,
                         dests |-> Configured(first.dests, order[i].letters)]]

Begins(pattern, name) ==
    /\ pattern # <<>> /\ Len(pattern) <= Len(name)
     /\ SubSeq(name, 1, Len(pattern)) = pattern

(* The filter with the longest pattern that matches, else the first.       *)
FilterOf(fs, name) ==
    LET match == {i \in DOMAIN fs : Begins(fs[i].pattern, name)}
    IN  IF match = {} THEN 1
        ELSE CHOOSE i \in match : \A j \in match : Len(fs[j].pattern) <= Len(fs[i].pattern)

LogTyped ==
    /\ configured \in BOOLEAN
    /\ \A i \in DOMAIN filters : filters[i].dests \in [Severities -> SUBSET {"FILE", "STDOUT", "STDERR"}]
    /\ configured => cache = <<>> /\ filters # <<>>
    /\ Len(writing) <= 1

LogInit ==
    /\ configured = FALSE /\ filters = <<>> /\ cache = <<>>
    /\ fids = [n \in {} |-> Unknown] /\ logFile = <<>> /\ base = <<>>
    /\ said = <<>> /\ writing = <<>>

Written(fs, id, m) == "FILE" \in fs[id].dests[m.severity]

IdOf(fs, name) == IF name \in DOMAIN fids /\ fids[name] # Unknown THEN fids[name]
                  ELSE FilterOf(fs, name)

(* What of the messages goes to the file; each logger keeps the filter     *)
(* that it found.                                                          *)
ToFile(messages) ==
    Only(messages, {m \in Elements(messages) : Written(filters, IdOf(filters, m.name), m)})

Found(messages) ==
    fids' = [n \in DOMAIN fids \cup {messages[i].name : i \in DOMAIN messages} |-> IdOf(filters, n)]

(* Logger::Log by main, for a few messages.                                *)
Log(messages) ==
    /\ \/ /\ ~configured
          /\ said' = said \o messages /\ cache' = cache \o messages
          /\ UNCHANGED <<fids, logFile, writing>>
       \/ /\ configured /\ (writing = <<>> \/ ToFile(messages) = <<>>)
          /\ said' = said \o messages /\ logFile' = logFile \o ToFile(messages)
          /\ Found(messages) /\ UNCHANGED <<cache, writing>>
       \/ /\ configured /\ writing # <<>> /\ ToFile(messages) # <<>>
          /\ said' = said \o NotAlone(messages) /\ writing' = NotAlone(writing)
          /\ Found(messages) /\ UNCHANGED <<cache, logFile>>
    /\ UNCHANGED <<configured, filters, base>>

(* Logger::Log by the other thread, which main may come in between of: a   *)
(* message that goes to the file, and one that does not.                   *)
LogBegins(m) ==
    /\ configured /\ writing = <<>>
    /\ IF ToFile(<<m>>) = <<>> THEN said' = Append(said, m) /\ UNCHANGED writing
       ELSE writing' = <<m>> /\ UNCHANGED said
    /\ Found(<<m>>)
    /\ UNCHANGED <<configured, filters, cache, logFile, base>>

LogEnds ==
    /\ writing # <<>> /\ writing' = <<>>
    /\ said' = said \o writing
    /\ logFile' = IF writing[1].alone THEN logFile \o writing ELSE logFile
    /\ UNCHANGED <<configured, filters, cache, fids, base>>

(* A slip: what was kept is let go when the filters are there.             *)
FromCacheNone(fs) == <<>>

(* The messages that were kept, in order: their loggers' filters are found *)
(* anew for each.                                                          *)
FromCache(fs) == Only(cache, {m \in Elements(cache) : Written(fs, FilterOf(fs, m.name), m)})

(* Configure: the file is opened, appended to after a reload, and gets a   *)
(* line that says so.                                                      *)
Configure(append, conf, console, opening) ==
    /\ filters' = Filters(conf, console) /\ configured' = TRUE
    /\ base' = (IF append THEN logFile ELSE <<>>) \o <<opening>>
    /\ logFile' = base' \o FromCache(Filters(conf, console))
    /\ cache' = <<>>
    /\ UNCHANGED <<fids, said, writing>>

(* The process ends, with a closing line if it ends well: nothing is left  *)
(* but the file.                                                           *)
LogGone(closing) ==
    /\ configured' = FALSE /\ filters' = <<>> /\ cache' = <<>>
    /\ fids' = [n \in {} |-> Unknown] /\ said' = <<>> /\ writing' = <<>>
    /\ logFile' = logFile \o closing
    /\ UNCHANGED base

(* The filter for a name: the one with the longest pattern that begins it, *)
(* or the first.                                                           *)
UsedFor(name) ==
    LET best == {f \in Elements(filters) : Begins(f.pattern, name)}
    IN  IF best = {} THEN filters[1]
        ELSE CHOOSE f \in best : \A g \in best : Len(g.pattern) <= Len(f.pattern)

ForFile(m) == "FILE" \in UsedFor(m.name).dests[m.severity]

(* From the configuration on the log file holds every message of the run   *)
(* that the filter with the longest matching pattern lets through, once    *)
(* and in order, those from before the configuration first; but for those  *)
(* that two threads logged at the same time.                               *)
LoggedOnce ==
    configured => logFile = base \o Only(said, {m \in Elements(said) : m.alone /\ ForFile(m)})
=============================================================================
