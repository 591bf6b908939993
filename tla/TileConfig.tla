-------------------------------- MODULE TileConfig --------------------------------
(***************************************************************************)
(* TileConfig: the tile servers that a configuration file names, as        *)
(* TileProviderConfigLoader reads them, and the addresses of tiles that    *)
(* are made from them.  Texts are sequences of symbols; a file is its      *)
(* entries, and whether they are in an array.                              *)
(***************************************************************************)
EXTENDS Integers, Sequences, FiniteSets, Subsequence

Placeholders == {"{x}", "{y}", "{z}"}
Blank        == <<>>

(* What a tile server has before its entry is read.                        *)
NewConfig == [servers |-> <<>>, protocol |-> "", url |-> <<>>, order |-> "",
              parts |-> <<>>, valid |-> FALSE]

(* The one that is made when there is none.                                *)
Bogus == [servers |-> << <<"127.0.0.1">> >>, protocol |-> "http",
          url |-> <<"{z}", "/", "{y}", "/", "{x}", ".png">>, order |-> "",
          parts |-> <<>>, valid |-> FALSE]

Position(url, symbol) ==
    IF \E i \in DOMAIN url : url[i] = symbol
    THEN CHOOSE i \in DOMAIN url : url[i] = symbol /\ \A j \in 1..i - 1 : url[j] # symbol
    ELSE 0

(* The slashes at the start go, but for the last symbol of the address.    *)
WithoutSlashes(url) ==
    LET kept == {i \in DOMAIN url : url[i] # "/"} \cup {Len(url)}
    IN  IF url = <<>> THEN url
        ELSE SubSeq(url, CHOOSE i \in kept : \A j \in kept : i <= j, Len(url))

(* A slip: the second half of the comparisons is a copy of the first.      *)
fmtOrderCopied(url) ==
    LET x == Position(url, "{x}")
        y == Position(url, "{y}")
        z == Position(url, "{z}")
    IN  IF x < y
        THEN IF z < x      THEN [order |-> "ZXY", at |-> <<z, x, y>>]
             ELSE IF z < y THEN [order |-> "XZY", at |-> <<x, z, y>>]
             ELSE               [order |-> "XYZ", at |-> <<x, y, z>>]
        ELSE IF z < x      THEN [order |-> "ZYX", at |-> <<z, y, x>>]
             ELSE IF z < y THEN [order |-> "YZX", at |-> <<y, z, x>>]
             ELSE               [order |-> "YXZ", at |-> <<y, x, z>>]

(* The order of the placeholders, and where they are.                      *)
fmtOrder(url) ==
    LET x == Position(url, "{x}")
        y == Position(url, "{y}")
        z == Position(url, "{z}")
    IN  IF x < y
        THEN IF z < x      THEN [order |-> "ZXY", at |-> <<z, x, y>>]
             ELSE IF z < y THEN [order |-> "XZY", at |-> <<x, z, y>>]
             ELSE               [order |-> "XYZ", at |-> <<x, y, z>>]
        ELSE IF z < y      THEN [order |-> "ZYX", at |-> <<z, y, x>>]
             ELSE IF z < x THEN [order |-> "YZX", at |-> <<y, z, x>>]
             ELSE               [order |-> "YXZ", at |-> <<y, x, z>>]

(* The four texts around the placeholders.  Where nothing is between two   *)
(* of them the assertions fail, which end a debug build; another one finds *)
(* an empty text.                                                          *)
splitUrl(url, p) ==
    << SubSeq(url, 1, p[1] - 1), SubSeq(url, p[1] + 1, p[2] - 1),
       SubSeq(url, p[2] + 1, p[3] - 1), SubSeq(url, p[3] + 1, Len(url)) >>

AssertionsHold(p) == p[2] > p[1] + 1 /\ p[3] > p[2] + 1

Hosts(cfg)       == Only(cfg.servers, Elements(cfg.servers) \ {Blank})
IsComplete(url)  == \A p \in Placeholders : Position(url, p) # 0

Shouted  == [HTTP |-> "http", HTTPS |-> "https"]
Lower(p) == IF p \in DOMAIN Shouted THEN Shouted[p] ELSE p

(* Validate ends early, with an exception, at the first thing that it does *)
(* not accept: what it has done until then stays.                          *)
Validate(cfg, entry) ==
    LET url   == WithoutSlashes(cfg.url)
        found == fmtOrder(url)
    IN  IF Hosts(cfg) = <<>> THEN [cfg EXCEPT !.servers = <<>>]
        ELSE IF ~IsComplete(url) THEN [cfg EXCEPT !.servers = Hosts(cfg), !.url = url]
        ELSE [cfg EXCEPT !.servers = Hosts(cfg), !.url = url, !.order = found.order,
                         !.parts = splitUrl(url, found.at), !.protocol = Lower(@),
                         !.valid = Lower(cfg.protocol) \in {"http", "https"} /\ entry.sound]

(* What is read of an entry before it is validated; a host that is no text *)
(* is ignored.                                                             *)
Given(entry) == [NewConfig EXCEPT !.servers = Only(entry.servers, Elements(entry.servers) \ {<<"no", "text">>}),
                                  !.protocol = entry.protocol,
                                  !.url = entry.url]

(* One entry: a name for it, and what was read of it up to an exception.   *)
ReadEntry(entry, i) ==
    IF entry.kind # "object" THEN [name |-> <<"Entry", i>>, config |-> NewConfig]
    ELSE IF entry.name = Blank THEN [name |-> Blank, config |-> NewConfig]
    ELSE [name |-> entry.name, config |-> Validate(Given(entry), entry)]

Disabled(entry) == entry.kind = "object" /\ entry.name # Blank /\ entry.disabled

(* Populate: every entry that is not disabled is filed under its name,     *)
(* whether it was accepted or not; of two with one name the last counts.   *)
Populate(file) ==
    LET read  == {i \in DOMAIN file.entries : ~Disabled(file.entries[i])}
        At(i) == ReadEntry(file.entries[i], i)
        Last(name) == CHOOSE i \in read : /\ At(i).name = name
                                          /\ \A j \in read : At(j).name = name => j <= i
    IN  [name \in {At(i).name : i \in read} |-> At(Last(name)).config]

(* The constructor: what the file gives, or the one that keeps the map     *)
(* going.                                                                  *)
TileProviderConfigLoader(file) ==
    IF Populate(file) = <<>> THEN [name \in {Blank} |-> Bogus] ELSE Populate(file)

(* The first name in the order of texts, given as the names in that order. *)
FirstName(configs, sorted) ==
    IF Blank \in DOMAIN configs THEN Blank
    ELSE LET there == {i \in DOMAIN sorted : sorted[i] \in DOMAIN configs}
         IN  sorted[CHOOSE i \in there : \A j \in there : i <= j]

(* GetConfig throws when there is no such name; any will do for a blank    *)
(* one.                                                                    *)
GetConfigThrows(configs, name) == name # Blank /\ name \notin DOMAIN configs

GetConfig(configs, name, sorted) ==
    configs[IF name = Blank THEN FirstName(configs, sorted) ELSE name]

(* The address of a tile, from the server with index si.                   *)
FormatUrl(cfg, value, si) ==
    LET base == <<cfg.protocol, "://">> \o cfg.servers[si] \o <<"/">>
        Filled(p, q, r) ==
            base \o cfg.parts[1] \o <<value[p]>> \o cfg.parts[2] \o <<value[q]>>
                 \o cfg.parts[3] \o <<value[r]>> \o cfg.parts[4]
    IN  CASE cfg.order = "XYZ" -> Filled("{x}", "{y}", "{z}")
          [] cfg.order = "XZY" -> Filled("{x}", "{z}", "{y}")
          [] cfg.order = "YXZ" -> Filled("{y}", "{x}", "{z}")
          [] cfg.order = "YZX" -> Filled("{y}", "{z}", "{x}")
          [] cfg.order = "ZXY" -> Filled("{z}", "{x}", "{y}")
          [] cfg.order = "ZYX" -> Filled("{z}", "{y}", "{x}")

(* What the errors of the file are reported with, in order, up to the n-th *)
(* entry.                                                                  *)
ErrorsUpTo(file, n) ==
    LET bad == {i \in 1..n : /\ ~Disabled(file.entries[i])
                             /\ ~ReadEntry(file.entries[i], i).config.valid}
    IN  (IF file.parsed THEN <<>> ELSE <<"Invalid json format">>)
        \o (IF file.array THEN <<>> ELSE <<"not an array">>)
        \o [i \in 1..Cardinality(bad) |-> "configuration error"]

ReadErrors(file) ==
    ErrorsUpTo(file, Len(file.entries))
        \o (IF Populate(file) = <<>> THEN <<"No valid tile server">> ELSE <<>>)

(* An entry at whose address a debug build ends.                           *)
Asserts(entry) ==
    /\ entry.kind = "object" /\ entry.name # Blank /\ ~entry.disabled
    /\ Hosts(Given(entry)) # <<>> /\ IsComplete(WithoutSlashes(entry.url))
    /\ ~AssertionsHold(fmtOrder(WithoutSlashes(entry.url)).at)
=============================================================================
