-------------------------------- MODULE HttpReq --------------------------------
(***************************************************************************)
(* HttpReq: the parser of one http request, which is fed with whatever     *)
(* pieces of it the socket delivers.  A symbol stands for a run of         *)
(* characters that the parser treats alike; a piece may end between any    *)
(* two symbols.                                                            *)
(***************************************************************************)
EXTENDS Integers, Sequences, FiniteSets

CR == "\r"
LF == "\n"
SP == " "
White == {SP, CR, LF}    \* isspace; iseol adds nothing, as it is never true

(* A parser before it is fed.                                              *)
NewReq == [state |-> "kMethod", working |-> <<>>, method |-> <<>>, url |-> <<>>,
           version |-> <<>>, headers |-> {}, in |-> <<>>]

Drop(s, n) == SubSeq(s, n + 1, Len(s))

(* The length of the part of s before the first symbol in stops.           *)
Before(s, stops) ==
    CHOOSE n \in 0..Len(s) : /\ \A i \in 1..n : s[i] \notin stops
                             /\ n < Len(s) => s[n + 1] \in stops

SkipWhite(s) ==
    Drop(s, CHOOSE n \in 0..Len(s) : /\ \A i \in 1..n : s[i] \in White
                                     /\ n < Len(s) => s[n + 1] \notin White)

(* One word and the white space after it, as feedMethod, feedUrl and       *)
(* feedVersion take it.  The white space ends with the piece at the        *)
(* latest, and the word is not known to have ended when the piece has.     *)
FeedWord(r, field, next) ==
    LET n    == Before(r.in, White)
        word == r.working \o SubSeq(r.in, 1, n)
        rest == Drop(r.in, n)
    IN  IF rest = <<>> THEN [r EXCEPT !.working = word, !.in = <<>>]
        ELSE [r EXCEPT ![field] = word, !.working = <<>>, !.state = next,
                       !.in = SkipWhite(rest)]

feedMethod(r) == FeedWord(r, "method", "kUrl")

feedUrl(r) == FeedWord(r, "url", "kVersion")

feedVersion(r) == FeedWord(r, "version", "kHeader")

(* A slip: what has been taken of a line is not cleared at its end.        *)
FeedHeaderUncleared(r) ==
    LET n    == Before(r.in, {CR, LF})
        line == r.working \o SubSeq(r.in, 1, n)
        rest == Drop(r.in, n)
    IN  IF Len(rest) < 2 THEN [r EXCEPT !.working = line, !.in = rest]
        ELSE IF rest[1] # CR \/ rest[2] # LF
             THEN [r EXCEPT !.working = line, !.in = rest, !.state = "kError"]
             ELSE [r EXCEPT !.working = line, !.in = Drop(rest, 2),
                            !.headers = @ \cup {line},
                            !.state = IF line = <<>> THEN "kComplete" ELSE @]

(* A slip: what is no line end is not reported as an error.                *)
FeedHeaderLenient(r) ==
    LET n    == Before(r.in, {CR, LF})
        line == r.working \o SubSeq(r.in, 1, n)
        rest == Drop(r.in, n)
    IN  IF Len(rest) < 2 \/ rest[1] # CR \/ rest[2] # LF
        THEN [r EXCEPT !.working = line, !.in = rest]
        ELSE IF line = <<>>
             THEN [r EXCEPT !.in = Drop(rest, 2), !.state = "kComplete"]
             ELSE [r EXCEPT !.in = Drop(rest, 2), !.headers = @ \cup {line},
                            !.working = <<>>]

(* A line, and its end if the piece holds both characters of it.           *)
feedHeader(r) ==
    LET n    == Before(r.in, {CR, LF})
        line == r.working \o SubSeq(r.in, 1, n)
        rest == Drop(r.in, n)
    IN  IF Len(rest) < 2 THEN [r EXCEPT !.working = line, !.in = rest]
        ELSE IF rest[1] # CR \/ rest[2] # LF
             THEN [r EXCEPT !.working = line, !.in = rest, !.state = "kError"]
             ELSE IF line = <<>>
                  THEN [r EXCEPT !.in = Drop(rest, 2), !.state = "kComplete"]
                  ELSE [r EXCEPT !.in = Drop(rest, 2), !.headers = @ \cup {line},
                                 !.working = <<>>]

Ended(r) == r.state \in {"kComplete", "kError"}

(* One turn of the loop of feedData, which goes on while there is some of  *)
(* the piece left and the request has not ended.                           *)
Turn(r) ==
    IF r.in = <<>> \/ Ended(r) THEN r
    ELSE CASE r.state = "kMethod"  -> feedMethod(r)
           [] r.state = "kUrl"     -> feedUrl(r)
           [] r.state = "kVersion" -> feedVersion(r)
           [] r.state = "kHeader"  -> feedHeader(r)

(* The loop: its turns take at least one symbol each or come to an end,    *)
(* unless they change nothing at all.  (The set has TLC evaluate a turn    *)
(* once.)                                                                  *)
feedData(req, piece) ==
    LET after[n \in 0..Len(piece) + 1] ==
            IF n = 0 THEN [req EXCEPT !.in = piece]
            ELSE CHOOSE fed \in {Turn(r) : r \in {after[n - 1]}} : TRUE
    IN  after[Len(piece) + 1]

(* feedData does not return.                                               *)
Endless(r) == r.in # <<>> /\ ~Ended(r)

(* extractQueryStrings: what follows the first "?", cut at each "&", and   *)
(* each piece at its first "="; of two with one name the last counts.      *)
Pieces(url) ==
    LET q    == Drop(url, Before(url, {"?"}) + 1)
        cuts == {0} \cup {i \in DOMAIN q : q[i] = "&"}
    IN  {[at |-> i, text |-> SubSeq(q, i + 1, i + Before(Drop(q, i), {"&"}))] :
            i \in {j \in cuts : j < Len(q)}}

NameOf(piece)  == SubSeq(piece.text, 1, Before(piece.text, {"="}))
ValueOf(piece) == Drop(piece.text, Before(piece.text, {"="}) + 1)

queryStrings(url) ==
    [name \in {NameOf(p) : p \in Pieces(url)} |->
        LET named == {p \in Pieces(url) : NameOf(p) = name}
        IN  ValueOf(CHOOSE p \in named : \A o \in named : o.at <= p.at)]

hasQuery(r, name) == <<name>> \in DOMAIN queryStrings(r.url)

hasError(r) == r.state = "kError"

(* A header that names the connection and wants it kept, as one symbol.    *)
keepAlive(r) == \E line \in r.headers : \E i \in DOMAIN line : line[i] = "keep-alive"
=============================================================================
