------------------------------- MODULE Subsequence -------------------------------
(***************************************************************************)
(* Subsequence: what is left of a sequence when only some elements are     *)
(* kept, in a form that can be reasoned about without operators as         *)
(* arguments.                                                              *)
(***************************************************************************)
EXTENDS Integers, Sequences

(* The elements of s that are in S, in order.                              *)
Only(s, S) ==
    LET upTo[n \in 0..Len(s)] ==
            IF n = 0 THEN <<>>
            ELSE IF s[n] \in S THEN Append(upTo[n - 1], s[n]) ELSE upTo[n - 1]
    IN  upTo[Len(s)]

(* What occurs in s; and that it is a sequence, of that.                   *)
Elements(s) == {s[i] : i \in DOMAIN s}
IsSeq(s)    == s \in Seq(Elements(s))
=============================================================================
