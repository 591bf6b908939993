---------------------------- MODULE PanelServerProofs ----------------------------
(***************************************************************************)
(* Proofs about PanelServer, for any number of connections, requests and   *)
(* pieces and any ports: what a panel does never reaches parts of the core *)
(* that the window does not hold, or no longer holds; and an answer is to  *)
(* what the client has asked, however TCP has cut the request; and the     *)
(* server thread hangs on nothing but a line end that was cut.             *)
(***************************************************************************)
EXTENDS PanelServer, TLAPS, WellFoundedInduction

(* The server thread runs, or spins, between the moment that the window is *)
(* given the parts and the join that precedes letting them go.             *)
ServerHasClients == server \in {"running", "stuck"} => clients

(* The steps of Stop, and what follows it: they leave the server alone.    *)
StopStep == Stop \/ DocsStopped \/ SettingsSaved \/ WorkerJoined \/ WorkerFaults \/ Reset

-----------------------------------------------------------------------------

(* Main starts the server with the parts held, and lets go of them only    *)
(* when there is no server thread.                                         *)
LEMMA MainKeepsClients == ServerHasClients /\ Main => ServerHasClients'
<1> SUFFICES ASSUME ServerHasClients, Main PROVE ServerHasClients'
  OBVIOUS
<1> USE DEF ServerHasClients
<1>1. CASE MakeWindow \/ Activate \/ Release \/ StopStep
  BY <1>1 DEF MakeWindow, Activate, Release, Stop, DocsStopped, SettingsSaved, WorkerJoined, WorkerFaults, Reset, StopStep,
              serverVars
<1>2. CASE ConnectWindow
  BY <1>2 DEF ConnectWindow
<1>3. CASE EventLoop \/ Deactivate
  BY <1>3 DEF EventLoop, Deactivate, serverVars
<1>4. CASE Disconnect
  <2>1. server' \notin {"running", "stuck"}
    BY <1>4 DEF Disconnect, ServerJoined
  <2>2. QED
    BY <2>1
<1>5. QED
  BY <1>1, <1>2, <1>3, <1>4 DEF Main, MainGoesOn, StopStep

(* A client does nothing to the server thread but by what it sends.        *)
LEMMA ClientsLeaveServer ==
    ClientNext => UNCHANGED <<server, posted>>
BY DEF ClientNext, Connect, Send, Deliver, HangUp

(* The server thread does nothing unless it runs.                          *)
LEMMA ServerTurns == ServerNext => server = "running"
BY DEF ServerNext, serverLoop, Serve, serverEnds, serverFails

LEMMA NextKeepsClients == ServerHasClients /\ [Next]_vars => ServerHasClients'
<1> SUFFICES ASSUME ServerHasClients, [Next]_vars PROVE ServerHasClients'
  OBVIOUS
<1>1. CASE Main
  BY <1>1, MainKeepsClients
<1>2. CASE CommandRunner \/ SigStop
  BY <1>2 DEF CommandRunner, SigStop, serverVars, ServerHasClients
<1>3. CASE ClientNext /\ UNCHANGED mainVars
  BY <1>3, ClientsLeaveServer DEF mainVars, ServerHasClients
<1>4. CASE ServerNext /\ UNCHANGED mainVars
  BY <1>4, ServerTurns DEF mainVars, ServerHasClients
<1>5. CASE UNCHANGED vars
  BY <1>5 DEF vars, serverVars, mainVars, ServerHasClients
<1>6. QED
  BY <1>1, <1>2, <1>3, <1>4, <1>5 DEF Next, Done

(* Main posts nothing, and the server thread posts only while it runs.     *)
LEMMA PostsWithClients ==
    ServerHasClients /\ [Next]_vars => (posted' # posted => clients)
<1> SUFFICES ASSUME ServerHasClients, [Next]_vars, posted' # posted PROVE clients
  OBVIOUS
<1>1. ~Main
  BY DEF Main, MainGoesOn, MakeWindow, ConnectWindow, Activate, EventLoop, Deactivate,
         Disconnect, Release, Stop, DocsStopped, SettingsSaved, WorkerJoined, WorkerFaults, Reset,
         serverVars
<1>2. ~CommandRunner /\ ~SigStop /\ ~UNCHANGED vars
  BY DEF CommandRunner, SigStop, vars, serverVars
<1>3. ~ClientNext
  BY ClientsLeaveServer
<1>4. ServerNext
  BY <1>1, <1>2, <1>3 DEF Next, Done
<1>5. QED
  BY <1>4, ServerTurns DEF ServerHasClients

-----------------------------------------------------------------------------

LEMMA ClientsInvariant == Init /\ [][Next]_vars => []ServerHasClients
<1>1. Init => ServerHasClients
  BY DEF Init, ServerInit, ServerHasClients
<1>2. QED
  BY <1>1, NextKeepsClients, PTL

(* A click, a resize or a tool of a panel is posted through a part only    *)
(* while the window holds the parts: after they are given, before they are *)
(* let go, whatever connections are open and requests under way.           *)
THEOREM EventsReachHeldParts == Spec => PostsReachClients
<1>1. Spec => Init /\ [][Next]_vars
  BY DEF Spec
<1>2. QED
  BY <1>1, ClientsInvariant, PostsWithClients, PTL DEF PostsReachClients

-----------------------------------------------------------------------------
(* Slices of a sequence                                                    *)

(* A set of numbers that is not empty has a least one.                     *)
LEMMA Least ==
    ASSUME NEW T \in SUBSET Nat, T # {}
    PROVE  \E x \in T : \A y \in T : x <= y
<1> DEFINE R == OpToRel(<, Nat)
<1>1. IsWellFoundedOn(R, Nat)
  BY NatLessThanWellFounded
<1>2. \A y \in Nat, x \in Nat : <<y, x>> \in R <=> y < x
  BY DEF OpToRel
<1> HIDE DEF R
<1>3. PICK x \in T : \A y \in T : ~ (<<y, x>> \in R)
  BY <1>1, WFMin
<1>4. ASSUME NEW y \in T PROVE x <= y
  <2>1. x \in Nat /\ y \in Nat
    OBVIOUS
  <2>2. ~ (<<y, x>> \in R)
    BY <1>3
  <2>3. ~ (y < x)
    BY <1>2, <2>1, <2>2
  <2> QED
    BY <2>1, <2>3
<1> QED
  BY <1>4

LEMMA SameSeq ==
    ASSUME NEW E, NEW a \in Seq(E), NEW b \in Seq(E), Len(a) = Len(b),
           \A i \in 1..Len(a) : a[i] = b[i]
    PROVE  a = b
OBVIOUS

LEMMA TailOf ==
    ASSUME NEW E, NEW a \in Seq(E), NEW n \in 0..Len(a), NEW c, c = SubSeq(a, n + 1, Len(a))
    PROVE  c \in Seq(E) /\ Len(c) = Len(a) - n /\ \A i \in 1..Len(a) - n : c[i] = a[n + i]
OBVIOUS

IsConcat(c, a, b) == c = a \o b

Joined(E, c, a, b) == /\ c \in Seq(E) /\ Len(c) = Len(a) + Len(b)
                      /\ \A i \in 1..Len(a) : c[i] = a[i]
                      /\ \A i \in 1..Len(b) : c[Len(a) + i] = b[i]

LEMMA ConcatIs ==
    ASSUME NEW E, NEW a \in Seq(E), NEW b \in Seq(E), NEW c, IsConcat(c, a, b)
    PROVE  Joined(E, c, a, b)
BY DEF IsConcat, Joined

(* What follows the first j elements of t, up to the one with index b.     *)
Slice(t, j, b) == SubSeq(t, j + 1, b)

Sliced(E, t, j, b, s) == /\ s \in Seq(E) /\ Len(s) = b - j
                         /\ \A i \in 1..b - j : s[i] = t[j + i]

LEMMA SliceIs ==
    ASSUME NEW E, NEW t \in Seq(E), NEW j \in Nat, NEW b \in Nat, j <= b, b <= Len(t)
    PROVE  Sliced(E, t, j, b, Slice(t, j, b))
BY DEF Slice, Sliced

LEMMA SliceUnique ==
    ASSUME NEW E, NEW t \in Seq(E), NEW j \in Nat, NEW b \in Nat, j <= b, b <= Len(t),
           NEW s, Sliced(E, t, j, b, s)
    PROVE  s = Slice(t, j, b)
<1>1. PICK w : w = Slice(t, j, b) /\ Sliced(E, t, j, b, w)
  BY SliceIs
<1>2. w \in Seq(E) /\ s \in Seq(E) /\ Len(w) = Len(s)
  BY <1>1 DEF Sliced
<1>3. \A i \in 1..Len(w) : w[i] = s[i]
  BY <1>1 DEF Sliced
<1> QED
  BY <1>1, <1>2, <1>3, SameSeq

LEMMA SliceEmpty ==
    ASSUME NEW E, NEW t \in Seq(E), NEW j \in Nat, j <= Len(t)
    PROVE  Slice(t, j, j) = <<>>
<1>1. PICK w : w = Slice(t, j, j) /\ Sliced(E, t, j, j, w)
  BY SliceIs
<1> QED
  BY <1>1 DEF Sliced

LEMMA SliceFilled ==
    ASSUME NEW E, NEW t \in Seq(E), NEW j \in Nat, NEW b \in Nat, j < b, b <= Len(t)
    PROVE  Slice(t, j, b) # <<>>
<1>1. PICK w : w = Slice(t, j, b) /\ Sliced(E, t, j, b, w)
  BY SliceIs
<1> QED
  BY <1>1 DEF Sliced

(* The beginning, and what is left, of a slice.                            *)
TakenFrom(t, j, n, b) == SubSeq(Slice(t, j, b), 1, n) = Slice(t, j, j + n)

LEMMA SliceTaken ==
    ASSUME NEW E, NEW t \in Seq(E), NEW j \in Nat, NEW n \in Nat, NEW b \in Nat,
           j + n <= b, b <= Len(t)
    PROVE  TakenFrom(t, j, n, b)
<1>1. PICK w : w = Slice(t, j, b) /\ Sliced(E, t, j, b, w)
  BY SliceIs
<1>3. PICK v : v = SubSeq(w, 1, n)
  OBVIOUS
<1>4. w \in Seq(E) /\ Len(w) = b - j
  BY <1>1 DEF Sliced
<1>5. v \in Seq(E) /\ Len(v) = n /\ \A i \in 1..n : v[i] = w[i]
  BY <1>3, <1>4
<1>6. Sliced(E, t, j, j + n, v)
  BY <1>1, <1>5 DEF Sliced
<1>7. v = Slice(t, j, j + n)
  BY <1>6, SliceUnique
<1> QED
  BY <1>1, <1>3, <1>7 DEF TakenFrom

LEMMA SliceDropped ==
    ASSUME NEW E, NEW t \in Seq(E), NEW j \in Nat, NEW m \in Nat, NEW b \in Nat,
           j <= m, m <= b, b <= Len(t)
    PROVE  \A n : n = m - j => Drop(Slice(t, j, b), n) = Slice(t, m, b)
<1>1. PICK w : w = Slice(t, j, b) /\ Sliced(E, t, j, b, w)
  BY SliceIs
<1>2. PICK n \in Nat : n = m - j /\ n <= b - j
  OBVIOUS
<1>3. PICK v : v = SubSeq(w, n + 1, Len(w))
  OBVIOUS
<1>4. w \in Seq(E) /\ Len(w) = b - j
  BY <1>1 DEF Sliced
<1>5. v \in Seq(E) /\ Len(v) = b - j - n /\ \A i \in 1..b - j - n : v[i] = w[n + i]
  <2>1. v \in Seq(E) /\ Len(v) = Len(w) - n /\ \A i \in 1..Len(w) - n : v[i] = w[n + i]
    BY <1>2, <1>3, <1>4, TailOf
  <2> QED
    BY <1>4, <2>1
<1>6. Sliced(E, t, m, b, v)
  <2>1. b - j - n = b - m
    BY <1>2
  <2>2. ASSUME NEW i \in 1..b - m PROVE v[i] = t[m + i]
    <3>1. n + i \in 1..b - j /\ j + (n + i) = m + i
      BY <1>2
    <3>2. w[n + i] = t[j + (n + i)]
      BY <1>1, <3>1 DEF Sliced
    <3> QED
      BY <1>5, <2>1, <3>1, <3>2
  <2> QED
    BY <1>5, <2>1, <2>2 DEF Sliced
<1>7. v = Slice(t, m, b)
  BY <1>6, SliceUnique
<1> QED
  BY <1>1, <1>2, <1>3, <1>7 DEF Drop

(* Two slices that meet.                                                   *)
Meet(t, j, m, b) == Slice(t, j, m) \o Slice(t, m, b) = Slice(t, j, b)

LEMMA SlicesMeet ==
    ASSUME NEW E, NEW t \in Seq(E), NEW j \in Nat, NEW m \in Nat, NEW b \in Nat,
           j <= m, m <= b, b <= Len(t)
    PROVE  Meet(t, j, m, b)
<1>1. PICK u : u = Slice(t, j, m) /\ Sliced(E, t, j, m, u)
  BY SliceIs
<1>2. PICK v : v = Slice(t, m, b) /\ Sliced(E, t, m, b, v)
  BY SliceIs
<1>3. PICK w : IsConcat(w, u, v)
  BY DEF IsConcat
<1>4. u \in Seq(E) /\ v \in Seq(E) /\ Len(u) = m - j /\ Len(v) = b - m
  BY <1>1, <1>2 DEF Sliced
<1>5. /\ w \in Seq(E) /\ Len(w) = (m - j) + (b - m)
      /\ \A i \in 1..m - j : w[i] = u[i]
      /\ \A i \in 1..b - m : w[(m - j) + i] = v[i]
  <2>1. /\ w \in Seq(E) /\ Len(w) = Len(u) + Len(v)
        /\ \A i \in 1..Len(u) : w[i] = u[i]
        /\ \A i \in 1..Len(v) : w[Len(u) + i] = v[i]
    <3>1. Joined(E, w, u, v)
      BY <1>3, <1>4, ConcatIs, Zenon
    <3> QED
      BY <3>1 DEF Joined
  <2> QED
    BY <1>4, <2>1
<1>6. ASSUME NEW i \in 1..b - j PROVE w[i] = t[j + i]
  <2>1. CASE i \in 1..m - j
    BY <1>1, <1>5, <2>1 DEF Sliced
  <2>2. CASE i \notin 1..m - j
    <3>1. PICK k \in 1..b - m : i = (m - j) + k
      <4>1. i - (m - j) \in 1..b - m /\ i = (m - j) + (i - (m - j))
        BY <2>2
      <4> QED
        BY <4>1
    <3>2. v[k] = t[m + k] /\ j + i = m + k
      BY <1>2, <3>1 DEF Sliced
    <3> QED
      BY <1>5, <3>1, <3>2
  <2> QED
    BY <2>1, <2>2
<1>7. Sliced(E, t, j, b, w)
  BY <1>5, <1>6 DEF Sliced
<1>8. w = Slice(t, j, b)
  BY <1>7, SliceUnique
<1> QED
  BY <1>1, <1>2, <1>3, <1>8 DEF IsConcat, Meet

-----------------------------------------------------------------------------
(* The parser                                                              *)

LEMMA BeforeIs ==
    ASSUME NEW s, Len(s) \in Nat, NEW stops, NEW n \in 0..Len(s), \A i \in 1..n : s[i] \notin stops,
           n < Len(s) => s[n + 1] \in stops
    PROVE  Before(s, stops) = n
<1> DEFINE Is(k) == (\A i \in 1..k : s[i] \notin stops) /\ (k < Len(s) => s[k + 1] \in stops)
<1>1. ASSUME NEW k \in 0..Len(s), Is(k) PROVE k = n
  <2>1. ~ (k < n)
    <3> SUFFICES ASSUME k < n PROVE FALSE
      OBVIOUS
    <3>1. k + 1 \in 1..n /\ k < Len(s)
      OBVIOUS
    <3> QED
      BY <1>1, <3>1
  <2>2. ~ (n < k)
    <3> SUFFICES ASSUME n < k PROVE FALSE
      OBVIOUS
    <3>1. n + 1 \in 1..k /\ n < Len(s)
      OBVIOUS
    <3> QED
      BY <1>1, <3>1
  <2> QED
    BY <2>1, <2>2
<1>2. Is(n)
  OBVIOUS
<1>3. Before(s, stops) = CHOOSE k \in 0..Len(s) : Is(k)
  BY Zenon DEF Before
<1> HIDE DEF Is
<1> QED
  BY <1>1, <1>2, <1>3

LEMMA SkipWhiteIs ==
    ASSUME NEW s, Len(s) \in Nat, NEW n \in 0..Len(s), \A i \in 1..n : s[i] \in White,
           n < Len(s) => s[n + 1] \notin White
    PROVE  SkipWhite(s) = Drop(s, n)
<1> DEFINE Is(k) == (\A i \in 1..k : s[i] \in White) /\ (k < Len(s) => s[k + 1] \notin White)
<1>1. ASSUME NEW k \in 0..Len(s), Is(k) PROVE k = n
  <2>1. ~ (k < n)
    <3> SUFFICES ASSUME k < n PROVE FALSE
      OBVIOUS
    <3>1. k + 1 \in 1..n /\ k < Len(s)
      OBVIOUS
    <3> QED
      BY <1>1, <3>1
  <2>2. ~ (n < k)
    <3> SUFFICES ASSUME n < k PROVE FALSE
      OBVIOUS
    <3>1. n + 1 \in 1..k /\ n < Len(s)
      OBVIOUS
    <3> QED
      BY <1>1, <3>1
  <2> QED
    BY <2>1, <2>2
<1>2. Is(n)
  OBVIOUS
<1>3. SkipWhite(s) = Drop(s, CHOOSE k \in 0..Len(s) : Is(k))
  BY Zenon DEF SkipWhite
<1> HIDE DEF Is
<1> QED
  BY <1>1, <1>2, <1>3

(* The word of t after the first s elements, which ends at e, and the      *)
(* white space after it, which ends at w.                                  *)
IsWord(t, s, e, w) ==
    /\ s \in Nat /\ e \in Nat /\ w \in Nat /\ s <= e /\ e < w /\ w < Len(t)
    /\ \A i \in s + 1..e : t[i] \notin White
    /\ \A i \in e + 1..w : t[i] \in White
    /\ t[w + 1] \notin White

(* A word of which the parser has some already: what it has afterwards,    *)
(* and what it does once it has seen white space.                          *)
WordKept(q, n, t, s, b) == n = [q EXCEPT !.working = Slice(t, s, b), !.in = <<>>]

WordTaken(q, n, t, s, e, v, b, field, next) ==
    n = [q EXCEPT ![field] = Slice(t, s, e), !.working = <<>>, !.state = next,
                  !.in = Slice(t, v, b)]

Least2(x, y) == IF x < y THEN x ELSE y

LEMMA WordTurn ==
    ASSUME NEW E, NEW t \in Seq(E), NEW s, NEW e, NEW w, IsWord(t, s, e, w),
           NEW j \in s..e, NEW b \in Nat, j <= b, b <= Len(t),
           NEW q, q.working = Slice(t, s, j), q.in = Slice(t, j, b),
           NEW field, NEW next
    PROVE  /\ b <= e => WordKept(q, FeedWord(q, field, next), t, s, b)
           /\ e < b => WordTaken(q, FeedWord(q, field, next), t, s, e, Least2(w, b), b, field, next)
<1>1. s \in Nat /\ e \in Nat /\ w \in Nat /\ s <= e /\ e < w /\ w < Len(t) /\ j \in Nat
  BY DEF IsWord
<1>2. PICK k \in Nat : k = Least2(e, b) /\ j <= k /\ k <= b /\ k <= e /\ (k < b => k = e)
  BY <1>1 DEF Least2
<1>3. PICK x : x = q.in /\ Sliced(E, t, j, b, x)
  BY <1>1, SliceIs
<1>4. x \in Seq(E) /\ Len(x) = b - j
  BY <1>3 DEF Sliced
<1>5. PICK n \in 0..Len(x) : n = k - j
  BY <1>1, <1>2, <1>4
<1>6. Before(x, White) = n
  <2>1. ASSUME NEW i \in 1..n PROVE x[i] \notin White
    <3>1. j + n = k /\ n \in Nat
      BY <1>1, <1>2, <1>5
    <3>2. i \in 1..b - j /\ j + i \in s + 1..e
      BY <1>1, <1>2, <3>1
    <3> QED
      BY <1>3, <3>2 DEF Sliced, IsWord
  <2>2. ASSUME n < Len(x) PROVE x[n + 1] \in White
    <3>1. j + n = k /\ n \in Nat /\ n < b - j
      BY <1>1, <1>2, <1>4, <1>5, <2>2
    <3>2. k = e
      BY <1>1, <1>2, <3>1
    <3>3. n + 1 \in 1..b - j /\ j + (n + 1) \in e + 1..w
      BY <1>1, <3>1, <3>2
    <3> QED
      BY <1>3, <3>3 DEF Sliced, IsWord
  <2> QED
    BY <1>4, <2>1, <2>2, BeforeIs
<1>7. q.working \o SubSeq(x, 1, n) = Slice(t, s, k)
  <2>1. SubSeq(Slice(t, j, b), 1, n) = Slice(t, j, k)
    <3>1. n \in Nat /\ j + n = k
      BY <1>1, <1>2, <1>5
    <3>2. SubSeq(Slice(t, j, b), 1, n) = Slice(t, j, j + n)
      <4>1. j \in Nat /\ j + n <= b
        BY <1>1, <1>2, <3>1
      <4>2. TakenFrom(t, j, n, b)
        BY <3>1, <4>1, SliceTaken, Zenon
      <4> QED
        BY <4>2 DEF TakenFrom
    <3> QED
      BY <3>1, <3>2
  <2>2. Slice(t, s, j) \o Slice(t, j, k) = Slice(t, s, k)
    <3>1. s <= j /\ j <= k /\ k <= Len(t)
      BY <1>1, <1>2
    <3>2. Meet(t, s, j, k)
      BY <1>1, <1>2, <3>1, SlicesMeet, Zenon
    <3> QED
      BY <3>2 DEF Meet
  <2> QED
    BY <1>3, <1>5, <2>1, <2>2
<1>8. Drop(x, n) = Slice(t, k, b)
  BY <1>1, <1>2, <1>3, <1>5, SliceDropped
<1>9. FeedWord(q, field, next) =
         IF Slice(t, k, b) = <<>>
         THEN [q EXCEPT !.working = Slice(t, s, k), !.in = <<>>]
         ELSE [q EXCEPT ![field] = Slice(t, s, k), !.working = <<>>, !.state = next,
                        !.in = SkipWhite(Slice(t, k, b))]
  BY <1>3, <1>6, <1>7, <1>8, Zenon DEF FeedWord
<1>10. ASSUME b <= e PROVE WordKept(q, FeedWord(q, field, next), t, s, b)
  <2>1. k = b
    BY <1>1, <1>2, <1>10
  <2>2. Slice(t, k, b) = <<>>
    BY <1>1, <2>1, SliceEmpty
  <2> QED
    BY <1>9, <2>1, <2>2, Zenon DEF WordKept
<1>11. ASSUME e < b
       PROVE WordTaken(q, FeedWord(q, field, next), t, s, e, Least2(w, b), b, field, next)
  <2>1. k = e
    BY <1>1, <1>2, <1>11
  <2>2. Slice(t, k, b) # <<>>
    BY <1>1, <1>11, <2>1, SliceFilled
  <2>3. PICK v \in Nat : v = Least2(w, b) /\ e < v /\ v <= b /\ v <= w /\ (v < b => v = w)
    BY <1>1, <1>11 DEF Least2
  <2>4. PICK y : y = Slice(t, e, b) /\ Sliced(E, t, e, b, y)
    BY <1>1, <1>11, SliceIs
  <2>5. y \in Seq(E) /\ Len(y) = b - e
    BY <2>4 DEF Sliced
  <2>6. PICK g \in 0..Len(y) : g = v - e
    BY <1>1, <2>3, <2>5
  <2>7. SkipWhite(y) = Drop(y, g)
    <3>1. ASSUME NEW i \in 1..g PROVE y[i] \in White
      <4>1. i \in 1..b - e /\ e + i \in e + 1..w
        <5>1. e + g = v /\ g \in Nat
          BY <1>1, <2>3, <2>6
        <5> QED
          BY <1>1, <2>3, <5>1
      <4> QED
        BY <2>4, <4>1 DEF Sliced, IsWord
    <3>2. ASSUME g < Len(y) PROVE y[g + 1] \notin White
      <4>1. e + g = v /\ g \in Nat /\ g < b - e
        <5>1. g < b - e
          BY <2>5, <3>2
        <5>2. g = v - e
          BY <2>6
        <5> QED
          BY <1>1, <2>3, <5>1, <5>2
      <4>2. v = w
        BY <1>1, <2>3, <4>1
      <4>3. g + 1 \in 1..b - e /\ e + (g + 1) = w + 1
        BY <1>1, <4>1, <4>2
      <4> QED
        BY <2>4, <4>3 DEF Sliced, IsWord
    <3> QED
      BY <2>5, <3>1, <3>2, SkipWhiteIs
  <2>8. Drop(y, g) = Slice(t, v, b)
    BY <1>1, <2>3, <2>4, <2>6, SliceDropped
  <2> QED
    BY <1>9, <2>1, <2>2, <2>3, <2>4, <2>7, <2>8, Zenon DEF WordTaken
<1> QED
  BY <1>10, <1>11

(* The line of t after the first s elements, whose end follows e.          *)
IsLine(t, s, e) ==
    /\ s \in Nat /\ e \in Nat /\ s <= e /\ e + 2 <= Len(t)
    /\ \A i \in s + 1..e : t[i] \notin {CR, LF}
    /\ t[e + 1] = CR /\ t[e + 2] = LF

(* A line of which the parser has some already: what it has when the piece *)
(* does not hold the whole of its end, and when it does.                   *)
LineKept(q, n, t, s, k, b) == n = [q EXCEPT !.working = Slice(t, s, k), !.in = Slice(t, k, b)]

LineTaken(q, n, t, s, e, b) ==
    IF s = e THEN n = [q EXCEPT !.in = Slice(t, e + 2, b), !.state = "kComplete"]
    ELSE n = [q EXCEPT !.in = Slice(t, e + 2, b), !.headers = @ \cup {Slice(t, s, e)},
                       !.working = <<>>]

LEMMA HeaderTurn ==
    ASSUME NEW E, NEW t \in Seq(E), NEW s, NEW e, IsLine(t, s, e),
           NEW j \in s..e, NEW b \in Nat, j <= b, b <= Len(t),
           NEW q, q.working = Slice(t, s, j), q.in = Slice(t, j, b)
    PROVE  /\ b < e + 2 => LineKept(q, feedHeader(q), t, s, Least2(e, b), b)
           /\ e + 2 <= b => LineTaken(q, feedHeader(q), t, s, e, b)
<1>1. s \in Nat /\ e \in Nat /\ s <= e /\ e + 2 <= Len(t) /\ j \in Nat
  BY DEF IsLine
<1>2. PICK k \in Nat : k = Least2(e, b) /\ j <= k /\ k <= b /\ k <= e /\ (k < b => k = e)
  BY <1>1 DEF Least2
<1>3. PICK x : x = q.in /\ Sliced(E, t, j, b, x)
  BY <1>1, SliceIs
<1>4. x \in Seq(E) /\ Len(x) = b - j
  BY <1>3 DEF Sliced
<1>5. PICK n \in 0..Len(x) : n = k - j
  BY <1>1, <1>2, <1>4
<1>6. Before(x, {CR, LF}) = n
  <2>1. ASSUME NEW i \in 1..n PROVE x[i] \notin {CR, LF}
    <3>1. j + n = k /\ n \in Nat
      BY <1>1, <1>2, <1>5
    <3>2. i \in 1..b - j /\ j + i \in s + 1..e
      BY <1>1, <1>2, <3>1
    <3> QED
      BY <1>3, <3>2 DEF Sliced, IsLine
  <2>2. ASSUME n < Len(x) PROVE x[n + 1] \in {CR, LF}
    <3>1. n + 1 \in 1..b - j /\ j + (n + 1) = e + 1
      <4>1. n < b - j
        BY <1>4, <2>2
      <4>2. k < b
        BY <1>1, <1>2, <1>5, <4>1
      <4>3. k = e
        BY <1>2, <4>2
      <4> QED
        BY <1>1, <1>5, <4>1, <4>3
    <3> QED
      BY <1>3, <3>1 DEF Sliced, IsLine
  <2> QED
    BY <1>4, <2>1, <2>2, BeforeIs
<1>7. q.working \o SubSeq(x, 1, n) = Slice(t, s, k)
  <2>1. SubSeq(Slice(t, j, b), 1, n) = Slice(t, j, k)
    <3>1. n \in Nat /\ j + n = k
      BY <1>1, <1>2, <1>5
    <3>2. SubSeq(Slice(t, j, b), 1, n) = Slice(t, j, j + n)
      <4>1. j \in Nat /\ j + n <= b
        BY <1>1, <1>2, <3>1
      <4>2. TakenFrom(t, j, n, b)
        BY <3>1, <4>1, SliceTaken, Zenon
      <4> QED
        BY <4>2 DEF TakenFrom
    <3> QED
      BY <3>1, <3>2
  <2>2. Slice(t, s, j) \o Slice(t, j, k) = Slice(t, s, k)
    <3>1. s <= j /\ j <= k /\ k <= Len(t)
      BY <1>1, <1>2
    <3>2. Meet(t, s, j, k)
      BY <1>1, <1>2, <3>1, SlicesMeet, Zenon
    <3> QED
      BY <3>2 DEF Meet
  <2> QED
    BY <1>3, <1>5, <2>1, <2>2
<1>8. PICK rest : rest = Slice(t, k, b) /\ Sliced(E, t, k, b, rest)
  BY <1>2, SliceIs
<1>9. rest \in Seq(E) /\ Len(rest) = b - k
  BY <1>8 DEF Sliced
<1>10. Drop(x, n) = rest
  BY <1>1, <1>2, <1>3, <1>5, <1>8, SliceDropped
<1>11. PICK line : line = Slice(t, s, k) /\ Sliced(E, t, s, k, line)
  <2>1. s \in Nat /\ k \in Nat /\ s <= k /\ k <= Len(t)
    BY <1>1, <1>2
  <2> QED
    BY <2>1, SliceIs
<1>12. feedHeader(q) =
          IF Len(rest) < 2 THEN [q EXCEPT !.working = line, !.in = rest]
          ELSE IF rest[1] # CR \/ rest[2] # LF
               THEN [q EXCEPT !.working = line, !.in = rest, !.state = "kError"]
               ELSE IF line = <<>>
                    THEN [q EXCEPT !.in = Drop(rest, 2), !.state = "kComplete"]
                    ELSE [q EXCEPT !.in = Drop(rest, 2), !.headers = @ \cup {line},
                                   !.working = <<>>]
  BY <1>3, <1>6, <1>7, <1>10, <1>11, Zenon DEF feedHeader
<1>13. ASSUME b < e + 2 PROVE LineKept(q, feedHeader(q), t, s, Least2(e, b), b)
  <2>1. Len(rest) < 2
    BY <1>1, <1>2, <1>9, <1>13
  <2> QED
    BY <1>2, <1>8, <1>11, <1>12, <2>1, Zenon DEF LineKept
<1>14. ASSUME e + 2 <= b PROVE LineTaken(q, feedHeader(q), t, s, e, b)
  <2>1. k = e /\ ~ (Len(rest) < 2) /\ 1 \in 1..b - k /\ 2 \in 1..b - k
    BY <1>1, <1>2, <1>9, <1>14
  <2>2. rest[1] = CR /\ rest[2] = LF
    BY <1>1, <1>8, <2>1 DEF Sliced, IsLine
  <2>3. Drop(rest, 2) = Slice(t, e + 2, b)
    <3>1. e \in Nat /\ e + 2 \in Nat /\ e <= e + 2 /\ 2 = (e + 2) - e
      BY <1>1
    <3> QED
      BY <1>8, <1>14, <2>1, <3>1, SliceDropped
  <2>4. line = <<>> <=> s = e
    <3>1. line = Slice(t, s, e) /\ s <= Len(t) /\ e <= Len(t)
      BY <1>1, <1>11, <2>1
    <3>2. s = e => line = <<>>
      BY <1>1, <3>1, SliceEmpty, Zenon
    <3>3. s # e => line # <<>>
      <4>1. s # e => s < e
        BY <1>1
      <4> QED
        BY <1>1, <3>1, <4>1, SliceFilled, Zenon
    <3> QED
      BY <3>2, <3>3
  <2>5. CASE s = e
    <3>1. feedHeader(q) = [q EXCEPT !.in = Drop(rest, 2), !.state = "kComplete"]
      BY <1>12, <2>1, <2>2, <2>4, <2>5, Zenon
    <3> QED
      BY <2>3, <2>5, <3>1, Zenon DEF LineTaken
  <2>6. CASE s # e
    <3>1. feedHeader(q) = [q EXCEPT !.in = Drop(rest, 2), !.headers = @ \cup {line},
                                    !.working = <<>>]
      BY <1>12, <2>1, <2>2, <2>4, <2>6, Zenon
    <3>2. line = Slice(t, s, e)
      BY <1>11, <2>1
    <3> QED
      BY <2>3, <2>6, <3>1, <3>2, Zenon DEF LineTaken
  <2> QED
    BY <2>5, <2>6
<1> QED
  BY <1>13, <1>14

-----------------------------------------------------------------------------
(* The text of a request                                                   *)

Symbols(r) == Elements(r.url) \cup {"GET", SP, "HTTP/1.1", CR, LF, "Host:", "keep-alive"}

HostLine == <<"Host:">>
KeepLine == <<"keep-alive">>

(* Where the lines of the text t of a request end whose address has m      *)
(* symbols.                                                                *)
Layout(r, t, m) ==
    /\ m \in Nat \ {0} /\ m = Len(r.url)
    /\ t \in Seq(Symbols(r))
    /\ t[1] = "GET" /\ t[2] = SP
    /\ \A i \in 1..m : t[2 + i] = r.url[i]
    /\ t[m + 3] = SP /\ t[m + 4] = "HTTP/1.1" /\ t[m + 5] = CR /\ t[m + 6] = LF
    /\ t[m + 7] = "Host:" /\ t[m + 8] = CR /\ t[m + 9] = LF
    /\ r.keep => /\ Len(t) = m + 14 /\ t[m + 10] = "keep-alive" /\ t[m + 11] = CR
                 /\ t[m + 12] = LF /\ t[m + 13] = CR /\ t[m + 14] = LF
    /\ ~r.keep => Len(t) = m + 11 /\ t[m + 10] = CR /\ t[m + 11] = LF

LEMMA TextLayout ==
    ASSUME NEW r \in Requests
    PROVE  Layout(r, Text(r), Len(r.url))
<1> DEFINE E == Symbols(r)
           m == Len(r.url)
<1>1. r.keep \in BOOLEAN /\ r.url \in Seq(Elements(r.url)) /\ r.url # <<>>
  BY ServerAssumption DEF ServerAssumption, IsSeq
<1>2. r.url \in Seq(E) /\ m \in Nat \ {0}
  BY <1>1 DEF Symbols
<1>3. PICK a : a = <<"GET", SP>>
  OBVIOUS
<1>4. PICK c : c = <<SP, "HTTP/1.1", CR, LF, "Host:", CR, LF>>
  OBVIOUS
<1>5. PICK d : d = IF r.keep THEN <<"keep-alive", CR, LF>> ELSE <<>>
  OBVIOUS
<1>6. PICK f : f = <<CR, LF>>
  OBVIOUS
<1>7. a \in Seq(E) /\ Len(a) = 2 /\ a[1] = "GET" /\ a[2] = SP
  BY <1>3 DEF Symbols
<1>8. /\ c \in Seq(E) /\ Len(c) = 7 /\ c[1] = SP /\ c[2] = "HTTP/1.1" /\ c[3] = CR
      /\ c[4] = LF /\ c[5] = "Host:" /\ c[6] = CR /\ c[7] = LF
  BY <1>4 DEF Symbols
<1>9. /\ d \in Seq(E)
      /\ r.keep => Len(d) = 3 /\ d[1] = "keep-alive" /\ d[2] = CR /\ d[3] = LF
      /\ ~r.keep => Len(d) = 0
  <2>1. CASE r.keep
    <3>1. d = <<"keep-alive", CR, LF>>
      BY <1>5, <2>1
    <3> QED
      BY <2>1, <3>1 DEF Symbols
  <2>2. CASE ~r.keep
    <3>1. d = <<>>
      BY <1>5, <2>2
    <3> QED
      BY <2>2, <3>1
  <2> QED
    BY <2>1, <2>2
<1>10. f \in Seq(E) /\ Len(f) = 2 /\ f[1] = CR /\ f[2] = LF
  BY <1>6 DEF Symbols
<1>11. PICK u, v, w, t : /\ IsConcat(u, a, r.url) /\ IsConcat(v, u, c)
                         /\ IsConcat(w, v, d) /\ IsConcat(t, w, f)
  BY DEF IsConcat
<1>12. Text(r) = t
  BY <1>3, <1>4, <1>5, <1>6, <1>11, Zenon DEF Text, IsConcat
<1> HIDE DEF E, m
<1>13. Joined(E, u, a, r.url)
  BY <1>2, <1>7, <1>11, ConcatIs, Zenon
<1>14. u \in Seq(E)
  BY <1>13 DEF Joined
<1>15. Joined(E, v, u, c)
  BY <1>8, <1>11, <1>14, ConcatIs, Zenon
<1>16. v \in Seq(E)
  BY <1>15 DEF Joined
<1>17. Joined(E, w, v, d)
  BY <1>9, <1>11, <1>16, ConcatIs, Zenon
<1>18. w \in Seq(E)
  BY <1>17 DEF Joined
<1>19. Joined(E, t, w, f)
  BY <1>10, <1>11, <1>18, ConcatIs, Zenon
<1>20. Len(u) = m + 2 /\ u[1] = "GET" /\ u[2] = SP /\ \A i \in 1..m : u[2 + i] = r.url[i]
  BY <1>7, <1>13 DEF Joined, m
<1>21. /\ Len(v) = m + 9 /\ v[1] = "GET" /\ v[2] = SP
       /\ \A i \in 1..m : v[2 + i] = r.url[i]
       /\ v[m + 3] = SP /\ v[m + 4] = "HTTP/1.1" /\ v[m + 5] = CR /\ v[m + 6] = LF
       /\ v[m + 7] = "Host:" /\ v[m + 8] = CR /\ v[m + 9] = LF
  <2>1. Len(v) = m + 9 /\ \A i \in 1..m + 2 : v[i] = u[i]
    BY <1>2, <1>8, <1>15, <1>20 DEF Joined
  <2>2. \A i \in 1..7 : v[(m + 2) + i] = c[i]
    BY <1>8, <1>15, <1>20 DEF Joined
  <2>3. v[1] = "GET" /\ v[2] = SP /\ \A i \in 1..m : v[2 + i] = r.url[i]
    BY <1>2, <1>20, <2>1
  <2>4. /\ v[(m + 2) + 1] = SP /\ v[(m + 2) + 2] = "HTTP/1.1" /\ v[(m + 2) + 3] = CR
        /\ v[(m + 2) + 4] = LF /\ v[(m + 2) + 5] = "Host:" /\ v[(m + 2) + 6] = CR
        /\ v[(m + 2) + 7] = LF
    BY <1>8, <2>2
  <2> QED
    BY <1>2, <2>1, <2>3, <2>4
<1>22. /\ Len(w) = m + 9 + Len(d) /\ \A i \in 1..m + 9 : w[i] = v[i]
       /\ \A i \in 1..Len(d) : w[(m + 9) + i] = d[i]
  BY <1>2, <1>9, <1>17, <1>21 DEF Joined
<1>23. /\ Len(t) = m + 11 + Len(d) /\ \A i \in 1..m + 9 + Len(d) : t[i] = w[i]
       /\ \A i \in 1..2 : t[(m + 9 + Len(d)) + i] = f[i]
  BY <1>2, <1>9, <1>10, <1>19, <1>22 DEF Joined
<1>24. Len(d) \in Nat
  BY <1>9
<1>25. \A i \in 1..m + 9 : t[i] = v[i]
  BY <1>2, <1>22, <1>23, <1>24
<1>26. /\ t[1] = "GET" /\ t[2] = SP /\ \A i \in 1..m : t[2 + i] = r.url[i]
       /\ t[m + 3] = SP /\ t[m + 4] = "HTTP/1.1" /\ t[m + 5] = CR /\ t[m + 6] = LF
       /\ t[m + 7] = "Host:" /\ t[m + 8] = CR /\ t[m + 9] = LF
  BY <1>2, <1>21, <1>25
<1>27. r.keep => /\ Len(t) = m + 14 /\ t[m + 10] = "keep-alive" /\ t[m + 11] = CR
                 /\ t[m + 12] = LF /\ t[m + 13] = CR /\ t[m + 14] = LF
  <2> SUFFICES ASSUME r.keep
               PROVE /\ Len(t) = m + 14 /\ t[m + 10] = "keep-alive" /\ t[m + 11] = CR
                     /\ t[m + 12] = LF /\ t[m + 13] = CR /\ t[m + 14] = LF
    OBVIOUS
  <2>1. Len(d) = 3
    BY <1>9
  <2>2. w[(m + 9) + 1] = "keep-alive" /\ w[(m + 9) + 2] = CR /\ w[(m + 9) + 3] = LF
    BY <1>9, <1>22, <2>1
  <2>3. \A i \in 1..m + 12 : t[i] = w[i]
    BY <1>2, <1>23, <2>1
  <2>4. t[m + 12 + 1] = CR /\ t[m + 12 + 2] = LF
    BY <1>2, <1>10, <1>23, <2>1
  <2> QED
    BY <1>2, <1>23, <2>1, <2>2, <2>3, <2>4
<1>28. ~r.keep => Len(t) = m + 11 /\ t[m + 10] = CR /\ t[m + 11] = LF
  <2> SUFFICES ASSUME ~r.keep PROVE Len(t) = m + 11 /\ t[m + 10] = CR /\ t[m + 11] = LF
    OBVIOUS
  <2>1. Len(d) = 0
    BY <1>9
  <2> QED
    BY <1>2, <1>10, <1>23, <2>1
<1>29. t \in Seq(E)
  BY <1>19 DEF Joined
<1> QED
  BY <1>2, <1>12, <1>26, <1>27, <1>28, <1>29, Zenon DEF Layout, E, m

LEMMA TextWords ==
    ASSUME NEW r \in Requests, NEW t, NEW m, Layout(r, t, m)
    PROVE  /\ IsWord(t, 0, 1, 2) /\ IsWord(t, 2, m + 2, m + 3) /\ IsWord(t, m + 3, m + 4, m + 6)
           /\ Slice(t, 2, m + 2) = r.url
<1>1. m \in Nat \ {0} /\ m = Len(r.url) /\ t \in Seq(Symbols(r)) /\ Len(t) > m + 9
  <2>1. r.keep \in BOOLEAN
    BY ServerAssumption DEF ServerAssumption
  <2> QED
    BY <2>1 DEF Layout
<1>2. r.url \in Seq(Elements(r.url)) /\ \A i \in DOMAIN r.url : r.url[i] \notin White
  BY ServerAssumption DEF ServerAssumption, IsSeq, Elements
<1>3. t[1] \notin White /\ t[2] \in White
  BY DEF Layout, White, SP, CR, LF
<1>4. t[m + 3] \in White /\ t[m + 5] \in White /\ t[m + 6] \in White
  BY DEF Layout, White, SP, CR, LF
<1>5. t[m + 4] \notin White /\ t[m + 7] \notin White
  BY DEF Layout, White, SP, CR, LF
<1>6. \A i \in 1..m : t[2 + i] = r.url[i] /\ t[2 + i] \notin White
  <2>1. DOMAIN r.url = 1..m
    BY <1>1, <1>2
  <2>2. \A i \in 1..m : t[2 + i] = r.url[i]
    BY DEF Layout
  <2> QED
    BY <1>2, <2>1, <2>2
<1>7. \A i \in 2 + 1..m + 2 : t[i] \notin White
  <2> TAKE i \in 2 + 1..m + 2
  <2>1. i - 2 \in 1..m /\ 2 + (i - 2) = i
    BY <1>1
  <2> QED
    BY <1>6, <2>1
<1>8. IsWord(t, 0, 1, 2)
  <2>1. t[2 + 1] \notin White
    BY <1>1, <1>6
  <2> QED
    BY <1>1, <1>3, <2>1 DEF IsWord
<1>9. IsWord(t, 2, m + 2, m + 3)
  <2>1. m + 2 \in Nat /\ m + 3 \in Nat /\ 2 <= m + 2 /\ m + 2 < m + 3 /\ m + 3 < Len(t)
    BY <1>1
  <2>2. \A i \in (m + 2) + 1..m + 3 : i = m + 3
    BY <1>1
  <2>3. (m + 3) + 1 = m + 4
    BY <1>1
  <2> QED
    BY <1>4, <1>5, <1>7, <2>1, <2>2, <2>3 DEF IsWord
<1>10. IsWord(t, m + 3, m + 4, m + 6)
  <2>1. /\ m + 3 \in Nat /\ m + 4 \in Nat /\ m + 6 \in Nat /\ m + 3 <= m + 4
        /\ m + 4 < m + 6 /\ m + 6 < Len(t)
    BY <1>1
  <2>2. \A i \in (m + 3) + 1..m + 4 : i = m + 4
    BY <1>1
  <2>3. \A i \in (m + 4) + 1..m + 6 : i = m + 5 \/ i = m + 6
    BY <1>1
  <2>4. (m + 6) + 1 = m + 7
    BY <1>1
  <2> QED
    BY <1>4, <1>5, <2>1, <2>2, <2>3, <2>4 DEF IsWord
<1>11. Slice(t, 2, m + 2) = r.url
  <2>1. r.url \in Seq(Symbols(r))
    BY <1>2 DEF Symbols
  <2>2. PICK a \in Nat : a = 2
    OBVIOUS
  <2>3. PICK b \in Nat : b = m + 2 /\ b - a = m /\ a <= b /\ b <= Len(t)
    BY <1>1, <2>2
  <2>4. Sliced(Symbols(r), t, a, b, r.url)
    BY <1>1, <1>6, <2>1, <2>2, <2>3 DEF Sliced
  <2>5. r.url = Slice(t, a, b)
    BY <1>1, <2>3, <2>4, SliceUnique
  <2> QED
    BY <2>2, <2>3, <2>5
<1> QED
  BY <1>8, <1>9, <1>10, <1>11

(* A slice of one symbol.                                                  *)
LEMMA SliceOfOne ==
    ASSUME NEW E, NEW t \in Seq(E), NEW j \in Nat, NEW b \in Nat, b = j + 1, b <= Len(t)
    PROVE  Len(Slice(t, j, b)) = 1 /\ Slice(t, j, b) = <<t[b]>>
<1>1. PICK w : w = Slice(t, j, b) /\ Sliced(E, t, j, b, w)
  BY SliceIs
<1>2. w \in Seq(E) /\ Len(w) = 1 /\ w[1] = t[b]
  BY <1>1 DEF Sliced
<1> QED
  BY <1>1, <1>2

LEMMA TextLines ==
    ASSUME NEW r \in Requests, NEW t, NEW m, Layout(r, t, m)
    PROVE  /\ IsLine(t, m + 6, m + 7) /\ Slice(t, m + 6, m + 7) = HostLine
           /\ r.keep => /\ IsLine(t, m + 9, m + 10) /\ Slice(t, m + 9, m + 10) = KeepLine
                        /\ IsLine(t, m + 12, m + 12) /\ Len(t) = m + 14
           /\ ~r.keep => IsLine(t, m + 9, m + 9) /\ Len(t) = m + 11
<1>1. m \in Nat /\ t \in Seq(Symbols(r)) /\ Len(t) \in Nat
  BY DEF Layout
<1>2. Len(t) >= m + 11
  <2>1. r.keep \in BOOLEAN
    BY ServerAssumption DEF ServerAssumption
  <2> QED
    BY <1>1, <2>1 DEF Layout
<1>3. IsLine(t, m + 6, m + 7)
  <2>1. \A i \in (m + 6) + 1..m + 7 : i = m + 7
    BY <1>1
  <2>2. t[m + 7] \notin {CR, LF} /\ t[(m + 7) + 1] = CR /\ t[(m + 7) + 2] = LF
    BY <1>1 DEF Layout, CR, LF
  <2> QED
    BY <1>1, <1>2, <2>1, <2>2 DEF IsLine
<1>4. Slice(t, m + 6, m + 7) = HostLine
  <2>1. m + 6 \in Nat /\ m + 7 \in Nat /\ m + 7 = (m + 6) + 1 /\ m + 7 <= Len(t)
    BY <1>1, <1>2
  <2>2. Slice(t, m + 6, m + 7) = <<t[m + 7]>>
    BY <1>1, <2>1, SliceOfOne
  <2> QED
    BY <2>2 DEF Layout, HostLine
<1>5. ASSUME r.keep
      PROVE /\ IsLine(t, m + 9, m + 10) /\ Slice(t, m + 9, m + 10) = KeepLine
            /\ IsLine(t, m + 12, m + 12) /\ Len(t) = m + 14
  <2>1. Len(t) = m + 14
    BY <1>5 DEF Layout
  <2>2. IsLine(t, m + 9, m + 10)
    <3>1. \A i \in (m + 9) + 1..m + 10 : i = m + 10
      BY <1>1
    <3>2. t[m + 10] \notin {CR, LF} /\ t[(m + 10) + 1] = CR /\ t[(m + 10) + 2] = LF
      <4>1. t[m + 10] = "keep-alive" /\ t[m + 11] = CR /\ t[m + 12] = LF
        BY <1>5 DEF Layout
      <4>2. (m + 10) + 1 = m + 11 /\ (m + 10) + 2 = m + 12
        BY <1>1
      <4> QED
        BY <4>1, <4>2 DEF CR, LF
    <3> QED
      BY <1>1, <2>1, <3>1, <3>2 DEF IsLine
  <2>3. Slice(t, m + 9, m + 10) = KeepLine
    <3>1. m + 9 \in Nat /\ m + 10 \in Nat /\ m + 10 = (m + 9) + 1 /\ m + 10 <= Len(t)
      BY <1>1, <1>2
    <3>2. Slice(t, m + 9, m + 10) = <<t[m + 10]>>
      BY <1>1, <3>1, SliceOfOne
    <3> QED
      BY <1>5, <3>2 DEF Layout, KeepLine
  <2>4. IsLine(t, m + 12, m + 12)
    <3>1. (m + 12) + 1..m + 12 = {}
      BY <1>1
    <3>2. t[(m + 12) + 1] = CR /\ t[(m + 12) + 2] = LF
      BY <1>1, <1>5 DEF Layout
    <3> QED
      BY <1>1, <2>1, <3>1, <3>2 DEF IsLine
  <2> QED
    BY <2>1, <2>2, <2>3, <2>4
<1>6. ASSUME ~r.keep PROVE IsLine(t, m + 9, m + 9) /\ Len(t) = m + 11
  <2>1. Len(t) = m + 11
    BY <1>6 DEF Layout
  <2>2. (m + 9) + 1..m + 9 = {}
    BY <1>1
  <2>3. t[(m + 9) + 1] = CR /\ t[(m + 9) + 2] = LF
    BY <1>1, <1>6 DEF Layout
  <2> QED
    BY <1>1, <2>1, <2>2, <2>3 DEF IsLine
<1> QED
  BY <1>3, <1>4, <1>5, <1>6

-----------------------------------------------------------------------------
(* What the parser has of a request                                        *)

ReqFields == {"state", "working", "method", "url", "version", "headers", "in"}

(* A word or line that begins after s and ends at e, of which the parser   *)
(* has what there is up to j.                                              *)
Within(q, t, s, e, j) == j \in s..e /\ q.working = Slice(t, s, j)

(* The lines of the head, as the parser takes them.                        *)
AtHeader(q, r, t, m, j) ==
    /\ q.state = "kHeader" /\ q.url = r.url
    /\ \/ q.headers = {} /\ j = m + 5 /\ q.working = <<>>
       \/ q.headers = {} /\ Within(q, t, m + 6, m + 7, j)
       \/ q.headers = {HostLine} /\ ~r.keep /\ Within(q, t, m + 9, m + 9, j)
       \/ q.headers = {HostLine} /\ r.keep /\ Within(q, t, m + 9, m + 10, j)
       \/ q.headers = {HostLine, KeepLine} /\ r.keep /\ Within(q, t, m + 12, m + 12, j)

(* The parser has the first j symbols of the text.                         *)
ReadTo(q, r, t, m, j) ==
    \/ q.state = "kMethod" /\ q.headers = {} /\ Within(q, t, 0, 1, j)
    \/ q.state = "kUrl" /\ q.headers = {} /\ Within(q, t, 2, m + 2, j)
    \/ /\ q.state = "kVersion" /\ q.headers = {} /\ q.url = r.url
       /\ Within(q, t, m + 3, m + 4, j)
    \/ AtHeader(q, r, t, m, j)

(* What feedHeader never takes: the first symbol of a line end that the    *)
(* piece after k ends with at b, or the second that is the whole piece.    *)
LineEndLeft(q, t, k, b) ==
    /\ q.state = "kHeader" /\ q.in = <<t[b]>> /\ k < b
    /\ t[b] = CR \/ (t[b] = LF /\ k = b - 1)

HeadersOf(r) == IF r.keep THEN {HostLine, KeepLine} ELSE {HostLine}

(* What turns of the loop make of the piece from k to b: they have taken   *)
(* it all, or at least what is before l.                                   *)
Fed(q, r, t, m, k, b, l) ==
    /\ DOMAIN q = ReqFields
    /\ \/ q.state = "kError"
       \/ q.state = "kComplete" /\ q.url = r.url /\ q.headers = HeadersOf(r) /\ b = Len(t)
       \/ LineEndLeft(q, t, k, b)
       \/ \E j \in 0..b : /\ ReadTo(q, r, t, m, j) /\ q.in = Slice(t, j, b)
                          /\ j = b \/ j >= l
                          /\ q.state = "kHeader" /\ j = m + 5 => j \in {k, b}

(* There is some of the piece left.                                        *)
Feeding(q, t, j, b) ==
    /\ DOMAIN q = ReqFields /\ j \in Nat /\ b \in Nat /\ j < b /\ b <= Len(t)
    /\ q.in = Slice(t, j, b)

LEMMA FedAll ==
    ASSUME NEW r, NEW t, NEW m, NEW k, NEW b \in Nat, NEW l, NEW q,
           DOMAIN q = ReqFields, ReadTo(q, r, t, m, b), q.in = Slice(t, b, b)
    PROVE  Fed(q, r, t, m, k, b, l)
<1>1. b \in 0..b /\ b \in {k, b}
  OBVIOUS
<1> QED
  BY <1>1 DEF Fed

LEMMA FedSome ==
    ASSUME NEW r, NEW t, NEW m, NEW k, NEW b \in Nat, NEW l, NEW q, NEW w \in 0..b, w >= l,
           DOMAIN q = ReqFields, ReadTo(q, r, t, m, w), q.in = Slice(t, w, b),
           q.state = "kHeader" => w # m + 5
    PROVE  Fed(q, r, t, m, k, b, l)
BY DEF Fed

LEMMA ThreeWords ==
    ASSUME NEW r \in Requests, NEW t, NEW m, Layout(r, t, m), NEW q, NEW j, NEW b,
           Feeding(q, t, j, b), q.headers = {}, NEW k, NEW l \in Nat, j >= l
    PROVE  /\ q.state = "kMethod" /\ Within(q, t, 0, 1, j) => Fed(feedMethod(q), r, t, m, k, b, l + 1)
           /\ q.state = "kUrl" /\ Within(q, t, 2, m + 2, j) => Fed(feedUrl(q), r, t, m, k, b, l + 1)
           /\ q.state = "kVersion" /\ q.url = r.url /\ Within(q, t, m + 3, m + 4, j)
                 => Fed(feedVersion(q), r, t, m, k, b, l + 1)
<1>1. /\ m \in Nat /\ t \in Seq(Symbols(r)) /\ Len(t) \in Nat /\ j \in Nat /\ b \in Nat
      /\ j < b /\ b <= Len(t) /\ DOMAIN q = ReqFields /\ q.in = Slice(t, j, b)
  BY DEF Layout, Feeding
<1>2. \A i \in 0..Len(t) : Slice(t, i, i) = <<>>
  BY <1>1, SliceEmpty
<1>3. ASSUME q.state = "kMethod", Within(q, t, 0, 1, j)
      PROVE  Fed(feedMethod(q), r, t, m, k, b, l + 1)
  <2>1. PICK s \in Nat, e \in Nat, w \in Nat : s = 0 /\ e = 1 /\ w = 2
    OBVIOUS
  <2>2. PICK field, next : field = "method" /\ next = "kUrl"
    OBVIOUS
  <2>3. IsWord(t, s, e, w) /\ j \in s..e /\ q.working = Slice(t, s, j) /\ j <= b
    BY <1>1, <1>3, <2>1, TextWords DEF Within
  <2>4. PICK n : n = FeedWord(q, field, next)
    OBVIOUS
  <2>5. feedMethod(q) = n
    BY <2>2, <2>4, Zenon DEF feedMethod
  <2>6. /\ b <= e => WordKept(q, n, t, s, b)
        /\ e < b => WordTaken(q, n, t, s, e, Least2(w, b), b, field, next)
    BY <1>1, <2>3, <2>4, WordTurn
  <2>7. CASE b <= e
    <3>1. n = [q EXCEPT !.working = Slice(t, s, b), !.in = <<>>]
      BY <2>6, <2>7 DEF WordKept
    <3>2. /\ DOMAIN n = ReqFields /\ n.state = "kMethod" /\ n.headers = {}
          /\ n.working = Slice(t, s, b) /\ n.in = <<>>
      BY <1>1, <1>3, <3>1 DEF ReqFields
    <3>3. ReadTo(n, r, t, m, b) /\ n.in = Slice(t, b, b)
      BY <1>1, <1>2, <2>1, <2>7, <3>2 DEF ReadTo, Within
    <3> QED
      BY <1>1, <2>5, <3>2, <3>3, FedAll
  <2>8. CASE ~ (b <= e)
    <3>1. Least2(w, b) = w /\ w <= b
      BY <1>1, <2>1, <2>8 DEF Least2
    <3>2. n = [q EXCEPT ![field] = Slice(t, s, e), !.working = <<>>, !.state = next,
                        !.in = Slice(t, w, b)]
      <4>1. e < b
        BY <1>1, <2>1, <2>8
      <4>2. WordTaken(q, n, t, s, e, w, b, field, next)
        BY <2>6, <3>1, <4>1
      <4> QED
        BY <4>2, Zenon DEF WordTaken
    <3>3. n = [q EXCEPT !.method = Slice(t, s, e), !.working = <<>>, !.state = "kUrl",
                        !.in = Slice(t, w, b)]
      BY <2>2, <3>2
    <3>4. /\ DOMAIN n = ReqFields /\ n.state = "kUrl" /\ n.headers = {}
          /\ n.working = <<>> /\ n.in = Slice(t, w, b)
      BY <1>1, <3>3 DEF ReqFields
    <3>5. ReadTo(n, r, t, m, w)
      <4>1. w \in 2..m + 2 /\ Slice(t, 2, w) = <<>>
        BY <1>1, <1>2, <2>1, <3>1
      <4> QED
        BY <3>4, <4>1 DEF ReadTo, Within
    <3>6. w \in 0..b /\ w >= l + 1
      BY <1>1, <2>1, <2>3, <3>1
    <3> QED
      BY <1>1, <2>5, <3>4, <3>5, <3>6, FedSome
  <2> QED
    BY <2>7, <2>8
<1>4. ASSUME q.state = "kUrl", Within(q, t, 2, m + 2, j)
      PROVE  Fed(feedUrl(q), r, t, m, k, b, l + 1)
  <2>1. PICK s \in Nat, e \in Nat, w \in Nat : s = 2 /\ e = m + 2 /\ w = m + 3
    BY <1>1
  <2>2. PICK field, next : field = "url" /\ next = "kVersion"
    OBVIOUS
  <2>3. IsWord(t, s, e, w) /\ j \in s..e /\ q.working = Slice(t, s, j) /\ j <= b
    BY <1>1, <1>4, <2>1, TextWords DEF Within
  <2>4. PICK n : n = FeedWord(q, field, next)
    OBVIOUS
  <2>5. feedUrl(q) = n
    BY <2>2, <2>4, Zenon DEF feedUrl
  <2>6. /\ b <= e => WordKept(q, n, t, s, b)
        /\ e < b => WordTaken(q, n, t, s, e, Least2(w, b), b, field, next)
    BY <1>1, <2>3, <2>4, WordTurn
  <2>7. CASE b <= e
    <3>1. n = [q EXCEPT !.working = Slice(t, s, b), !.in = <<>>]
      BY <2>6, <2>7 DEF WordKept
    <3>2. /\ DOMAIN n = ReqFields /\ n.state = "kUrl" /\ n.headers = {}
          /\ n.working = Slice(t, s, b) /\ n.in = <<>>
      BY <1>1, <1>4, <3>1 DEF ReqFields
    <3>3. b \in 2..m + 2
      BY <1>1, <2>1, <2>3, <2>7
    <3>4. ReadTo(n, r, t, m, b) /\ n.in = Slice(t, b, b)
      BY <1>1, <1>2, <2>1, <3>2, <3>3 DEF ReadTo, Within
    <3> QED
      BY <1>1, <2>5, <3>2, <3>4, FedAll
  <2>8. CASE ~ (b <= e)
    <3>1. Least2(w, b) = w /\ w <= b
      BY <1>1, <2>1, <2>8 DEF Least2
    <3>2. n = [q EXCEPT ![field] = Slice(t, s, e), !.working = <<>>, !.state = next,
                        !.in = Slice(t, w, b)]
      <4>1. e < b
        BY <1>1, <2>1, <2>8
      <4>2. WordTaken(q, n, t, s, e, w, b, field, next)
        BY <2>6, <3>1, <4>1
      <4> QED
        BY <4>2, Zenon DEF WordTaken
    <3>3. n = [q EXCEPT !.url = Slice(t, s, e), !.working = <<>>, !.state = "kVersion",
                        !.in = Slice(t, w, b)]
      BY <2>2, <3>2
    <3>4. /\ DOMAIN n = ReqFields /\ n.state = "kVersion" /\ n.headers = {}
          /\ n.url = Slice(t, s, e) /\ n.working = <<>> /\ n.in = Slice(t, w, b)
      BY <1>1, <3>3 DEF ReqFields
    <3>5. n.url = r.url
      BY <2>1, <3>4, TextWords
    <3>6. ReadTo(n, r, t, m, w)
      <4>1. w \in m + 3..m + 4 /\ Slice(t, m + 3, w) = <<>>
        BY <1>1, <1>2, <2>1, <3>1
      <4> QED
        BY <3>4, <3>5, <4>1 DEF ReadTo, Within
    <3>7. w \in 0..b /\ w >= l + 1
      BY <1>1, <2>1, <2>3, <3>1
    <3> QED
      BY <1>1, <2>5, <3>4, <3>6, <3>7, FedSome
  <2> QED
    BY <2>7, <2>8
<1>5. ASSUME q.state = "kVersion", q.url = r.url, Within(q, t, m + 3, m + 4, j)
      PROVE  Fed(feedVersion(q), r, t, m, k, b, l + 1)
  <2>1. PICK s \in Nat, e \in Nat, w \in Nat : s = m + 3 /\ e = m + 4 /\ w = m + 6
    BY <1>1
  <2>2. PICK field, next : field = "version" /\ next = "kHeader"
    OBVIOUS
  <2>3. IsWord(t, s, e, w) /\ j \in s..e /\ q.working = Slice(t, s, j) /\ j <= b
    BY <1>1, <1>5, <2>1, TextWords DEF Within
  <2>4. PICK n : n = FeedWord(q, field, next)
    OBVIOUS
  <2>5. feedVersion(q) = n
    BY <2>2, <2>4, Zenon DEF feedVersion
  <2>6. /\ b <= e => WordKept(q, n, t, s, b)
        /\ e < b => WordTaken(q, n, t, s, e, Least2(w, b), b, field, next)
    BY <1>1, <2>3, <2>4, WordTurn
  <2>7. CASE b <= e
    <3>1. n = [q EXCEPT !.working = Slice(t, s, b), !.in = <<>>]
      BY <2>6, <2>7 DEF WordKept
    <3>2. /\ DOMAIN n = ReqFields /\ n.state = "kVersion" /\ n.headers = {}
          /\ n.url = r.url /\ n.working = Slice(t, s, b) /\ n.in = <<>>
      BY <1>1, <1>5, <3>1 DEF ReqFields
    <3>3. b \in m + 3..m + 4
      BY <1>1, <2>1, <2>3, <2>7
    <3>4. ReadTo(n, r, t, m, b) /\ n.in = Slice(t, b, b)
      BY <1>1, <1>2, <2>1, <3>2, <3>3 DEF ReadTo, Within
    <3> QED
      BY <1>1, <2>5, <3>2, <3>4, FedAll
  <2>8. CASE ~ (b <= e)
    <3>1. PICK v \in Nat : /\ v = Least2(w, b) /\ v <= b /\ (v = m + 5 \/ v = m + 6)
                           /\ v = m + 5 => v = b
      BY <1>1, <2>1, <2>8 DEF Least2
    <3>2. n = [q EXCEPT ![field] = Slice(t, s, e), !.working = <<>>, !.state = next,
                        !.in = Slice(t, v, b)]
      <4>1. e < b
        BY <1>1, <2>1, <2>8
      <4>2. WordTaken(q, n, t, s, e, v, b, field, next)
        BY <2>6, <3>1, <4>1
      <4> QED
        BY <4>2, Zenon DEF WordTaken
    <3>3. n = [q EXCEPT !.version = Slice(t, s, e), !.working = <<>>, !.state = "kHeader",
                        !.in = Slice(t, v, b)]
      BY <2>2, <3>2
    <3>4. /\ DOMAIN n = ReqFields /\ n.state = "kHeader" /\ n.headers = {}
          /\ n.url = r.url /\ n.working = <<>> /\ n.in = Slice(t, v, b)
      BY <1>1, <1>5, <3>3 DEF ReqFields
    <3>5. ReadTo(n, r, t, m, v)
      <4>1. CASE v = m + 5
        BY <3>4, <4>1 DEF ReadTo, AtHeader
      <4>2. CASE v = m + 6
        <5>1. v \in m + 6..m + 7 /\ Slice(t, m + 6, v) = <<>>
          BY <1>1, <1>2, <3>1, <4>2
        <5> QED
          BY <3>4, <5>1 DEF ReadTo, AtHeader, Within
      <4> QED
        BY <3>1, <4>1, <4>2
    <3>6. v \in 0..b /\ v >= l + 1
      BY <1>1, <2>1, <2>3, <3>1
    <3>7. CASE v = b
      BY <1>1, <2>5, <3>4, <3>5, <3>7, FedAll
    <3>8. CASE v # b
      BY <1>1, <2>5, <3>1, <3>4, <3>5, <3>6, <3>8, FedSome
    <3> QED
      BY <3>7, <3>8
  <2> QED
    BY <2>7, <2>8
<1> QED
  BY <1>3, <1>4, <1>5

(* A piece that goes on with a symbol of a line end: nothing more happens  *)
(* to it if it is the whole piece, and LF first is an error.               *)
EndKept(q, n, line, x)  == n = [q EXCEPT !.working = line, !.in = x]
EndError(q, n, line, x) == n = [q EXCEPT !.working = line, !.in = x, !.state = "kError"]

LEMMA LineEndFirst ==
    ASSUME NEW E, NEW q, NEW x \in Seq(E), q.in = x, x # <<>>, x[1] \in {CR, LF}
    PROVE  \E line : /\ Len(x) = 1 => EndKept(q, feedHeader(q), line, x)
                     /\ Len(x) # 1 /\ x[1] = LF => EndError(q, feedHeader(q), line, x)
<1>1. Len(x) \in Nat \ {0}
  OBVIOUS
<1>2. Before(x, {CR, LF}) = 0
  <2>1. PICK n \in 0..Len(x) : n = 0
    BY <1>1
  <2>2. Before(x, {CR, LF}) = n
    BY <1>1, <2>1, BeforeIs
  <2> QED
    BY <2>1, <2>2
<1>3. Drop(x, 0) = x
  <2>1. PICK y : y = SubSeq(x, 1, Len(x))
    OBVIOUS
  <2>2. y \in Seq(E) /\ Len(y) = Len(x) /\ \A i \in 1..Len(y) : y[i] = x[i]
    BY <1>1, <2>1
  <2>3. y = x
    BY <2>2, SameSeq
  <2> QED
    BY <2>1, <2>3 DEF Drop
<1>4. PICK line : line = q.working \o SubSeq(x, 1, 0)
  OBVIOUS
<1>5. feedHeader(q) =
          IF Len(x) < 2 THEN [q EXCEPT !.working = line, !.in = x]
          ELSE IF x[1] # CR \/ x[2] # LF
               THEN [q EXCEPT !.working = line, !.in = x, !.state = "kError"]
               ELSE IF line = <<>>
                    THEN [q EXCEPT !.in = Drop(x, 2), !.state = "kComplete"]
                    ELSE [q EXCEPT !.in = Drop(x, 2), !.headers = @ \cup {line},
                                   !.working = <<>>]
  BY <1>2, <1>3, <1>4, Zenon DEF feedHeader
<1>6. ASSUME Len(x) = 1 PROVE EndKept(q, feedHeader(q), line, x)
  <2>1. Len(x) < 2
    BY <1>6
  <2> QED
    BY <1>5, <2>1, Zenon DEF EndKept
<1>7. ASSUME Len(x) # 1, x[1] = LF PROVE EndError(q, feedHeader(q), line, x)
  <2>1. ~ (Len(x) < 2)
    <3>1. PICK l \in Nat \ {0} : l = Len(x)
      BY <1>1
    <3>2. l # 1
      BY <1>7, <3>1
    <3> QED
      BY <3>1, <3>2
  <2>2. x[1] # CR
    BY <1>7 DEF CR, LF
  <2> QED
    BY <1>5, <2>1, <2>2, Zenon DEF EndError
<1> QED
  BY <1>6, <1>7

(* One line: what the parser has of it, or that it has it all.             *)
LEMMA OneLine ==
    ASSUME NEW E, NEW t \in Seq(E), NEW q, NEW s, NEW e, NEW j, NEW b,
           IsLine(t, s, e), Feeding(q, t, j, b), Within(q, t, s, e, j), q.state = "kHeader",
           NEW n, n = feedHeader(q), NEW k \in Nat, k <= j
    PROVE  /\ DOMAIN n = ReqFields /\ n.url = q.url
           /\ \/ /\ b \in s..e /\ n.state = "kHeader" /\ n.headers = q.headers
                 /\ n.working = Slice(t, s, b) /\ n.in = Slice(t, b, b)
              \/ LineEndLeft(n, t, k, b)
              \/ /\ e + 2 <= b /\ s = e /\ n.state = "kComplete" /\ n.headers = q.headers
              \/ /\ e + 2 <= b /\ s # e /\ n.state = "kHeader" /\ n.working = <<>>
                 /\ n.headers = q.headers \cup {Slice(t, s, e)} /\ n.in = Slice(t, e + 2, b)
<1>1. /\ Len(t) \in Nat /\ s \in Nat /\ e \in Nat /\ j \in Nat /\ b \in Nat
      /\ j < b /\ b <= Len(t) /\ s <= e /\ e + 2 <= Len(t)
  BY DEF Feeding, IsLine
<1>2. DOMAIN q = ReqFields /\ q.in = Slice(t, j, b) /\ q.working = Slice(t, s, j) /\ j \in s..e
  BY DEF Feeding, Within
<1>3. /\ b < e + 2 => LineKept(q, n, t, s, Least2(e, b), b)
      /\ e + 2 <= b => LineTaken(q, n, t, s, e, b)
  BY <1>1, <1>2, HeaderTurn
<1>4. CASE b <= e
  <2>1. b < e + 2 /\ Least2(e, b) = b /\ b \in s..e
    BY <1>1, <1>2, <1>4 DEF Least2
  <2>2. LineKept(q, n, t, s, b, b)
    BY <1>3, <2>1
  <2>3. n = [q EXCEPT !.working = Slice(t, s, b), !.in = Slice(t, b, b)]
    BY <2>2, Zenon DEF LineKept
  <2> QED
    BY <1>2, <2>1, <2>3 DEF ReqFields
<1>5. CASE b = e + 1
  <2>1. b < e + 2 /\ Least2(e, b) = e
    BY <1>1, <1>5 DEF Least2
  <2>2. LineKept(q, n, t, s, e, b)
    BY <1>3, <2>1
  <2>3. n = [q EXCEPT !.working = Slice(t, s, e), !.in = Slice(t, e, b)]
    BY <2>2, Zenon DEF LineKept
  <2>4. Slice(t, e, b) = <<t[b]>> /\ t[b] = CR
    <3>1. Slice(t, e, b) = <<t[b]>>
      BY <1>1, <1>5, SliceOfOne
    <3> QED
      BY <1>5, <3>1 DEF IsLine
  <2>5. DOMAIN n = ReqFields /\ n.url = q.url /\ n.state = "kHeader" /\ n.in = Slice(t, e, b)
    BY <1>2, <2>3 DEF ReqFields
  <2>6. k < b
    BY <1>1
  <2>7. LineEndLeft(n, t, k, b)
    BY <2>4, <2>5, <2>6 DEF LineEndLeft
  <2> QED
    BY <2>5, <2>7
<1>6. CASE e + 2 <= b
  <2>1. LineTaken(q, n, t, s, e, b)
    BY <1>3, <1>6
  <2>2. CASE s = e
    <3>1. n = [q EXCEPT !.in = Slice(t, e + 2, b), !.state = "kComplete"]
      BY <2>1, <2>2, Zenon DEF LineTaken
    <3> QED
      BY <1>2, <1>6, <2>2, <3>1 DEF ReqFields
  <2>3. CASE s # e
    <3>1. n = [q EXCEPT !.in = Slice(t, e + 2, b), !.headers = @ \cup {Slice(t, s, e)},
                        !.working = <<>>]
      BY <2>1, <2>3, Zenon DEF LineTaken
    <3> QED
      BY <1>2, <1>6, <2>3, <3>1 DEF ReqFields
  <2> QED
    BY <2>2, <2>3
<1> QED
  BY <1>1, <1>4, <1>5, <1>6

LEMMA HeaderKeeps ==
    ASSUME NEW r \in Requests, NEW t, NEW m, Layout(r, t, m), NEW q, NEW j, NEW b,
           Feeding(q, t, j, b), AtHeader(q, r, t, m, j),
           NEW k \in Nat, k <= j, j = m + 5 => j = k, NEW l \in Nat, j >= l
    PROVE  Fed(feedHeader(q), r, t, m, k, b, l + 1)
<1>1. /\ m \in Nat /\ t \in Seq(Symbols(r)) /\ Len(t) \in Nat /\ j \in Nat /\ b \in Nat
      /\ j < b /\ b <= Len(t) /\ DOMAIN q = ReqFields /\ q.in = Slice(t, j, b)
  BY DEF Layout, Feeding
<1>2. \A i \in 0..Len(t) : Slice(t, i, i) = <<>>
  BY <1>1, SliceEmpty
<1>3. q.state = "kHeader" /\ q.url = r.url
  BY DEF AtHeader
<1>4. PICK n : n = feedHeader(q)
  OBVIOUS
<1> DEFINE Lines(s, e) ==
        /\ DOMAIN n = ReqFields /\ n.url = q.url
        /\ \/ /\ b \in s..e /\ n.state = "kHeader" /\ n.headers = q.headers
              /\ n.working = Slice(t, s, b) /\ n.in = Slice(t, b, b)
           \/ LineEndLeft(n, t, k, b)
           \/ /\ e + 2 <= b /\ s = e /\ n.state = "kComplete" /\ n.headers = q.headers
           \/ /\ e + 2 <= b /\ s # e /\ n.state = "kHeader" /\ n.working = <<>>
              /\ n.headers = q.headers \cup {Slice(t, s, e)} /\ n.in = Slice(t, e + 2, b)
<1>5. ASSUME NEW s, NEW e, IsLine(t, s, e), Within(q, t, s, e, j)
      PROVE  Lines(s, e)
  BY <1>1, <1>3, <1>4, <1>5, OneLine
<1> HIDE DEF Lines
<1>6. CASE q.headers = {} /\ j = m + 5 /\ q.working = <<>>
  <2>1. PICK x : x = q.in /\ Sliced(Symbols(r), t, j, b, x)
    BY <1>1, SliceIs
  <2>2. /\ x \in Seq(Symbols(r)) /\ Len(x) = b - j /\ Len(x) \in Nat \ {0} /\ x # <<>>
        /\ x[1] = LF
    <3>1. x \in Seq(Symbols(r)) /\ Len(x) = b - j /\ Len(x) \in Nat \ {0} /\ 1 \in 1..b - j
      BY <1>1, <2>1 DEF Sliced
    <3>2. x[1] = t[j + 1] /\ j + 1 = m + 6
      BY <1>1, <1>6, <2>1, <3>1 DEF Sliced
    <3> QED
      BY <3>1, <3>2 DEF Layout
  <2>3. PICK line : /\ Len(x) = 1 => EndKept(q, n, line, x)
                    /\ Len(x) # 1 /\ x[1] = LF => EndError(q, n, line, x)
    BY <1>4, <2>1, <2>2, LineEndFirst
  <2>4. CASE Len(x) = 1
    <3>1. n = [q EXCEPT !.working = line, !.in = x]
      BY <2>3, <2>4, Zenon DEF EndKept
    <3>2. DOMAIN n = ReqFields /\ n.state = "kHeader" /\ n.in = x
      BY <1>1, <1>3, <3>1 DEF ReqFields
    <3>3. x = <<LF>>
      <4>1. <<LF>> \in Seq({LF}) /\ Len(<<LF>>) = 1 /\ <<LF>>[1] = LF
        OBVIOUS
      <4>2. <<LF>> \in Seq(Symbols(r))
        BY DEF Symbols
      <4>3. ASSUME NEW i \in 1..Len(x) PROVE x[i] = <<LF>>[i]
        <5>1. i = 1
          BY <2>4
        <5> QED
          BY <2>2, <4>1, <5>1
      <4> QED
        BY <2>2, <2>4, <4>1, <4>2, <4>3, SameSeq
    <3>4. b = m + 6 /\ k = b - 1 /\ k < b /\ t[b] = LF
      <4>1. b - j = 1 /\ k = j /\ j = m + 5
        BY <1>6, <2>2, <2>4
      <4>2. b = m + 6
        BY <1>1, <4>1
      <4> QED
        BY <1>1, <4>1, <4>2 DEF Layout
    <3>5. LineEndLeft(n, t, k, b)
      BY <3>2, <3>3, <3>4 DEF LineEndLeft
    <3> QED
      BY <1>4, <3>2, <3>5 DEF Fed
  <2>5. CASE Len(x) # 1
    <3>1. n = [q EXCEPT !.working = line, !.in = x, !.state = "kError"]
      BY <2>2, <2>3, <2>5, Zenon DEF EndError
    <3>2. DOMAIN n = ReqFields /\ n.state = "kError"
      BY <1>1, <3>1 DEF ReqFields
    <3> QED
      BY <1>4, <3>2 DEF Fed
  <2> QED
    BY <2>4, <2>5
<1>7. CASE q.headers = {} /\ Within(q, t, m + 6, m + 7, j)
  <2>1. Lines(m + 6, m + 7)
    BY <1>5, <1>7, TextLines
  <2>2. m + 6 # m + 7 /\ (m + 7) + 2 = m + 9
    BY <1>1
  <2>3. CASE LineEndLeft(n, t, k, b)
    BY <1>4, <2>1, <2>3 DEF Lines, Fed
  <2>4. CASE /\ b \in m + 6..m + 7 /\ n.state = "kHeader" /\ n.headers = q.headers
             /\ n.working = Slice(t, m + 6, b) /\ n.in = Slice(t, b, b)
    <3>1. ReadTo(n, r, t, m, b)
      BY <1>3, <1>7, <2>1, <2>4 DEF Lines, ReadTo, AtHeader, Within
    <3> QED
      BY <1>1, <1>4, <2>1, <2>4, <3>1, FedAll DEF Lines
  <2>5. CASE /\ (m + 7) + 2 <= b /\ n.state = "kHeader" /\ n.working = <<>>
             /\ n.headers = q.headers \cup {Slice(t, m + 6, m + 7)}
             /\ n.in = Slice(t, (m + 7) + 2, b)
    <3>1. n.headers = {HostLine}
      BY <1>7, <2>5, TextLines
    <3>2. m + 9 \in m + 9..m + 9 /\ m + 9 \in m + 9..m + 10 /\ m + 9 \in 0..b
      BY <1>1, <2>2, <2>5
    <3>3. n.working = Slice(t, m + 9, m + 9) /\ n.in = Slice(t, m + 9, b)
      BY <1>1, <1>2, <2>2, <2>5, <3>2
    <3>4. r.keep \in BOOLEAN
      BY ServerAssumption DEF ServerAssumption
    <3>5. ReadTo(n, r, t, m, m + 9)
      BY <1>3, <2>1, <2>5, <3>1, <3>2, <3>3, <3>4 DEF Lines, ReadTo, AtHeader, Within
    <3>6. m + 9 >= l + 1 /\ m + 9 # m + 5
      BY <1>1, <1>7 DEF Within
    <3> QED
      BY <1>1, <1>4, <2>1, <3>2, <3>3, <3>5, <3>6, FedSome DEF Lines
  <2> QED
    BY <2>1, <2>2, <2>3, <2>4, <2>5 DEF Lines
<1>8. CASE q.headers = {HostLine} /\ ~r.keep /\ Within(q, t, m + 9, m + 9, j)
  <2>1. Lines(m + 9, m + 9) /\ Len(t) = m + 11
    BY <1>5, <1>8, TextLines
  <2>2. b # m + 9 /\ (m + 9) + 2 = m + 11
    BY <1>1, <1>8 DEF Within
  <2>3. CASE LineEndLeft(n, t, k, b)
    BY <1>4, <2>1, <2>3 DEF Lines, Fed
  <2>4. CASE (m + 9) + 2 <= b /\ n.state = "kComplete" /\ n.headers = q.headers
    <3>1. b = Len(t) /\ n.headers = HeadersOf(r)
      BY <1>1, <1>8, <2>1, <2>2, <2>4 DEF HeadersOf
    <3> QED
      BY <1>3, <1>4, <2>1, <2>4, <3>1 DEF Lines, Fed
  <2>5. CASE b \in m + 9..m + 9
    BY <1>1, <2>2, <2>5
  <2> QED
    BY <2>1, <2>3, <2>4, <2>5 DEF Lines
<1>9. CASE q.headers = {HostLine} /\ r.keep /\ Within(q, t, m + 9, m + 10, j)
  <2>1. Lines(m + 9, m + 10)
    BY <1>5, <1>9, TextLines
  <2>2. m + 9 # m + 10 /\ (m + 10) + 2 = m + 12
    BY <1>1
  <2>3. CASE LineEndLeft(n, t, k, b)
    BY <1>4, <2>1, <2>3 DEF Lines, Fed
  <2>4. CASE /\ b \in m + 9..m + 10 /\ n.state = "kHeader" /\ n.headers = q.headers
             /\ n.working = Slice(t, m + 9, b) /\ n.in = Slice(t, b, b)
    <3>1. ReadTo(n, r, t, m, b)
      BY <1>3, <1>9, <2>1, <2>4 DEF Lines, ReadTo, AtHeader, Within
    <3> QED
      BY <1>1, <1>4, <2>1, <2>4, <3>1, FedAll DEF Lines
  <2>5. CASE /\ (m + 10) + 2 <= b /\ n.state = "kHeader" /\ n.working = <<>>
             /\ n.headers = q.headers \cup {Slice(t, m + 9, m + 10)}
             /\ n.in = Slice(t, (m + 10) + 2, b)
    <3>1. n.headers = {HostLine, KeepLine}
      <4>1. Slice(t, m + 9, m + 10) = KeepLine
        BY <1>9, TextLines
      <4> QED
        BY <1>9, <2>5, <4>1
    <3>2. m + 12 \in m + 12..m + 12 /\ m + 12 \in 0..b
      BY <1>1, <2>2, <2>5
    <3>3. n.working = Slice(t, m + 12, m + 12) /\ n.in = Slice(t, m + 12, b)
      BY <1>1, <1>2, <2>2, <2>5, <3>2
    <3>4. ReadTo(n, r, t, m, m + 12)
      BY <1>3, <1>9, <2>1, <2>5, <3>1, <3>2, <3>3 DEF Lines, ReadTo, AtHeader, Within
    <3>5. m + 12 >= l + 1 /\ m + 12 # m + 5
      BY <1>1, <1>9 DEF Within
    <3> QED
      BY <1>1, <1>4, <2>1, <3>2, <3>3, <3>4, <3>5, FedSome DEF Lines
  <2> QED
    BY <2>1, <2>2, <2>3, <2>4, <2>5 DEF Lines
<1>10. CASE q.headers = {HostLine, KeepLine} /\ r.keep /\ Within(q, t, m + 12, m + 12, j)
  <2>1. Lines(m + 12, m + 12) /\ Len(t) = m + 14
    BY <1>5, <1>10, TextLines
  <2>2. b # m + 12 /\ (m + 12) + 2 = m + 14
    BY <1>1, <1>10 DEF Within
  <2>3. CASE LineEndLeft(n, t, k, b)
    BY <1>4, <2>1, <2>3 DEF Lines, Fed
  <2>4. CASE (m + 12) + 2 <= b /\ n.state = "kComplete" /\ n.headers = q.headers
    <3>1. b = Len(t) /\ n.headers = HeadersOf(r)
      BY <1>1, <1>10, <2>1, <2>2, <2>4 DEF HeadersOf
    <3> QED
      BY <1>3, <1>4, <2>1, <2>4, <3>1 DEF Lines, Fed
  <2>5. CASE b \in m + 12..m + 12
    BY <1>1, <2>2, <2>5
  <2> QED
    BY <2>1, <2>3, <2>4, <2>5 DEF Lines
<1> QED
  BY <1>6, <1>7, <1>8, <1>9, <1>10 DEF AtHeader

(* A turn of the loop.                                                     *)
LEMMA TurnKeeps ==
    ASSUME NEW r \in Requests, NEW t, NEW m, Layout(r, t, m), NEW b \in Nat, b <= Len(t),
           NEW k \in Nat, NEW l \in Nat, l >= k, NEW q, Fed(q, r, t, m, k, b, l)
    PROVE  Fed(Turn(q), r, t, m, k, b, l + 1)
<1>1. DOMAIN q = ReqFields
  BY DEF Fed
<1>2. CASE q.in = <<>> \/ Ended(q)
  <2>1. Turn(q) = q
    BY <1>2, Zenon DEF Turn
  <2>2. CASE \E j \in 0..b : /\ ReadTo(q, r, t, m, j) /\ q.in = Slice(t, j, b)
                             /\ j = b \/ j >= l
    <3>1. PICK j \in 0..b : ReadTo(q, r, t, m, j) /\ q.in = Slice(t, j, b)
      BY <2>2
    <3>2. t \in Seq(Symbols(r))
      BY DEF Layout
    <3>3. ~Ended(q)
      BY <3>1 DEF ReadTo, AtHeader, Ended
    <3>4. j = b
      BY <1>2, <3>1, <3>2, <3>3, SliceFilled
    <3> QED
      BY <1>1, <2>1, <3>1, <3>4, FedAll
  <2>3. CASE ~ \E j \in 0..b : /\ ReadTo(q, r, t, m, j) /\ q.in = Slice(t, j, b)
                               /\ j = b \/ j >= l
    BY <2>1, <2>3 DEF Fed
  <2> QED
    BY <2>2, <2>3
<1>3. CASE ~ (q.in = <<>> \/ Ended(q))
  <2>1. q.state \notin {"kComplete", "kError"} /\ q.in # <<>>
    BY <1>3 DEF Ended
  <2>2. /\ q.state = "kMethod" => Turn(q) = feedMethod(q)
        /\ q.state = "kUrl" => Turn(q) = feedUrl(q)
        /\ q.state = "kVersion" => Turn(q) = feedVersion(q)
        /\ q.state = "kHeader" => Turn(q) = feedHeader(q)
    BY <1>3 DEF Turn
  <2>3. CASE LineEndLeft(q, t, k, b)
    <3>1. PICK n : n = feedHeader(q)
      OBVIOUS
    <3>2. PICK x : x = q.in
      OBVIOUS
    <3>3. x = <<t[b]>> /\ t[b] \in {CR, LF}
      BY <2>3, <3>2 DEF LineEndLeft
    <3>4. x \in Seq({CR, LF}) /\ Len(x) = 1 /\ x # <<>> /\ x[1] \in {CR, LF}
      BY <3>3
    <3>5. PICK line : EndKept(q, n, line, x)
      BY <3>1, <3>2, <3>4, LineEndFirst
    <3>6. n = [q EXCEPT !.working = line, !.in = x]
      BY <3>5, Zenon DEF EndKept
    <3>7. DOMAIN n = ReqFields /\ n.state = "kHeader" /\ n.in = x
      BY <1>1, <2>3, <3>6 DEF ReqFields, LineEndLeft
    <3>8. LineEndLeft(n, t, k, b)
      BY <2>3, <3>2, <3>7 DEF LineEndLeft
    <3>9. Turn(q) = n
      BY <2>2, <2>3, <3>1 DEF LineEndLeft
    <3> QED
      BY <3>7, <3>8, <3>9 DEF Fed
  <2>4. CASE \E j \in 0..b : /\ ReadTo(q, r, t, m, j) /\ q.in = Slice(t, j, b)
                             /\ j = b \/ j >= l
                             /\ q.state = "kHeader" /\ j = m + 5 => j \in {k, b}
    <3>1. PICK j \in 0..b : /\ ReadTo(q, r, t, m, j) /\ q.in = Slice(t, j, b)
                            /\ j = b \/ j >= l
                            /\ q.state = "kHeader" /\ j = m + 5 => j \in {k, b}
      BY <2>4
    <3>2. t \in Seq(Symbols(r))
      BY DEF Layout
    <3>3. j # b
      BY <2>1, <3>1, <3>2, SliceEmpty
    <3>4. Feeding(q, t, j, b) /\ j >= l /\ k <= j
      BY <1>1, <3>1, <3>3 DEF Feeding
    <3>5. CASE q.state = "kMethod" /\ q.headers = {} /\ Within(q, t, 0, 1, j)
      BY <2>2, <3>4, <3>5, ThreeWords
    <3>6. CASE q.state = "kUrl" /\ q.headers = {} /\ Within(q, t, 2, m + 2, j)
      BY <2>2, <3>4, <3>6, ThreeWords
    <3>7. CASE q.state = "kVersion" /\ q.headers = {} /\ q.url = r.url /\ Within(q, t, m + 3, m + 4, j)
      BY <2>2, <3>4, <3>7, ThreeWords
    <3>8. CASE AtHeader(q, r, t, m, j)
      <4>1. q.state = "kHeader"
        BY <3>8 DEF AtHeader
      <4>2. j = m + 5 => j = k
        BY <3>1, <3>3, <4>1
      <4> QED
        BY <2>2, <3>4, <3>8, <4>1, <4>2, HeaderKeeps
    <3> QED
      BY <3>1, <3>5, <3>6, <3>7, <3>8 DEF ReadTo
  <2> QED
    BY <2>1, <2>3, <2>4 DEF Fed
<1> QED
  BY <1>2, <1>3

-----------------------------------------------------------------------------
(* The loop of feedData                                                    *)

(* f is what the parser is after every number of turns up to m, from q on. *)
Feeds(f, q, m) ==
    f = [n \in 0..m |-> IF n = 0 THEN q
                        ELSE CHOOSE fed \in {Turn(r) : r \in {f[n - 1]}} : TRUE]

LEMMA OneTurn == \A x : (CHOOSE fed \in {Turn(r) : r \in {x}} : TRUE) = Turn(x)
<1> TAKE x
<1>1. {Turn(r) : r \in {x}} = {Turn(x)}
  OBVIOUS
<1> QED
  BY <1>1

LEMMA FeedsExist ==
    ASSUME NEW q, NEW m \in Nat
    PROVE  \E f : Feeds(f, q, m)
<1> DEFINE T == {n \in Nat : ~ \E f : Feeds(f, q, n)}
<1>1. SUFFICES ASSUME T # {} PROVE FALSE
  OBVIOUS
<1>2. PICK n \in T : \A k \in T : n <= k
  <2>1. T \in SUBSET Nat
    OBVIOUS
  <2> QED
    BY <1>1, <2>1, Least
<1>3. n # 0
  <2>1. Feeds([i \in 0..0 |-> q], q, 0)
    BY DEF Feeds
  <2> QED
    BY <1>2, <2>1
<1>4. n - 1 \in Nat /\ n - 1 \notin T
  BY <1>2, <1>3
<1>5. PICK g : Feeds(g, q, n - 1)
  BY <1>4
<1> DEFINE One(x) == CHOOSE fed \in {Turn(r) : r \in {x}} : TRUE
           h == [i \in 0..n |-> IF i = n THEN One(g[n - 1]) ELSE g[i]]
<1> HIDE DEF One
<1>6. \A i \in 0..n - 1 : h[i] = g[i]
  BY <1>4
<1>7. h[n] = One(g[n - 1])
  BY <1>4
<1>8. h = [i \in 0..n |-> h[i]]
  OBVIOUS
<1> HIDE DEF h
<1>9. ASSUME NEW i \in 0..n
      PROVE  h[i] = IF i = 0 THEN q ELSE One(h[i - 1])
  <2>1. CASE i = n
    BY <1>3, <1>4, <1>6, <1>7, <2>1
  <2>2. CASE i # n
    <3>1. i \in 0..n - 1 /\ (i # 0 => i - 1 \in 0..n - 1)
      BY <1>4, <2>2
    <3>2. g = [k \in 0..n - 1 |-> IF k = 0 THEN q ELSE One(g[k - 1])]
      BY <1>5, Zenon DEF Feeds, One
    <3>3. g[i] = IF i = 0 THEN q ELSE One(g[i - 1])
      BY <3>1, <3>2
    <3> QED
      BY <1>6, <3>1, <3>3
  <2> QED
    BY <2>1, <2>2
<1>10. h = [i \in 0..n |-> IF i = 0 THEN q ELSE One(h[i - 1])]
  BY <1>8, <1>9
<1>11. Feeds(h, q, n)
  BY <1>10, Zenon DEF Feeds, One
<1> QED
  BY <1>2, <1>11

LEMMA FeedDataFeeds ==
    ASSUME NEW q, NEW piece, Len(piece) \in Nat
    PROVE  \E f : /\ Feeds(f, [q EXCEPT !.in = piece], Len(piece) + 1)
                  /\ feedData(q, piece) = f[Len(piece) + 1]
<1> DEFINE f == CHOOSE f : Feeds(f, [q EXCEPT !.in = piece], Len(piece) + 1)
<1>1. Len(piece) + 1 \in Nat
  OBVIOUS
<1>2. Feeds(f, [q EXCEPT !.in = piece], Len(piece) + 1)
  BY <1>1, FeedsExist
<1>3. feedData(q, piece) = f[Len(piece) + 1]
  BY Zenon DEF feedData, Feeds
<1> QED
  BY <1>2, <1>3

LEMMA FeedDataKeeps ==
    ASSUME NEW r \in Requests, NEW t, NEW m, Layout(r, t, m), NEW k \in Nat, NEW b \in Nat,
           k <= b, b <= Len(t), NEW q, DOMAIN q = ReqFields, ReadTo(q, r, t, m, k)
    PROVE  Fed(feedData(q, Slice(t, k, b)), r, t, m, k, b, b + 1)
<1>1. PICK piece : piece = Slice(t, k, b) /\ Sliced(Symbols(r), t, k, b, piece)
  <2>1. t \in Seq(Symbols(r))
    BY DEF Layout
  <2> QED
    BY <2>1, SliceIs
<1>2. PICK l \in Nat : l = Len(piece) + 1 /\ Len(piece) \in Nat /\ k + l = b + 1
  <2>1. Len(piece) = b - k /\ b - k \in Nat
    BY <1>1 DEF Sliced
  <2> QED
    BY <2>1
<1>3. PICK n : n = [q EXCEPT !.in = piece]
  OBVIOUS
<1>4. PICK f : Feeds(f, n, l) /\ feedData(q, piece) = f[l]
  BY <1>2, <1>3, FeedDataFeeds
<1>5. Fed(n, r, t, m, k, b, k)
  <2>1. /\ DOMAIN n = ReqFields /\ n.state = q.state /\ n.headers = q.headers
        /\ n.url = q.url /\ n.working = q.working /\ n.in = piece
    BY <1>3 DEF ReqFields
  <2>2. ReadTo(n, r, t, m, k)
    BY <2>1 DEF ReadTo, AtHeader, Within
  <2> QED
    <3>1. k \in 0..b /\ k >= k /\ k \in {k, b}
      OBVIOUS
    <3> QED
      BY <1>1, <2>1, <2>2, <3>1 DEF Fed
<1>6. f[0] = n /\ \A i \in 1..l : f[i] = Turn(f[i - 1])
  <2>1. \A i \in 0..l : f[i] = IF i = 0 THEN n
                                ELSE CHOOSE fed \in {Turn(x) : x \in {f[i - 1]}} : TRUE
    BY <1>4 DEF Feeds
  <2>2. f[0] = n
    BY <1>2, <2>1
  <2>3. ASSUME NEW i \in 1..l PROVE f[i] = Turn(f[i - 1])
    <3>1. i \in 0..l /\ i # 0
      OBVIOUS
    <3>2. f[i] = CHOOSE fed \in {Turn(x) : x \in {f[i - 1]}} : TRUE
      BY <2>1, <3>1
    <3> QED
      BY <3>2, OneTurn
  <2> QED
    BY <2>2, <2>3
<1> DEFINE T == {i \in 0..l : ~ Fed(f[i], r, t, m, k, b, k + i)}
<1>7. T = {}
  <2>1. SUFFICES ASSUME T # {} PROVE FALSE
    OBVIOUS
  <2>2. PICK i \in T : \A j \in T : i <= j
    <3>1. T \in SUBSET Nat
      OBVIOUS
    <3> QED
      BY <2>1, <3>1, Least
  <2>3. i # 0
    <3>1. k + 0 = k
      OBVIOUS
    <3> QED
      BY <1>5, <1>6, <2>2, <3>1
  <2>4. i - 1 \in 0..l /\ i - 1 \notin T /\ i \in 1..l
    BY <2>2, <2>3
  <2>5. PICK d \in Nat : d = k + (i - 1) /\ d >= k /\ d + 1 = k + i
    BY <2>4
  <2>6. Fed(f[i - 1], r, t, m, k, b, d)
    BY <2>4, <2>5
  <2>7. Fed(Turn(f[i - 1]), r, t, m, k, b, d + 1)
    BY <2>5, <2>6, TurnKeeps
  <2> QED
    BY <1>6, <2>2, <2>4, <2>5, <2>7
<1>8. Fed(f[l], r, t, m, k, b, b + 1)
  BY <1>2, <1>7
<1> QED
  BY <1>1, <1>4, <1>8

(* What the server finds when feedData returns; and that it returns,       *)
(* unless the piece ends within the end of a line.                         *)
LEMMA FedOut ==
    ASSUME NEW r \in Requests, NEW t, NEW m, Layout(r, t, m), NEW b \in Nat, b <= Len(t),
           NEW k, NEW q, Fed(q, r, t, m, k, b, b + 1)
    PROVE  /\ DOMAIN q = ReqFields
           /\ ~Endless(q) /\ ~Ended(q) => q.in = <<>> /\ ReadTo(q, r, t, m, b)
           /\ Ended(q) /\ ~hasError(q) => q.url = r.url /\ keepAlive(q) = r.keep /\ b = Len(t)
           /\ Endless(q) => LineEndLeft(q, t, k, b)
<1>1. DOMAIN q = ReqFields
  BY DEF Fed
<1>2. (\E j \in 0..b : /\ ReadTo(q, r, t, m, j) /\ q.in = Slice(t, j, b)
                       /\ j = b \/ j >= b + 1)
         => q.in = <<>> /\ ReadTo(q, r, t, m, b)
  <2> SUFFICES ASSUME NEW j \in 0..b, ReadTo(q, r, t, m, j), q.in = Slice(t, j, b),
                      j = b \/ j >= b + 1
               PROVE  q.in = <<>> /\ ReadTo(q, r, t, m, b)
    OBVIOUS
  <2>1. t \in Seq(Symbols(r))
    BY DEF Layout
  <2>2. j = b
    OBVIOUS
  <2> QED
    BY <2>1, <2>2, SliceEmpty
<1>3. LineEndLeft(q, t, k, b) => q.in # <<>>
  <2>1. <<t[b]>> # <<>>
    OBVIOUS
  <2> QED
    BY <2>1 DEF LineEndLeft
<1>4. ASSUME ~Endless(q), ~Ended(q) PROVE q.in = <<>> /\ ReadTo(q, r, t, m, b)
  <2>1. q.in = <<>> /\ q.state \notin {"kError", "kComplete"}
    BY <1>4 DEF Endless, Ended
  <2> QED
    BY <1>2, <1>3, <2>1 DEF Fed
<1>5. ASSUME Endless(q) PROVE LineEndLeft(q, t, k, b)
  <2>1. q.in # <<>> /\ q.state \notin {"kError", "kComplete"}
    BY <1>5 DEF Endless, Ended
  <2> QED
    BY <1>2, <2>1 DEF Fed
<1>6. ASSUME Ended(q), ~hasError(q)
      PROVE  q.url = r.url /\ keepAlive(q) = r.keep /\ b = Len(t)
  <2>1. q.state = "kComplete"
    BY <1>6 DEF Ended, hasError
  <2>2. \A j \in 0..b : ~ReadTo(q, r, t, m, j)
    BY <2>1 DEF ReadTo, AtHeader
  <2>3. q.url = r.url /\ q.headers = HeadersOf(r) /\ b = Len(t)
    BY <2>1, <2>2 DEF Fed, LineEndLeft
  <2>4. r.keep \in BOOLEAN
    BY ServerAssumption DEF ServerAssumption
  <2>5. CASE r.keep
    <3>1. KeepLine \in q.headers /\ 1 \in DOMAIN KeepLine /\ KeepLine[1] = "keep-alive"
      BY <2>3, <2>5 DEF HeadersOf, KeepLine
    <3>2. keepAlive(q)
      BY <3>1, Zenon DEF keepAlive
    <3>3. keepAlive(q) = TRUE
      BY <3>2, Zenon DEF keepAlive
    <3> QED
      BY <2>3, <2>5, <3>3
  <2>6. CASE ~r.keep
    <3>1. q.headers = {HostLine}
      BY <2>3, <2>6 DEF HeadersOf
    <3>2. \A i \in DOMAIN HostLine : HostLine[i] # "keep-alive"
      BY DEF HostLine
    <3>3. ~keepAlive(q)
      BY <3>1, <3>2, Zenon DEF keepAlive
    <3>4. keepAlive(q) = FALSE
      BY <3>3, Zenon DEF keepAlive
    <3> QED
      BY <2>3, <2>4, <2>6, <3>4
  <2> QED
    BY <2>4, <2>5, <2>6
<1> QED
  BY <1>1, <1>4, <1>5, <1>6

-----------------------------------------------------------------------------
(* The connections                                                         *)

(* A request is under way: the parser has the first k symbols of it, those *)
(* up to b have been delivered, and the rest has been sent.                *)
UnderWay(s, q, st, bf, r) ==
    LET t == Text(r)
    IN  \E k, b \in 0..Len(t) :
           /\ k <= b /\ bf = Slice(t, k, b) /\ st = Slice(t, b, Len(t))
           /\ s = "pending" => k = 0
           /\ s = "open" => DOMAIN q = ReqFields /\ ReadTo(q, r, t, Len(r.url), k)

(* A piece from k to b has been delivered of a request of which the parser *)
(* has the first k symbols.                                                *)
Received(q, bf, r, k, b) ==
    /\ k \in 0..Len(Text(r)) /\ b \in 0..Len(Text(r)) /\ k <= b /\ bf = Slice(Text(r), k, b)
    /\ DOMAIN q = ReqFields /\ ReadTo(q, r, Text(r), Len(r.url), k)

(* A connection with the state s, the parser q, what has been sent and     *)
(* delivered, and the request that is to be answered.                      *)
ConnOf(s, q, st, bf, a) ==
    \/ /\ a = NoRequest /\ st = <<>>
       /\ s # "hungup" => bf = <<>>
       /\ s = "hungup" /\ bf # <<>> =>
             \E r \in Requests, k, b \in Nat : Received(q, bf, r, k, b)
       /\ s = "open" => q = NewReq
    \/ /\ a \in Requests /\ s \in {"pending", "open"}
       /\ UnderWay(s, q, st, bf, a)

Domains == /\ DOMAIN sock = Conns /\ DOMAIN req = Conns /\ DOMAIN stream = Conns
           /\ DOMAIN buf = Conns /\ DOMAIN asked = Conns

Conn(c) == ConnOf(sock[c], req[c], stream[c], buf[c], asked[c])

ConnInv == Domains /\ \A c \in Conns : Conn(c)

AnswerInv == ConnInv /\ AnsweredAsSent

LEMMA RequestHasUrl == \A r \in Requests : r # NoRequest
<1> TAKE r \in Requests
<1>1. r.url # <<>>
  BY ServerAssumption DEF ServerAssumption
<1>2. NoRequest.url = <<>>
  BY DEF NoRequest
<1> QED
  BY <1>1, <1>2

(* What is done to one connection leaves the others as they are.           *)
Changed(c, ns, nq, nst, nbf, na) ==
    /\ Domains'
    /\ sock'[c] = ns /\ req'[c] = nq /\ stream'[c] = nst /\ buf'[c] = nbf /\ asked'[c] = na
    /\ \A d \in Conns \ {c} : /\ sock'[d] = sock[d] /\ req'[d] = req[d]
                              /\ stream'[d] = stream[d] /\ buf'[d] = buf[d]
                              /\ asked'[d] = asked[d]

LEMMA OneConn ==
    ASSUME ConnInv, NEW c \in Conns, NEW ns, NEW nq, NEW nst, NEW nbf, NEW na,
           Changed(c, ns, nq, nst, nbf, na), ConnOf(ns, nq, nst, nbf, na)
    PROVE  ConnInv'
<1>1. Domains'
  BY DEF Changed
<1>2. ASSUME NEW d \in Conns PROVE Conn(d)'
  <2>1. CASE d = c
    BY <2>1 DEF Conn, Changed
  <2>2. CASE d # c
    BY <2>2 DEF Conn, ConnInv, Changed
  <2> QED
    BY <2>1, <2>2
<1> QED
  BY <1>1, <1>2 DEF ConnInv

LEMMA SameConns == ConnInv /\ UNCHANGED <<sock, req, stream, buf, asked>> => ConnInv'
BY DEF ConnInv, Domains, Conn

LEMMA SameAnswer == AnsweredAsSent /\ UNCHANGED answer => AnsweredAsSent'
BY DEF AnsweredAsSent

-----------------------------------------------------------------------------
(* The clients and TCP                                                     *)

LEMMA WholeText ==
    ASSUME NEW r \in Requests
    PROVE  /\ Text(r) \in Seq(Symbols(r)) /\ Len(Text(r)) \in Nat
           /\ Text(r) = Slice(Text(r), 0, Len(Text(r)))
<1>1. PICK t : t = Text(r) /\ t \in Seq(Symbols(r))
  BY TextLayout DEF Layout
<1>2. PICK z \in Nat, b \in Nat : z = 0 /\ b = Len(t) /\ z <= b /\ b <= Len(t)
  <2>1. PICK b \in Nat : b = Len(t)
    BY <1>1
  <2>2. 0 \in Nat /\ 0 <= b /\ b <= b
    BY <2>1
  <2> QED
    BY <2>1, <2>2
<1>3. Sliced(Symbols(r), t, z, b, t)
  BY <1>1, <1>2 DEF Sliced
<1>4. t = Slice(t, z, b)
  BY <1>1, <1>2, <1>3, SliceUnique
<1> QED
  BY <1>1, <1>2, <1>4

LEMMA ConnectKeeps ==
    ASSUME ConnInv, NEW c \in Conns, Connect(c)
    PROVE  ConnInv'
<1>1. sock[c] = "none" /\ Conn(c) /\ Domains
  BY DEF Connect, ConnInv
<1>2. asked[c] = NoRequest /\ stream[c] = <<>> /\ buf[c] = <<>>
  BY <1>1 DEF Conn, ConnOf
<1>3. ConnOf("pending", req[c], stream[c], buf[c], asked[c])
  BY <1>2 DEF ConnOf
<1>4. Changed(c, "pending", req[c], stream[c], buf[c], asked[c])
  BY <1>1 DEF Connect, Changed, Domains
<1>5. PICK ns : ns = "pending"
  OBVIOUS
<1> QED
  BY <1>3, <1>4, <1>5, OneConn

LEMMA SendKeeps ==
    ASSUME ConnInv, NEW c \in Conns, Send(c)
    PROVE  ConnInv'
<1>1. sock[c] \in {"pending", "open"} /\ asked[c] = NoRequest /\ Conn(c) /\ Domains
  BY DEF Send, ConnInv
<1>2. stream[c] = <<>> /\ buf[c] = <<>> /\ (sock[c] = "open" => req[c] = NewReq)
  BY <1>1, RequestHasUrl DEF Conn, ConnOf
<1>3. PICK r \in Requests : /\ asked' = [asked EXCEPT ![c] = r]
                            /\ stream' = [stream EXCEPT ![c] = Text(r)]
  BY DEF Send
<1>4. PICK t : t = Text(r) /\ t \in Seq(Symbols(r)) /\ Len(t) \in Nat /\ t = Slice(t, 0, Len(t))
  BY WholeText
<1>5. Slice(t, 0, 0) = <<>>
  BY <1>4, SliceEmpty
<1>6. NewReq.state = "kMethod" /\ NewReq.headers = {} /\ NewReq.working = <<>> /\ DOMAIN NewReq = ReqFields
  BY DEF NewReq, ReqFields
<1>7. ReadTo(NewReq, r, t, Len(r.url), 0)
  <2>1. 0 \in 0..1
    OBVIOUS
  <2> QED
    BY <1>5, <1>6, <2>1 DEF ReadTo, Within
<1>8. UnderWay(sock[c], req[c], t, buf[c], r)
  <2>1. 0 \in 0..Len(t) /\ 0 <= 0
    BY <1>4
  <2> QED
    BY <1>2, <1>4, <1>5, <1>6, <1>7, <2>1 DEF UnderWay
<1>9. ConnOf(sock[c], req[c], t, buf[c], r)
  BY <1>1, <1>8 DEF ConnOf
<1>10. Changed(c, sock[c], req[c], t, buf[c], r)
  BY <1>1, <1>3, <1>4 DEF Send, Changed, Domains
<1> QED
  BY <1>9, <1>10, OneConn

LEMMA DeliverKeeps ==
    ASSUME ConnInv, NEW c \in Conns, Deliver(c)
    PROVE  ConnInv'
<1>1. sock[c] \in {"pending", "open"} /\ stream[c] # <<>> /\ Conn(c) /\ Domains
  BY DEF Deliver, ConnInv
<1>2. PICK r : r = asked[c] /\ r \in Requests /\ UnderWay(sock[c], req[c], stream[c], buf[c], r)
  BY <1>1 DEF Conn, ConnOf
<1>3. PICK t : t = Text(r) /\ t \in Seq(Symbols(r)) /\ Len(t) \in Nat
  BY <1>2, WholeText
<1>4. PICK k \in 0..Len(t), b \in 0..Len(t) :
         /\ k <= b /\ buf[c] = Slice(t, k, b) /\ stream[c] = Slice(t, b, Len(t))
         /\ sock[c] = "pending" => k = 0
         /\ sock[c] = "open" => DOMAIN req[c] = ReqFields /\ ReadTo(req[c], r, t, Len(r.url), k)
  BY <1>2, <1>3 DEF UnderWay
<1>5. Len(stream[c]) = Len(t) - b
  <2>1. PICK x : x = Slice(t, b, Len(t)) /\ Sliced(Symbols(r), t, b, Len(t), x)
    BY <1>3, <1>4, SliceIs
  <2> QED
    BY <1>4, <2>1 DEF Sliced
<1>6. PICK n \in 1..Len(stream[c]) :
         /\ buf' = [buf EXCEPT ![c] = buf[c] \o SubSeq(stream[c], 1, n)]
         /\ stream' = [stream EXCEPT ![c] = Drop(stream[c], n)]
  <2>1. Len(stream[c]) \in 1..Len(stream[c])
    <3>1. b # Len(t)
      BY <1>1, <1>3, <1>4, SliceEmpty
    <3>2. Len(stream[c]) \in Nat /\ Len(stream[c]) >= 1
      BY <1>3, <1>4, <1>5, <3>1
    <3> QED
      BY <3>2
  <2> QED
    BY <2>1 DEF Deliver
<1>7. PICK e \in 0..Len(t) : e = b + n /\ b <= e /\ n \in Nat
  BY <1>3, <1>4, <1>5, <1>6
<1>8. SubSeq(stream[c], 1, n) = Slice(t, b, e)
  <2>1. b \in Nat /\ n \in Nat /\ b + n <= Len(t)
    BY <1>3, <1>4, <1>7
  <2>2. SubSeq(Slice(t, b, Len(t)), 1, n) = Slice(t, b, b + n)
    <3>1. PICK l \in Nat : l = Len(t) /\ b + n <= l /\ l <= Len(t)
      <4>1. PICK l \in Nat : l = Len(t)
        BY <1>3
      <4> QED
        BY <2>1, <4>1
    <3>2. SubSeq(Slice(t, b, l), 1, n) = Slice(t, b, b + n)
      <4>1. /\ t \in Seq(Symbols(r)) /\ b \in Nat /\ n \in Nat /\ l \in Nat
            /\ b + n <= l /\ l <= Len(t)
        BY <1>3, <2>1, <3>1
      <4> QED
        BY <4>1, SliceTaken DEF TakenFrom
    <3> QED
      BY <3>1, <3>2
  <2> QED
    BY <1>4, <1>7, <2>2
<1>9. buf[c] \o SubSeq(stream[c], 1, n) = Slice(t, k, e)
  <2>1. k \in Nat /\ b \in Nat /\ e \in Nat /\ k <= b /\ b <= e /\ e <= Len(t)
    BY <1>3, <1>4, <1>7
  <2>2. Slice(t, k, b) \o Slice(t, b, e) = Slice(t, k, e)
    <3>1. Meet(t, k, b, e)
      BY <1>3, <2>1, SlicesMeet, Zenon
    <3> QED
      BY <3>1 DEF Meet
  <2> QED
    BY <1>4, <1>8, <2>2
<1>10. Drop(stream[c], n) = Slice(t, e, Len(t))
  <2>1. b \in Nat /\ e \in Nat /\ b <= e /\ e <= Len(t) /\ n = e - b /\ Len(t) <= Len(t)
    BY <1>3, <1>4, <1>7
  <2> QED
    BY <1>3, <1>4, <2>1, SliceDropped
<1>11. UnderWay(sock[c], req[c], Slice(t, e, Len(t)), Slice(t, k, e), r)
  <2>1. k <= e
    BY <1>4, <1>7
  <2> QED
    BY <1>3, <1>4, <1>7, <2>1 DEF UnderWay
<1>12. ConnOf(sock[c], req[c], Slice(t, e, Len(t)), Slice(t, k, e), r)
  BY <1>1, <1>2, <1>11 DEF ConnOf
<1>13. Changed(c, sock[c], req[c], Slice(t, e, Len(t)), Slice(t, k, e), r)
  BY <1>1, <1>2, <1>6, <1>9, <1>10 DEF Deliver, Changed, Domains
<1> QED
  BY <1>12, <1>13, OneConn

LEMMA HangUpKeeps ==
    ASSUME ConnInv, NEW c \in Conns, HangUp(c)
    PROVE  ConnInv'
<1>1. Domains /\ Conn(c) /\ sock[c] = "open"
  BY DEF ConnInv, HangUp
<1>2. PICK ns, nst : ns = "hungup" /\ nst = <<>>
  OBVIOUS
<1>3. buf[c] # <<>> => \E r \in Requests, k, b \in Nat : Received(req[c], buf[c], r, k, b)
  <2> SUFFICES ASSUME buf[c] # <<>>
               PROVE  \E r \in Requests, k, b \in Nat : Received(req[c], buf[c], r, k, b)
    OBVIOUS
  <2>1. PICK r \in Requests : UnderWay(sock[c], req[c], stream[c], buf[c], r)
    BY <1>1 DEF Conn, ConnOf
  <2>2. PICK k \in 0..Len(Text(r)), b \in 0..Len(Text(r)) :
           /\ k <= b /\ buf[c] = Slice(Text(r), k, b)
           /\ DOMAIN req[c] = ReqFields /\ ReadTo(req[c], r, Text(r), Len(r.url), k)
    BY <1>1, <2>1 DEF UnderWay
  <2>3. k \in Nat /\ b \in Nat
    OBVIOUS
  <2>4. Received(req[c], buf[c], r, k, b)
    BY <2>2 DEF Received
  <2> QED
    BY <2>1, <2>3, <2>4
<1>4. ConnOf(ns, req[c], nst, buf[c], NoRequest)
  BY <1>2, <1>3 DEF ConnOf
<1>5. Changed(c, ns, req[c], nst, buf[c], NoRequest)
  BY <1>1, <1>2 DEF HangUp, Changed, Domains
<1> QED
  BY <1>4, <1>5, OneConn

LEMMA ClientsKeep == AnswerInv /\ ClientNext => AnswerInv'
<1> SUFFICES ASSUME AnswerInv, ClientNext PROVE AnswerInv'
  OBVIOUS
<1>1. ConnInv /\ AnsweredAsSent
  BY DEF AnswerInv
<1>2. PICK c \in Conns : Connect(c) \/ Send(c) \/ Deliver(c) \/ HangUp(c)
  BY DEF ClientNext
<1>3. ConnInv'
  BY <1>1, <1>2, ConnectKeeps, SendKeeps, DeliverKeeps, HangUpKeeps
<1>4. UNCHANGED answer
  BY <1>2 DEF Connect, Send, Deliver, HangUp
<1> QED
  BY <1>1, <1>3, <1>4, SameAnswer DEF AnswerInv

-----------------------------------------------------------------------------
(* The server                                                              *)

LEMMA AcceptKeeps ==
    ASSUME AnswerInv, NEW c \in Conns, Accept(c)
    PROVE  AnswerInv'
<1>1. sock[c] = "pending" /\ Conn(c) /\ Domains /\ ConnInv /\ AnsweredAsSent
  BY DEF Accept, AnswerInv, ConnInv
<1>2. PICK ns : ns = "open"
  OBVIOUS
<1>3. ConnOf(ns, NewReq, stream[c], buf[c], asked[c])
  <2>1. CASE asked[c] = NoRequest
    BY <1>1, <1>2, <2>1, RequestHasUrl DEF Conn, ConnOf
  <2>2. CASE asked[c] \in Requests
    <3>1. PICK r : r = asked[c] /\ r \in Requests
      BY <2>2
    <3>2. UnderWay(sock[c], req[c], stream[c], buf[c], r)
      BY <1>1, <3>1, RequestHasUrl DEF Conn, ConnOf
    <3>3. PICK t : t = Text(r) /\ t \in Seq(Symbols(r)) /\ Len(t) \in Nat
      BY <3>1, WholeText
    <3>4. PICK k \in 0..Len(t), b \in 0..Len(t) :
             k <= b /\ buf[c] = Slice(t, k, b) /\ stream[c] = Slice(t, b, Len(t)) /\ k = 0
      BY <1>1, <3>2, <3>3 DEF UnderWay
    <3>5. /\ NewReq.state = "kMethod" /\ NewReq.headers = {} /\ NewReq.working = <<>>
          /\ DOMAIN NewReq = ReqFields
      BY DEF NewReq, ReqFields
    <3>6. ReadTo(NewReq, r, t, Len(r.url), k)
      <4>1. k \in 0..1 /\ Slice(t, 0, k) = <<>>
        BY <3>3, <3>4, SliceEmpty
      <4> QED
        BY <3>5, <4>1 DEF ReadTo, Within
    <3>7. UnderWay(ns, NewReq, stream[c], buf[c], r)
      BY <3>3, <3>4, <3>5, <3>6 DEF UnderWay
    <3> QED
      BY <1>2, <3>1, <3>7 DEF ConnOf
  <2> QED
    BY <1>1, <2>1, <2>2 DEF Conn, ConnOf
<1>4. Changed(c, ns, NewReq, stream[c], buf[c], asked[c])
  BY <1>1, <1>2 DEF Accept, Changed, Domains
<1>5. ConnInv'
  BY <1>1, <1>3, <1>4, OneConn
<1>6. UNCHANGED answer
  BY DEF Accept
<1> QED
  BY <1>1, <1>5, <1>6, SameAnswer DEF AnswerInv

(* What is received on a connection is some of a request, which is under   *)
(* way unless the client has hung up.                                      *)
Arrived(c, fed, r, k, b) ==
    /\ buf[c] = Slice(Text(r), k, b) /\ Fed(fed, r, Text(r), Len(r.url), k, b, b + 1)
    /\ asked[c] # NoRequest => /\ r = asked[c] /\ sock[c] = "open"
                               /\ stream[c] = Slice(Text(r), b, Len(Text(r)))

LEMMA ReceivedOf ==
    ASSUME ConnInv, NEW c \in Conns, Ready(c), buf[c] # <<>>, NEW fed,
           fed = feedData(req[c], buf[c])
    PROVE  \E r \in Requests : \E k, b \in 0..Len(Text(r)) : k <= b /\ Arrived(c, fed, r, k, b)
<1>1. Conn(c)
  BY DEF ConnInv
<1>2. PICK r \in Requests, k \in Nat, b \in Nat :
         /\ Received(req[c], buf[c], r, k, b)
         /\ asked[c] # NoRequest => /\ r = asked[c] /\ sock[c] = "open"
                                    /\ stream[c] = Slice(Text(r), b, Len(Text(r)))
  <2>1. CASE asked[c] = NoRequest
    <3>1. sock[c] = "hungup"
      BY <1>1, <2>1, RequestHasUrl DEF Conn, ConnOf, Ready
    <3> QED
      BY <1>1, <2>1, <3>1, RequestHasUrl DEF Conn, ConnOf
  <2>2. CASE asked[c] # NoRequest
    <3>1. PICK r : r = asked[c] /\ r \in Requests /\ UnderWay(sock[c], req[c], stream[c], buf[c], r)
      BY <1>1, <2>2 DEF Conn, ConnOf
    <3>2. sock[c] = "open"
      BY <1>1, <2>2 DEF Conn, ConnOf, Ready
    <3>3. PICK k \in 0..Len(Text(r)), b \in 0..Len(Text(r)) :
             /\ k <= b /\ buf[c] = Slice(Text(r), k, b) /\ stream[c] = Slice(Text(r), b, Len(Text(r)))
             /\ DOMAIN req[c] = ReqFields /\ ReadTo(req[c], r, Text(r), Len(r.url), k)
      BY <3>1, <3>2 DEF UnderWay
    <3>4. k \in Nat /\ b \in Nat
      OBVIOUS
    <3>5. Received(req[c], buf[c], r, k, b)
      BY <3>3 DEF Received
    <3> QED
      BY <3>1, <3>2, <3>3, <3>4, <3>5
  <2> QED
    BY <2>1, <2>2
<1>3. PICK t, m : t = Text(r) /\ m = Len(r.url) /\ Layout(r, t, m) /\ Len(t) \in Nat
  BY <1>2, TextLayout, WholeText
<1>4. PICK q : q = req[c]
  OBVIOUS
<1>5. /\ k \in 0..Len(t) /\ b \in 0..Len(t) /\ k <= b /\ buf[c] = Slice(t, k, b)
      /\ DOMAIN q = ReqFields /\ ReadTo(q, r, t, m, k)
  BY <1>2, <1>3, <1>4 DEF Received
<1>6. Fed(feedData(q, Slice(t, k, b)), r, t, m, k, b, b + 1)
  <2>1. b <= Len(t)
    BY <1>5
  <2> QED
    BY <1>2, <1>3, <1>5, <2>1, FeedDataKeeps
<1>7. Arrived(c, fed, r, k, b)
  BY <1>2, <1>3, <1>4, <1>5, <1>6 DEF Arrived
<1> QED
  BY <1>2, <1>3, <1>5, <1>7

LEMMA MoreKeeps ==
    ASSUME AnswerInv, NEW c \in Conns, Ready(c), buf[c] # <<>>, NEW fed,
           fed = feedData(req[c], buf[c]), More(c, fed)
    PROVE  AnswerInv'
<1>1. Conn(c) /\ Domains /\ ConnInv /\ AnsweredAsSent
  BY DEF AnswerInv, ConnInv
<1>2. PICK nbf : nbf = <<>>
  OBVIOUS
<1>3. ConnOf(sock[c], fed, stream[c], nbf, asked[c])
  <2>1. CASE asked[c] = NoRequest
    <3>1. sock[c] = "hungup" /\ stream[c] = <<>>
      BY <1>1, <2>1, RequestHasUrl DEF Conn, ConnOf, Ready
    <3> QED
      BY <1>2, <2>1, <3>1 DEF ConnOf
  <2>2. CASE asked[c] # NoRequest
    <3>1. PICK r, t, m : r = asked[c] /\ t = Text(r) /\ m = Len(r.url)
      OBVIOUS
    <3>2. PICK k \in 0..Len(t), b \in 0..Len(t) :
             /\ r \in Requests /\ sock[c] = "open"
             /\ stream[c] = Slice(t, b, Len(t)) /\ Fed(fed, r, t, m, k, b, b + 1)
      <4>1. PICK x \in Requests : \E k, b \in 0..Len(Text(x)) : k <= b /\ Arrived(c, fed, x, k, b)
        BY <1>1, ReceivedOf
      <4>2. x = r
        BY <2>2, <3>1, <4>1 DEF Arrived
      <4> QED
        BY <2>2, <3>1, <4>1, <4>2 DEF Arrived
    <3>3. Layout(r, t, m) /\ t \in Seq(Symbols(r)) /\ Len(t) \in Nat
      BY <3>1, <3>2, TextLayout, WholeText
    <3>4. DOMAIN fed = ReqFields /\ ReadTo(fed, r, t, m, b)
      <4>1. ~Endless(fed) /\ ~Ended(fed)
        BY DEF More
      <4> QED
        BY <3>2, <3>3, <4>1, FedOut
    <3>5. nbf = Slice(t, b, b)
      BY <1>2, <3>3, SliceEmpty
    <3>6. UnderWay(sock[c], fed, stream[c], nbf, r)
      <4>1. b <= b
        BY <3>2, <3>3
      <4> QED
        BY <3>1, <3>2, <3>4, <3>5, <4>1 DEF UnderWay
    <3> QED
      BY <3>1, <3>2, <3>6 DEF ConnOf
  <2> QED
    BY <2>1, <2>2
<1>4. Changed(c, sock[c], fed, stream[c], nbf, asked[c])
  BY <1>1, <1>2 DEF More, Changed, Domains
<1>5. ConnInv'
  BY <1>1, <1>3, <1>4, OneConn
<1>6. UNCHANGED answer
  BY DEF More
<1> QED
  BY <1>1, <1>5, <1>6, SameAnswer DEF AnswerInv

LEMMA AnswerKeeps ==
    ASSUME AnswerInv, NEW c \in Conns, Ready(c), buf[c] # <<>>, NEW fed,
           fed = feedData(req[c], buf[c]), Answer(c, fed)
    PROVE  AnswerInv'
<1>1. Conn(c) /\ Domains /\ ConnInv
  BY DEF AnswerInv, ConnInv
<1>2. PICK nst : nst = <<>>
  OBVIOUS
<1>3. /\ answer'.asked = asked[c] /\ answer'.url = fed.url
      /\ answer'.keep = (~hasError(fed) /\ keepAlive(fed))
      /\ hasError(fed) => answer'.status = 404
  <2>1. PICK st, kp : /\ st = (IF hasError(fed) \/ fed.url[1] \notin {"/e", "/p", "/i", "/s"} THEN 404 ELSE 200)
                      /\ kp = (~hasError(fed) /\ keepAlive(fed))
    OBVIOUS
  <2>2. answer' = [status |-> st, asked |-> asked[c], url |-> fed.url, keep |-> kp]
    BY <2>1, Zenon DEF Answer, processRequest
  <2> QED
    BY <2>1, <2>2
<1>4. /\ asked[c] # NoRequest /\ ~hasError(fed) =>
             /\ fed.url = asked[c].url /\ keepAlive(fed) = asked[c].keep /\ stream[c] = <<>>
             /\ asked[c].keep \in BOOLEAN
      /\ asked[c] = NoRequest => stream[c] = <<>>
  <2>1. CASE asked[c] = NoRequest
    BY <1>1, <2>1, RequestHasUrl DEF Conn, ConnOf
  <2>2. ASSUME asked[c] # NoRequest, ~hasError(fed)
        PROVE  /\ fed.url = asked[c].url /\ keepAlive(fed) = asked[c].keep
               /\ stream[c] = <<>> /\ asked[c].keep \in BOOLEAN
    <3>1. PICK r, t, m : r = asked[c] /\ t = Text(r) /\ m = Len(r.url)
      OBVIOUS
    <3>2. PICK k \in 0..Len(t), b \in 0..Len(t) :
             /\ r \in Requests /\ sock[c] = "open"
             /\ stream[c] = Slice(t, b, Len(t)) /\ Fed(fed, r, t, m, k, b, b + 1)
      <4>1. PICK x \in Requests : \E k, b \in 0..Len(Text(x)) : k <= b /\ Arrived(c, fed, x, k, b)
        BY <1>1, ReceivedOf
      <4>2. x = r
        BY <2>2, <3>1, <4>1 DEF Arrived
      <4> QED
        BY <2>2, <3>1, <4>1, <4>2 DEF Arrived
    <3>3. Layout(r, t, m) /\ t \in Seq(Symbols(r)) /\ Len(t) \in Nat
      BY <3>1, <3>2, TextLayout, WholeText
    <3>4. fed.url = r.url /\ keepAlive(fed) = r.keep /\ b = Len(t)
      <4>1. Ended(fed)
        BY DEF Answer
      <4> QED
        BY <2>2, <3>2, <3>3, <4>1, FedOut
    <3>5. stream[c] = <<>>
      BY <3>2, <3>3, <3>4, SliceEmpty
    <3>6. r.keep \in BOOLEAN
      BY <3>2, ServerAssumption DEF ServerAssumption
    <3> QED
      BY <3>1, <3>4, <3>5, <3>6
  <2> QED
    BY <2>1, <2>2
<1>5. AnsweredAsSent'
  <2> SUFFICES ASSUME answer'.status = 200, answer'.asked # NoRequest
               PROVE  answer'.url = answer'.asked.url /\ answer'.keep = answer'.asked.keep
    BY DEF AnsweredAsSent
  <2>1. ~hasError(fed) /\ asked[c] # NoRequest
    BY <1>3
  <2> QED
    BY <1>3, <1>4, <2>1
<1>6. ASSUME answer'.keep
      PROVE  ConnInv'
  <2>1. stream[c] = <<>>
    BY <1>3, <1>4, <1>6
  <2>2. ConnOf(sock[c], NewReq, stream[c], nst, NoRequest)
    BY <1>2, <2>1 DEF ConnOf
  <2>3. Changed(c, sock[c], NewReq, stream[c], nst, NoRequest)
    BY <1>1, <1>2, <1>6 DEF Answer, NextReq, Changed, Domains
  <2> QED
    BY <1>1, <2>2, <2>3, OneConn
<1>7. ASSUME ~answer'.keep
      PROVE  ConnInv'
  <2>1. PICK ns : ns = "none"
    OBVIOUS
  <2>2. ConnOf(ns, NewReq, nst, nst, NoRequest)
    BY <1>2, <2>1 DEF ConnOf
  <2>3. Changed(c, ns, NewReq, nst, nst, NoRequest)
    BY <1>1, <1>2, <1>7, <2>1 DEF Answer, NextReq, Changed, Domains
  <2> QED
    BY <1>1, <2>2, <2>3, OneConn
<1> QED
  BY <1>5, <1>6, <1>7 DEF AnswerInv

LEMMA ServerKeeps == AnswerInv /\ ServerNext => AnswerInv'
<1> SUFFICES ASSUME AnswerInv, ServerNext PROVE AnswerInv'
  OBVIOUS
<1>1. ConnInv /\ AnsweredAsSent
  BY DEF AnswerInv
<1>2. CASE serverEnds \/ serverFails
  BY <1>1, <1>2, SameConns, SameAnswer DEF serverEnds, serverFails, connections, AnswerInv
<1>3. CASE serverLoop
  <2>1. PICK c \in Conns : Accept(c) \/ (Ready(c) /\ Receive(c))
    BY <1>3 DEF serverLoop, Serve
  <2>2. CASE Accept(c)
    BY <2>2, AcceptKeeps
  <2>3. CASE Ready(c) /\ buf[c] = <<>> /\ HangUpSeen(c)
    <3>1. Conn(c) /\ Domains
      BY <1>1 DEF ConnInv
    <3>2. sock[c] = "hungup"
      BY <2>3 DEF Ready
    <3>3. asked[c] = NoRequest /\ stream[c] = <<>>
      BY <3>1, <3>2 DEF Conn, ConnOf
    <3>4. PICK ns : ns = "none"
      OBVIOUS
    <3>5. ConnOf(ns, NewReq, stream[c], buf[c], asked[c])
      BY <2>3, <3>3, <3>4 DEF ConnOf
    <3>6. Changed(c, ns, NewReq, stream[c], buf[c], asked[c])
      BY <2>3, <3>1, <3>4 DEF HangUpSeen, Changed, Domains
    <3>7. ConnInv'
      BY <1>1, <3>5, <3>6, OneConn
    <3>8. UNCHANGED answer
      BY <2>3 DEF HangUpSeen
    <3> QED
      BY <1>1, <3>7, <3>8, SameAnswer DEF AnswerInv
  <2>4. CASE Ready(c) /\ buf[c] # <<>> /\ \E fed \in {feedData(req[c], buf[c])} :
                            Stuck(fed) \/ More(c, fed) \/ Thrown(fed) \/ Answer(c, fed)
    <3>1. PICK fed : /\ fed = feedData(req[c], buf[c])
                     /\ Stuck(fed) \/ More(c, fed) \/ Thrown(fed) \/ Answer(c, fed)
      BY <2>4
    <3>2. CASE Stuck(fed) \/ Thrown(fed)
      BY <1>1, <3>2, SameConns, SameAnswer DEF Stuck, Thrown, AnswerInv
    <3>3. CASE More(c, fed)
      BY <2>4, <3>1, <3>3, MoreKeeps
    <3>4. CASE Answer(c, fed)
      BY <2>4, <3>1, <3>4, AnswerKeeps
    <3> QED
      BY <3>1, <3>2, <3>3, <3>4
  <2> QED
    BY <2>1, <2>2, <2>3, <2>4 DEF Receive
<1> QED
  BY <1>2, <1>3 DEF ServerNext

LEMMA AnswerInit == Init => AnswerInv
<1> SUFFICES ASSUME Init PROVE AnswerInv
  OBVIOUS
<1>1. Domains
  BY DEF Init, ServerInit, Domains
<1>2. ASSUME NEW c \in Conns PROVE Conn(c)
  <2>1. sock[c] = "none" /\ stream[c] = <<>> /\ buf[c] = <<>> /\ asked[c] = NoRequest
    BY DEF Init, ServerInit
  <2> QED
    BY <2>1 DEF Conn, ConnOf
<1>3. AnsweredAsSent
  BY DEF Init, ServerInit, AnsweredAsSent, NoAnswer
<1> QED
  BY <1>1, <1>2, <1>3 DEF AnswerInv, ConnInv

LEMMA MainKeeps == AnswerInv /\ Main => AnswerInv'
<1> SUFFICES ASSUME AnswerInv, Main PROVE AnswerInv'
  OBVIOUS
<1>1. ConnInv /\ AnsweredAsSent
  BY DEF AnswerInv
<1>2. CASE Disconnect
  <2>1. Domains /\ Domains'
    BY <1>1, <1>2 DEF Disconnect, Domains, ConnInv
  <2>2. ASSUME NEW c \in Conns PROVE Conn(c)'
    <3>1. /\ sock'[c] = "none" /\ stream'[c] = <<>> /\ buf'[c] = <<>>
          /\ asked'[c] = NoRequest
      BY <1>2 DEF Disconnect
    <3> QED
      BY <3>1 DEF Conn, ConnOf
  <2>3. UNCHANGED answer
    BY <1>2 DEF Disconnect
  <2> QED
    BY <1>1, <2>1, <2>2, <2>3, SameAnswer DEF AnswerInv, ConnInv
<1>3. CASE MakeWindow \/ Activate \/ EventLoop \/ Release \/ StopStep
  <2>1. UNCHANGED <<sock, req, stream, buf, asked>> /\ UNCHANGED answer
    BY <1>3 DEF MakeWindow, Activate, EventLoop, Release, Stop, DocsStopped, SettingsSaved, WorkerJoined, WorkerFaults, Reset,
                StopStep, serverVars, connections
  <2> QED
    BY <1>1, <2>1, SameConns, SameAnswer DEF AnswerInv
<1>4. CASE ConnectWindow \/ Deactivate
  <2>1. UNCHANGED <<sock, req, stream, buf, asked>> /\ UNCHANGED answer
    BY <1>4 DEF ConnectWindow, Deactivate, connections
  <2> QED
    BY <1>1, <2>1, SameConns, SameAnswer DEF AnswerInv
<1> QED
  BY <1>2, <1>3, <1>4 DEF Main, MainGoesOn, StopStep

LEMMA AnswerStep == AnswerInv /\ [Next]_vars => AnswerInv'
<1> SUFFICES ASSUME AnswerInv, [Next]_vars PROVE AnswerInv'
  OBVIOUS
<1>1. CASE Main
  BY <1>1, MainKeeps
<1>2. CASE CommandRunner \/ SigStop \/ UNCHANGED vars
  <2>1. UNCHANGED <<sock, req, stream, buf, asked>> /\ UNCHANGED answer
    BY <1>2 DEF CommandRunner, SigStop, vars, serverVars, connections
  <2> QED
    BY <2>1, SameConns, SameAnswer DEF AnswerInv
<1>3. CASE ClientNext
  BY <1>3, ClientsKeep
<1>4. CASE ServerNext
  BY <1>4, ServerKeeps
<1> QED
  BY <1>1, <1>2, <1>3, <1>4 DEF Next, Done

(* Whatever the pieces in which requests arrive, and however many there    *)
(* are on however many connections: what is answered with success is what  *)
(* the client that waits for the answer has asked.                         *)
THEOREM AnswersFitRequests == Spec => []AnsweredAsSent
<1>1. AnswerInv => AnsweredAsSent
  BY DEF AnswerInv
<1> QED
  BY <1>1, AnswerInit, AnswerStep, PTL DEF Spec

-----------------------------------------------------------------------------
(* What the server thread is caught by                                     *)

LEMMA EndlessIsCut ==
    ASSUME ConnInv, NEW c \in Conns, Ready(c), buf[c] # <<>>, NEW fed,
           fed = feedData(req[c], buf[c]), Endless(fed)
    PROVE  CutLineEnd(buf[c])
<1>1. PICK r \in Requests : \E k, b \in 0..Len(Text(r)) : k <= b /\ Arrived(c, fed, r, k, b)
  BY ReceivedOf
<1>2. PICK t, m : t = Text(r) /\ m = Len(r.url) /\ Layout(r, t, m) /\ t \in Seq(Symbols(r)) /\ Len(t) \in Nat
  BY TextLayout, WholeText
<1>3. PICK k \in 0..Len(t), b \in 0..Len(t) :
         k <= b /\ buf[c] = Slice(t, k, b) /\ Fed(fed, r, t, m, k, b, b + 1)
  BY <1>1, <1>2 DEF Arrived
<1>4. LineEndLeft(fed, t, k, b)
  BY <1>2, <1>3, FedOut
<1>5. k < b /\ (t[b] = CR \/ (t[b] = LF /\ k = b - 1))
  BY <1>4 DEF LineEndLeft
<1>6. PICK x : x = buf[c] /\ Sliced(Symbols(r), t, k, b, x)
  BY <1>2, <1>3, SliceIs
<1>7. Len(x) = b - k /\ x[b - k] = t[b]
  <2>1. b - k \in 1..b - k /\ k + (b - k) = b
    BY <1>3, <1>5
  <2> QED
    BY <1>6, <2>1 DEF Sliced
<1>8. CASE t[b] = CR
  BY <1>6, <1>7, <1>8 DEF CutLineEnd
<1>9. CASE t[b] = LF /\ k = b - 1
  <2>1. k \in Nat /\ b \in Nat /\ b = k + 1 /\ b <= Len(t)
    BY <1>3, <1>9
  <2>2. buf[c] = <<LF>>
    BY <1>2, <1>3, <1>9, <2>1, SliceOfOne
  <2> QED
    BY <2>2 DEF CutLineEnd
<1> QED
  BY <1>5, <1>8, <1>9

LEMMA CaughtStep ==
    ASSUME AnswerInv, [Next]_vars, server # "stuck", server' = "stuck"
    PROVE  \E c \in Conns : CutLineEnd(buf[c])
<1>1. ServerNext
  <2>1. CASE Main
    <3>1. CASE ConnectWindow
      BY <3>1 DEF ConnectWindow, start
    <3>2. CASE ~ConnectWindow
      BY <2>1, <3>2 DEF Main, MainGoesOn, MakeWindow, Activate, EventLoop, Deactivate,
                        Disconnect, Release, Stop, DocsStopped, SettingsSaved,
                        WorkerJoined, WorkerFaults, Reset, serverVars
    <3> QED
      BY <3>1, <3>2
  <2>2. CASE CommandRunner \/ SigStop \/ UNCHANGED vars
    BY <2>2 DEF CommandRunner, SigStop, vars, serverVars
  <2>3. CASE ClientNext
    BY <2>3, ClientsLeaveServer
  <2> QED
    BY <2>1, <2>2, <2>3 DEF Next, Done
<1>2. PICK c \in Conns : Accept(c) \/ (Ready(c) /\ Receive(c))
  BY <1>1 DEF ServerNext, serverLoop, serverEnds, serverFails, Serve
<1>3. Ready(c) /\ buf[c] # <<>> /\ \E fed \in {feedData(req[c], buf[c])} : Stuck(fed)
  BY <1>2 DEF Accept, Receive, HangUpSeen, More, Thrown, Answer
<1>4. PICK fed : fed = feedData(req[c], buf[c]) /\ Endless(fed)
  BY <1>3 DEF Stuck
<1>5. CutLineEnd(buf[c])
  BY <1>3, <1>4, EndlessIsCut DEF AnswerInv
<1> QED
  BY <1>5

(* The parser never leaves a piece that ends with the first character of a *)
(* line end, or that is the second; and it leaves every other piece of any *)
(* request, so that nothing else can catch the server thread.              *)
THEOREM OnlyCutLineEndsHang == Spec => CaughtByCutLineEnds
<1>1. AnswerInv /\ [Next]_vars =>
         [server # "stuck" /\ server' = "stuck" => \E c \in Conns : CutLineEnd(buf[c])]_vars
  BY CaughtStep
<1> QED
  BY <1>1, AnswerInit, AnswerStep, PTL DEF Spec, CaughtByCutLineEnds
=============================================================================
