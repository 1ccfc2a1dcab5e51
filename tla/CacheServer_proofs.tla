------------------------- MODULE CacheServer_proofs -------------------------
(***************************************************************************)
(* Proofs about CacheServer for any clients, keys, values, numbers of      *)
(* calls, cuts of the streams and stops.                                   *)
(***************************************************************************)
EXTENDS CacheServer, SequenceTheorems, NaturalsInduction, WellFoundedInduction, FiniteSetTheorems, TLAPS

-----------------------------------------------------------------------------
(* Types: what is on its way, what is held and what a call returns.        *)
Word    == [at : {"head", "tail"}, client : Clients, n : Nat, cmd : Commands \cup {Quit}]
Piece   == Word \cup {CR, LF, BlankLine}
Held    == [val : Values, whole : BOOLEAN]
Saying  == Held \cup {"+OK", ":0", ":1", "$-1", "$", "-ERR"}
Answer  == [n : Nat, text : Saying]
Returned == Saying \cup {"none", "ok", "failed"}
ACall   == [n : Nat, cmd : Commands \cup {Quit}, phase : {"idle", "line", "data"}, result : Returned]
Ran     == [client : Clients, n : Nat]

Types ==
  /\ protocol \in {"line", "http"}
  /\ pc \in {"off", "listening", "opening", "accept", "recv", "lines", "done"}
  /\ running \in BOOLEAN
  /\ backlog \in Seq(Clients)
  /\ serving \in Clients \cup {None}
  /\ buf \in Seq(Piece)
  /\ cache \in [Keys -> Held \cup {None}]
  /\ up \in [Clients -> Seq(Piece)]
  /\ down \in [Clients -> Seq(Answer)]
  /\ conn \in [Clients -> {"new", "up", "closed", "left"}]
  /\ call \in [Clients -> ACall]
  /\ executed \in Seq(Ran)
  /\ astray \subseteq Clients

(* Who is where: waiting, being served, gone.                              *)
Plumbing ==
  /\ (serving # None) <=> (pc \in {"recv", "lines", "done"})
  /\ serving = None => buf = <<>>
  /\ pc = "lines" => protocol = "line"
  /\ (pc = "recv" /\ protocol = "line") => buf = <<>>
  /\ \A i, j \in 1..Len(backlog) : backlog[i] = backlog[j] => i = j
  /\ \A i \in 1..Len(backlog) : backlog[i] # serving /\ conn[backlog[i]] \in {"up", "left"}
  /\ serving # None => conn[serving] \in {"up", "left"}
  /\ \A c \in Clients : conn[c] = "new" => up[c] = <<>>
  /\ protocol = "http" => astray = {}

(* The commands executed so far: those of a client in a row, in the order  *)
(* of its calls, and the client being served is the last.                  *)
Waiting == {backlog[i] : i \in 1..Len(backlog)}

Served ==
  /\ \A i \in 1..Len(executed) :
       /\ conn[executed[i].client] # "new"
       /\ executed[i].client \notin Waiting
       /\ executed[i].client = serving => executed[Len(executed)].client = serving
  /\ ExecutedInOrder

(* What concerns one client: the state of its side, what is on its way to  *)
(* the server (received or not) and which of its calls have been executed. *)
Traffic(c) == (IF serving = c THEN buf ELSE <<>>) \o up[c]

Done(c) == {executed[i].n : i \in {j \in 1..Len(executed) : executed[j].client = c}}

View(c) == [conn |-> conn[c], call |-> call[c], down |-> down[c], up |-> up[c],
            traffic |-> Traffic(c), done |-> Done(c)]

(* The server may still read from a client.                                *)
Live(c) == c \in Waiting \/ (serving = c /\ pc \in {"recv", "lines"})

(* The numbers of a client's calls.                                        *)
Counted(c, v) ==
  /\ v.call.n <= MaxCalls[c]
  /\ v.call.n > 0 => v.call.cmd \in Commands
  /\ v.call.phase # "idle" => v.call.n > 0
  /\ v.conn = "left" => v.call.phase = "idle"
  /\ v.conn # "left" => \A n \in v.done : n <= v.call.n

(* While the server reads from a client: its texts come in the order of    *)
(* its calls, behind those that have been executed.                        *)
Flowing(c, v) ==
  /\ \A i \in 1..Len(v.traffic) : v.traffic[i] \in Word =>
       /\ v.traffic[i].client = c
       /\ v.conn # "left" => v.traffic[i].n <= v.call.n
  /\ \A i \in 1..Len(v.traffic) : (v.traffic[i] \in Word /\ v.traffic[i].at = "head") =>
       /\ \A n \in v.done : n < v.traffic[i].n
       /\ \A j \in 1..Len(v.traffic) :
            (i < j /\ v.traffic[j] \in Word /\ v.traffic[j].at = "head") => v.traffic[i].n < v.traffic[j].n

(* A client that is not astray gets the reply of its last call or none,    *)
(* and the reply says what has been done.                                  *)
IsReply(p, v) ==
  IF p = "http" \/ v.call.cmd.op # "GET"
  THEN /\ Len(v.down) = 1 /\ v.call.phase = "line"
       /\ v.call.cmd.op = "SET" => (v.down[1].text = "+OK" <=> v.call.n \in v.done)
  ELSE \/ Len(v.down) = 1 /\ v.call.phase = "data"
       \/ Len(v.down) = 1 /\ v.call.phase = "line" /\ v.down[1].text # "$"
       \/ Len(v.down) = 2 /\ v.call.phase = "line" /\ v.down[1].text = "$"

Told(p, v) ==
  /\ v.call.phase = "idle" =>
       /\ v.down = <<>>
       /\ (v.call.n > 0 /\ v.call.cmd.op = "SET") => (v.call.result = "ok" <=> v.call.n \in v.done)
  /\ (v.call.phase # "idle" /\ v.down = <<>> /\ v.call.cmd.op = "SET") => v.call.n \notin v.done
  /\ (v.call.phase # "idle" /\ v.down # <<>>) =>
       /\ IsReply(p, v)
       /\ (v.call.cmd.op = "SET" /\ v.call.n \in v.done) => v.up = <<>>

(* While the server reads from such a client, what is on its way belongs   *)
(* to a call that waits and has no reply yet.                              *)
Matching(p, c, v) ==
  /\ (v.traffic # <<>> /\ v.conn # "left") => v.call.phase = "line" /\ v.down = <<>>
  /\ \A i \in 1..Len(v.traffic) : v.traffic[i] \in Word =>
       IF v.conn = "left"
       THEN v.traffic[i].n = MaxCalls[c] + 1 /\ v.traffic[i].cmd = Quit
       ELSE v.traffic[i].n = v.call.n /\ v.traffic[i].cmd = v.call.cmd
  /\ p = "line" => \A i \in 1..Len(v.traffic) : v.traffic[i] = LF => i = Len(v.traffic)
  /\ p = "http" =>
       \/ v.traffic = <<>>
       \/ v.conn # "left" /\ v.traffic = HttpWire(c, v.call.n, v.call.cmd)

Good(p, c, stray, live, v) ==
  /\ Counted(c, v)
  /\ live => Flowing(c, v)
  /\ ~stray => Told(p, v) /\ (live => Matching(p, c, v))

Client(c) == Good(protocol, c, c \in astray, Live(c), View(c))

Invariant == Types /\ Plumbing /\ Served /\ \A c \in Clients : Client(c)
-----------------------------------------------------------------------------
(* Sequences.                                                              *)

(* A nonempty set of numbers has a least member.                           *)
LEMMA LeastNumber ==
  ASSUME NEW S \in SUBSET Nat, S # {}
  PROVE  \E m \in S : \A k \in S : m <= k
<1>1. PICK m \in S : \A k \in S : ~(<<k, m>> \in OpToRel(<, Nat))
  BY NatLessThanWellFounded, WFMin
<1>2. ASSUME NEW k \in S PROVE m <= k
  <2>1. k \in Nat /\ m \in Nat
    OBVIOUS
  <2>2. <<k, m>> \in OpToRel(<, Nat) <=> k < m
    BY <2>1 DEF OpToRel
  <2>3. ~(k < m)
    BY <1>1, <2>2
  <2> QED
    BY <2>1, <2>3
<1> QED
  BY <1>2

LEMMA SubSeqIs ==
  ASSUME NEW S, NEW s \in Seq(S), NEW m \in 1..Len(s) + 1, NEW n \in m - 1..Len(s)
  PROVE  /\ SubSeq(s, m, n) \in Seq(S) /\ Len(SubSeq(s, m, n)) = n - m + 1
         /\ \A i \in 1..n - m + 1 : SubSeq(s, m, n)[i] = s[m + i - 1]
<1>1. m \in Int /\ n \in Int /\ \A i \in m..n : s[i] \in S
  BY ElementOfSeq, LenProperties
<1> QED
  BY <1>1, SubSeqProperties, LenProperties

(* t is what is left of s when its first L elements are gone.              *)
IsRest(t, s, L) ==
  /\ t \in Seq(Piece) /\ L \in 0..Len(s) /\ Len(t) = Len(s) - L
  /\ \A i \in 1..Len(t) : t[i] = s[i + L]

(* Taking L elements off the front of a concatenation.                     *)
LEMMA RestOfConcat ==
  ASSUME NEW b \in Seq(Piece), NEW u \in Seq(Piece), NEW L \in 0..Len(b)
  PROVE  IsRest(SubSeq(b, L + 1, Len(b)) \o u, b \o u, L)
<1> DEFINE r == SubSeq(b, L + 1, Len(b))
<1>1. Len(b) \in Nat /\ Len(u) \in Nat /\ L \in Nat
  BY LenProperties
<1>2. r \in Seq(Piece) /\ Len(r) = Len(b) - L /\ \A i \in 1..Len(b) - L : r[i] = b[L + i]
  BY <1>1, SubSeqIs
<1> HIDE DEF r
<1>3. /\ r \o u \in Seq(Piece) /\ Len(r \o u) = Len(r) + Len(u)
      /\ \A i \in 1..Len(r) + Len(u) : (r \o u)[i] = IF i <= Len(r) THEN r[i] ELSE u[i - Len(r)]
  BY <1>2, ConcatProperties
<1>4. /\ Len(b \o u) = Len(b) + Len(u)
      /\ \A i \in 1..Len(b) + Len(u) : (b \o u)[i] = IF i <= Len(b) THEN b[i] ELSE u[i - Len(b)]
  BY ConcatProperties
<1>5. IsRest(r \o u, b \o u, L)
  BY <1>1, <1>2, <1>3, <1>4 DEF IsRest
<1> QED
  BY <1>5 DEF r

(* Three pieces of traffic in a row.                                       *)
LEMMA ThreeInARow ==
  ASSUME NEW a \in Seq(Piece), NEW b \in Seq(Piece), NEW c \in Seq(Piece)
  PROVE  (a \o b) \o c = a \o (b \o c)
BY ConcatAssociative, SMTT(60)

(* Moving elements from one to the other.                                  *)
LEMMA MovedConcat ==
  ASSUME NEW b \in Seq(Piece), NEW u \in Seq(Piece), NEW k \in 1..Len(u)
  PROVE  (b \o SubSeq(u, 1, k)) \o SubSeq(u, k + 1, Len(u)) = b \o u
<1> DEFINE x == SubSeq(u, 1, k)
           y == SubSeq(u, k + 1, Len(u))
<1>1. Len(u) \in Nat /\ k \in Nat
  BY LenProperties
<1>2. x \in Seq(Piece) /\ y \in Seq(Piece)
  BY <1>1, SubSeqIs
<1>3. x \o y = u
  BY <1>1, ConcatAdjacentSubSeq, SubSeqFull
<1> HIDE DEF x, y
<1>4. (b \o x) \o y = b \o (x \o y)
  BY <1>2, ThreeInARow, Zenon
<1>5. (b \o x) \o y = b \o u
  BY <1>3, <1>4
<1> QED
  BY <1>5 DEF x, y


-----------------------------------------------------------------------------
(* What one client is promised, for any view of it.                        *)

IsView(v) ==
  /\ v.call \in ACall /\ v.down \in Seq(Answer) /\ v.up \in Seq(Piece)
  /\ v.traffic \in Seq(Piece) /\ v.done \subseteq Nat

IsClient(p, c) == p \in {"line", "http"} /\ MaxCalls[c] \in Nat

(* Nothing but what is on its way has changed.                             *)
SameSide(v, w) == w.conn = v.conn /\ w.call = v.call /\ w.down = v.down /\ w.done = v.done

(* Nothing has changed for the client, or the server does not read from it *)
(* any more.                                                               *)
LEMMA FrameGood ==
  ASSUME NEW p, NEW c, NEW stray, NEW live, NEW v, NEW live2, NEW w,
         Good(p, c, stray, live, v),
         w.call = v.call /\ w.down = v.down /\ w.done = v.done /\ w.up = v.up,
         live2 => live /\ w.conn = v.conn /\ w.traffic = v.traffic,
         (w.conn = "left") <=> (v.conn = "left")
  PROVE  Good(p, c, stray, live2, w)
<1>1. Counted(c, w)
  BY DEF Good, Counted
<1>2. Told(p, v) => Told(p, w)
  BY DEF Told, IsReply
<1>3. live2 /\ Flowing(c, v) => Flowing(c, w)
  BY DEF Flowing
<1>4. live2 /\ Matching(p, c, v) => Matching(p, c, w)
  BY DEF Matching
<1> QED
  BY <1>1, <1>2, <1>3, <1>4 DEF Good

(* The server has read on and may have executed the first command.         *)
LEMMA RestFlowing ==
  ASSUME NEW c, NEW v, NEW w, NEW L, IsView(v), Flowing(c, v), IsRest(w.traffic, v.traffic, L),
         w.conn = v.conn, w.call = v.call,
         \A i \in 1..Len(w.traffic) : (w.traffic[i] \in Word /\ w.traffic[i].at = "head") =>
           \A n \in w.done : n \in v.done \/ n < w.traffic[i].n
  PROVE  Flowing(c, w)
<1>0. Len(v.traffic) \in Nat /\ Len(w.traffic) \in Nat /\ L \in Nat
  BY LenProperties DEF IsView, IsRest
<1>2. \A i \in 1..Len(w.traffic) : i + L \in 1..Len(v.traffic) /\ w.traffic[i] = v.traffic[i + L]
  BY <1>0 DEF IsRest
<1>3. ASSUME NEW i \in 1..Len(w.traffic), w.traffic[i] \in Word
      PROVE  w.traffic[i].client = c /\ (w.conn # "left" => w.traffic[i].n <= w.call.n)
  BY <1>2, <1>3 DEF Flowing
<1>4. ASSUME NEW i \in 1..Len(w.traffic), w.traffic[i] \in Word, w.traffic[i].at = "head"
      PROVE  \A n \in w.done : n < w.traffic[i].n
  BY <1>2, <1>4 DEF Flowing
<1>5. ASSUME NEW i \in 1..Len(w.traffic), w.traffic[i] \in Word, w.traffic[i].at = "head",
             NEW j \in 1..Len(w.traffic), i < j, w.traffic[j] \in Word, w.traffic[j].at = "head"
      PROVE  w.traffic[i].n < w.traffic[j].n
  <2>1. i + L < j + L
    BY <1>0, <1>5
  <2> QED
    BY <1>2, <1>5, <2>1 DEF Flowing
<1> QED
  BY <1>3, <1>4, <1>5 DEF Flowing

LEMMA RestMatching ==
  ASSUME NEW p, NEW c, NEW v, NEW w, NEW L, IsView(v), Matching(p, c, v), IsRest(w.traffic, v.traffic, L),
         w.conn = v.conn, w.call = v.call,
         p = "line" \/ w.traffic = v.traffic \/ w.traffic = <<>>,
         (w.traffic # <<>> /\ w.conn # "left") => w.down = v.down
  PROVE  Matching(p, c, w)
<1>0. Len(v.traffic) \in Nat /\ Len(w.traffic) \in Nat /\ L \in Nat
  BY LenProperties DEF IsView, IsRest
<1>2. \A i \in 1..Len(w.traffic) : i + L \in 1..Len(v.traffic) /\ w.traffic[i] = v.traffic[i + L]
  BY <1>0, SMTT(30) DEF IsRest
<1>3. w.traffic # <<>> => v.traffic # <<>>
  BY <1>0, EmptySeq DEF IsRest, IsView
<1>4. p = "line" => \A i \in 1..Len(w.traffic) : w.traffic[i] = LF => i = Len(w.traffic)
  BY <1>0, <1>2, SMTT(30) DEF Matching, IsRest
<1>5. \A i \in 1..Len(w.traffic) : w.traffic[i] \in Word =>
        IF w.conn = "left"
        THEN w.traffic[i].n = MaxCalls[c] + 1 /\ w.traffic[i].cmd = Quit
        ELSE w.traffic[i].n = w.call.n /\ w.traffic[i].cmd = w.call.cmd
  <2> SUFFICES ASSUME NEW i \in 1..Len(w.traffic), w.traffic[i] \in Word
               PROVE  IF w.conn = "left"
                      THEN w.traffic[i].n = MaxCalls[c] + 1 /\ w.traffic[i].cmd = Quit
                      ELSE w.traffic[i].n = w.call.n /\ w.traffic[i].cmd = w.call.cmd
    OBVIOUS
  <2>1. i + L \in 1..Len(v.traffic) /\ w.traffic[i] = v.traffic[i + L]
    BY <1>2
  <2> QED
    BY <2>1 DEF Matching
<1>6. p = "http" => (w.traffic = <<>> \/ (w.conn # "left" /\ w.traffic = HttpWire(c, w.call.n, w.call.cmd)))
  BY DEF Matching
<1>7. (w.traffic # <<>> /\ w.conn # "left") => w.call.phase = "line" /\ w.down = <<>>
  BY <1>3 DEF Matching
<1> QED
  BY <1>4, <1>5, <1>6, <1>7 DEF Matching

(* There was nothing to execute or answer.                                 *)
LEMMA ConsumedGood ==
  ASSUME NEW p, NEW c, NEW stray, NEW v, NEW w, NEW L, NEW live2, IsView(v),
         Good(p, c, stray, TRUE, v), SameSide(v, w), IsRest(w.traffic, v.traffic, L),
         p = "line" \/ w.traffic = v.traffic,
         w.up = v.up \/ v.traffic # <<>>
  PROVE  Good(p, c, stray, live2, w)
<1>1. Counted(c, w)
  BY DEF Good, Counted, SameSide
<1>2. ~stray => Told(p, w)
  <2> SUFFICES ASSUME ~stray PROVE Told(p, w)
    OBVIOUS
  <2>1. Told(p, v) /\ Matching(p, c, v) /\ Counted(c, v)
    BY DEF Good
  <2>2. CASE w.up = v.up
    BY <2>1, <2>2 DEF Told, IsReply, SameSide
  <2>3. CASE v.traffic # <<>>
    <3>1. v.call.phase # "idle" => v.down = <<>>
      BY <2>1, <2>3 DEF Matching, Counted
    <3> QED
      BY <2>1, <3>1 DEF Told, SameSide
  <2> QED
    BY <2>2, <2>3
<1>3. Flowing(c, w)
  BY RestFlowing DEF Good, SameSide
<1>4. ~stray => Matching(p, c, w)
  BY RestMatching DEF Good, SameSide
<1> QED
  BY <1>1, <1>2, <1>3, <1>4 DEF Good

(* A reply goes to a client that waits for it.                             *)
LEMMA RepliedTold ==
  ASSUME NEW p, NEW v, NEW w, v.call.phase = "line", w.call = v.call, w.down # <<>>, IsReply(p, w),
         (w.call.cmd.op = "SET" /\ w.call.n \in w.done) => w.up = <<>>
  PROVE  Told(p, w)
BY DEF Told

(* The client's side after the server has taken a text t from its traffic  *)
(* at place i, read up to L and sent lines.                                *)
Sent(c, v, w, t, i, L, lines) ==
  /\ w.conn = v.conn /\ w.call = v.call
  /\ t \in Word /\ L \in 0..Len(v.traffic) /\ i \in 1..L /\ v.traffic[i] = t
  /\ w.down = IF v.conn = "left" THEN v.down ELSE v.down \o lines

(* What the client had asked for, if it is not astray.                     *)
LEMMA SentTo ==
  ASSUME NEW p, NEW c, NEW v, NEW w, NEW t, NEW i, NEW L, NEW lines \in Seq(Answer),
         IsView(v), Counted(c, v), Matching(p, c, v), Told(p, v), Sent(c, v, w, t, i, L, lines), v.conn # "left"
  PROVE  /\ v.call.phase = "line" /\ v.down = <<>> /\ w.down = lines
         /\ t.n = v.call.n /\ t.cmd = v.call.cmd /\ t.cmd \in Commands
         /\ t.cmd.op = "SET" => v.call.n \notin v.done
<1>1. Len(v.traffic) \in Nat
  BY LenProperties DEF IsView
<1>2. i \in 1..Len(v.traffic) /\ v.traffic # <<>>
  BY <1>1, EmptySeq DEF Sent
<1>3. v.call.phase = "line" /\ v.down = <<>>
  BY <1>2 DEF Matching
<1>4. w.down = lines
  BY <1>3, ConcatEmptySeq DEF Sent
<1>5. t.n = v.call.n /\ t.cmd = v.call.cmd
  BY <1>2 DEF Matching, Sent
<1>6. v.call.n > 0 /\ v.call.cmd \in Commands
  BY <1>3 DEF Counted
<1>7. t.cmd.op = "SET" => v.call.n \notin v.done
  BY <1>3, <1>5 DEF Told
<1> QED
  BY <1>3, <1>4, <1>5, <1>6, <1>7

(* To a client that has left nothing is sent, and nothing is promised.     *)
LEMMA LeftTold ==
  ASSUME NEW p, NEW c, NEW v, NEW w, Counted(c, v), Told(p, v), v.conn = "left",
         w.call = v.call, w.down = v.down,
         v.call.n \in w.done <=> v.call.n \in v.done
  PROVE  Told(p, w)
<1>1. v.call.phase = "idle"
  BY DEF Counted
<1> QED
  BY <1>1 DEF Told

(* The server has answered a text with an error.                           *)
LEMMA RefusedGood ==
  ASSUME NEW p, NEW c, NEW stray, NEW v, NEW w, NEW t, NEW i, NEW L, NEW live2,
         IsView(v), IsView(w), Good(p, c, stray, TRUE, v),
         Sent(c, v, w, t, i, L, <<Reply(t.n, "-ERR")>>), w.done = v.done,
         live2 => IsRest(w.traffic, v.traffic, L) /\ (p = "line" \/ w.traffic = <<>>),
         (live2 /\ ~stray /\ v.conn # "left") => w.traffic = <<>>
  PROVE  Good(p, c, stray, live2, w)
<1> DEFINE lines == <<Reply(t.n, "-ERR")>>
<1>1. Counted(c, w)
  BY DEF Good, Counted, Sent
<1>2. lines \in Seq(Answer) /\ Len(lines) = 1 /\ lines[1].text = "-ERR" /\ lines # <<>>
  BY DEF Reply, Answer, Saying, Sent, Word
<1> HIDE DEF lines
<1>3. Sent(c, v, w, t, i, L, lines)
  BY DEF lines
<1>4. ~stray => Told(p, w)
  <2> SUFFICES ASSUME ~stray PROVE Told(p, w)
    OBVIOUS
  <2>1. Counted(c, v) /\ Told(p, v) /\ Matching(p, c, v)
    BY DEF Good
  <2>2. CASE v.conn = "left"
    BY <2>1, <2>2, LeftTold DEF Sent
  <2>3. CASE v.conn # "left"
    <3>1. /\ v.call.phase = "line" /\ w.down = lines
          /\ v.call.cmd.op = "SET" => v.call.n \notin v.done
      BY <1>2, <1>3, <2>1, <2>3, SentTo
    <3>2. w.call = v.call
      BY DEF Sent
    <3>3. IsReply(p, w)
      BY <1>2, <3>1, <3>2 DEF IsReply
    <3> QED
      BY <1>2, <3>1, <3>2, <3>3, RepliedTold
  <2> QED
    BY <2>2, <2>3
<1>5. live2 => Flowing(c, w)
  BY RestFlowing DEF Good, Sent
<1>6. live2 /\ ~stray => Matching(p, c, w)
  <2> SUFFICES ASSUME live2, ~stray PROVE Matching(p, c, w)
    OBVIOUS
  <2>1. (w.traffic # <<>> /\ w.conn # "left") => w.down = v.down
    BY DEF Sent
  <2> QED
    BY <2>1, RestMatching DEF Good, Sent
<1> QED
  BY <1>1, <1>4, <1>5, <1>6 DEF Good

(* What the server sends when it has executed a command.                   *)
IsOutcome(p, t, lines) ==
  /\ lines \in Seq(Answer) /\ Len(lines) \in 1..2
  /\ t.cmd.op = "SET" => Len(lines) = 1 /\ lines[1].text = "+OK"
  /\ t.cmd.op = "DEL" => Len(lines) = 1
  /\ t.cmd.op = "GET" => IF p = "http" THEN Len(lines) = 1
                         ELSE Len(lines) = IF lines[1].text = "$" THEN 2 ELSE 1

(* The server has executed the command of a head.                          *)
LEMMA ExecutedGood ==
  ASSUME NEW p, NEW c, NEW stray, NEW v, NEW w, NEW t, NEW i, NEW L, NEW live2, NEW lines,
         IsClient(p, c), IsView(v), IsView(w), Good(p, c, stray, TRUE, v),
         Sent(c, v, w, t, i, L, lines), t.at = "head", IsOutcome(p, t, lines), w.done = v.done \cup {t.n},
         live2 => IsRest(w.traffic, v.traffic, L),
         p = "line" \/ w.traffic = <<>>,
         (~stray /\ v.conn # "left") => w.traffic = <<>> /\ w.up = <<>>
  PROVE  Good(p, c, stray, live2, w)
<1>0. Len(v.traffic) \in Nat /\ L \in Nat /\ i \in Nat /\ t.n \in Nat
  BY LenProperties DEF IsView, Sent, Word
<1>1. i \in 1..Len(v.traffic)
  BY <1>0 DEF Sent
<1>2. Flowing(c, v) /\ Counted(c, v)
  BY DEF Good
<1>3. Counted(c, w)
  <2>1. v.conn # "left" => t.n <= v.call.n
    BY <1>1, <1>2 DEF Flowing, Sent
  <2> QED
    BY <1>2, <2>1 DEF Counted, Sent
<1>4. ~stray => Told(p, w)
  <2> SUFFICES ASSUME ~stray PROVE Told(p, w)
    OBVIOUS
  <2>1. Told(p, v) /\ Matching(p, c, v)
    BY DEF Good
  <2>2. CASE v.conn = "left"
    <3>1. t.n = MaxCalls[c] + 1
      BY <1>1, <2>1, <2>2 DEF Matching, Sent
    <3>2. t.n # v.call.n
      <4>1. MaxCalls[c] \in Nat /\ v.call.n \in Nat /\ v.call.n <= MaxCalls[c]
        BY <1>2 DEF Counted, IsClient, IsView, ACall
      <4> QED
        BY <3>1, <4>1
    <3> QED
      BY <1>2, <2>1, <2>2, <3>2, LeftTold DEF Sent
  <2>3. CASE v.conn # "left"
    <3>1. lines \in Seq(Answer)
      BY DEF IsOutcome
    <3>2. /\ v.call.phase = "line" /\ w.down = lines
          /\ t.n = v.call.n /\ t.cmd = v.call.cmd /\ t.cmd \in Commands
      BY <1>2, <2>1, <2>3, <3>1, SentTo
    <3>3. w.call = v.call
      BY DEF Sent
    <3>4. t.cmd.op \in {"SET", "GET", "DEL"}
      BY <3>2 DEF Commands
    <3>5. w.down # <<>>
      <4>1. Len(lines) # 0
        BY SMTT(30) DEF IsOutcome
      <4>2. lines # <<>>
        BY <4>1
      <4> QED
        BY <3>2, <4>2
    <3>6. IsReply(p, w)
      BY <3>2, <3>3, <3>4 DEF IsReply, IsOutcome, IsClient
    <3>7. w.up = <<>>
      BY <2>3
    <3> QED
      BY <3>2, <3>3, <3>5, <3>6, <3>7, RepliedTold
  <2> QED
    BY <2>2, <2>3
<1>5. live2 => Flowing(c, w)
  <2> SUFFICES ASSUME live2 PROVE Flowing(c, w)
    OBVIOUS
  <2>0. IsRest(w.traffic, v.traffic, L)
    OBVIOUS
  <2>1. ASSUME NEW j \in 1..Len(w.traffic), w.traffic[j] \in Word, w.traffic[j].at = "head"
        PROVE  t.n < w.traffic[j].n
    <3>1. Len(w.traffic) \in Nat
      BY LenProperties DEF IsView
    <3>2. j + L \in 1..Len(v.traffic) /\ w.traffic[j] = v.traffic[j + L] /\ i < j + L
      BY <1>0, <2>0, <3>1 DEF IsRest, Sent
    <3> QED
      BY <1>1, <1>2, <2>1, <3>2 DEF Flowing, Sent
  <2>2. \A j \in 1..Len(w.traffic) : (w.traffic[j] \in Word /\ w.traffic[j].at = "head") =>
          \A n \in w.done : n \in v.done \/ n < w.traffic[j].n
    BY <2>1
  <2> QED
    BY <1>2, <2>0, <2>2, RestFlowing DEF Sent
<1>6. live2 /\ ~stray => Matching(p, c, w)
  <2> SUFFICES ASSUME live2, ~stray PROVE Matching(p, c, w)
    OBVIOUS
  <2>1. (w.traffic # <<>> /\ w.conn # "left") => w.down = v.down
    BY DEF Sent
  <2>2. p = "line" \/ w.traffic = v.traffic \/ w.traffic = <<>>
    OBVIOUS
  <2> QED
    BY <2>1, <2>2, RestMatching DEF Good, Sent
<1> QED
  BY <1>3, <1>4, <1>5, <1>6 DEF Good

(* What a call puts on its way.                                            *)
LEMMA WireIs ==
  ASSUME NEW c \in Clients, NEW n \in Nat, NEW cmd \in Commands \cup {Quit},
         NEW wire, wire = LineWire(c, n, cmd) \/ wire = HttpWire(c, n, cmd)
  PROVE  /\ wire \in Seq(Piece)
         /\ \A i \in 1..Len(wire) : wire[i] \in Word =>
              wire[i].client = c /\ wire[i].n = n /\ wire[i].cmd = cmd /\ (wire[i].at = "head" => i = 1)
<1> DEFINE head == Text("head", c, n, cmd)
           tail == Text("tail", c, n, cmd)
<1>1. head \in Word /\ head.client = c /\ head.n = n /\ head.cmd = cmd
  BY DEF Text, Word
<1>2. tail \in Word /\ tail.client = c /\ tail.n = n /\ tail.cmd = cmd /\ tail.at # "head"
  BY DEF Text, Word
<1>3. CR \notin Word /\ LF \notin Word /\ BlankLine \notin Word
  BY DEF CR, LF, BlankLine, Word
<1>4. \/ wire = <<head, tail>> \/ wire = <<head, CR, LF, tail, CR, LF>> \/ wire = <<head, tail, CR, LF>>
      \/ wire = <<head, BlankLine, tail>> \/ wire = <<>> \/ wire = <<head, BlankLine>>
  BY DEF LineWire, HttpWire
<1> HIDE DEF head, tail
<1>5. CASE wire = <<head, tail>>
  BY <1>1, <1>2, <1>5 DEF Piece
<1>6. CASE wire = <<head, CR, LF, tail, CR, LF>>
  BY <1>1, <1>2, <1>3, <1>6 DEF Piece
<1>7. CASE wire = <<head, tail, CR, LF>>
  BY <1>1, <1>2, <1>3, <1>7 DEF Piece
<1>8. CASE wire = <<head, BlankLine, tail>>
  BY <1>1, <1>2, <1>3, <1>8 DEF Piece
<1>9. CASE wire = <<>>
  BY <1>9
<1>10. CASE wire = <<head, BlankLine>>
  BY <1>1, <1>3, <1>10 DEF Piece
<1> QED
  BY <1>4, <1>5, <1>6, <1>7, <1>8, <1>9, <1>10

BreaksLines(cmd) == KindOfCommand(cmd) = "line break"

(* Without a line break in its value a command has one line feed.          *)
LEMMA OneLineEnd ==
  ASSUME NEW c \in Clients, NEW n \in Nat, NEW cmd \in Commands \cup {Quit}, ~BreaksLines(cmd),
         NEW wire, wire = LineWire(c, n, cmd)
  PROVE  \A i \in 1..Len(wire) : wire[i] = LF => i = Len(wire)
<1> DEFINE head == Text("head", c, n, cmd)
           tail == Text("tail", c, n, cmd)
<1>1. head # LF /\ tail # LF /\ CR # LF
  BY DEF Text, CR, LF
<1>2. wire = <<head, tail>> \/ wire = <<head, tail, CR, LF>>
  BY DEF LineWire, BreaksLines
<1> HIDE DEF head, tail
<1>3. CASE wire = <<head, tail>>
  <2>1. Len(wire) = 2 /\ wire[1] = head /\ wire[2] = tail
    BY <1>3
  <2> QED
    BY <1>1, <2>1
<1>4. CASE wire = <<head, tail, CR, LF>>
  <2>1. Len(wire) = 4 /\ wire[1] = head /\ wire[2] = tail /\ wire[3] = CR /\ wire[4] = LF
    BY <1>4
  <2> QED
    BY <1>1, <2>1
<1> QED
  BY <1>2, <1>3, <1>4

(* The client has called: what goes on its way stands behind the rest.     *)
Wires(p, c, v, w, n, cmd, wire) ==
  /\ wire = IF p = "line" THEN LineWire(c, n, cmd) ELSE HttpWire(c, n, cmd)
  /\ w.traffic = v.traffic \o wire

LEMMA CalledFlowing ==
  ASSUME NEW p, NEW c \in Clients, NEW v, NEW w, NEW n \in Nat, NEW cmd \in Commands \cup {Quit}, NEW wire,
         IsView(v), Flowing(c, v), Wires(p, c, v, w, n, cmd, wire), w.done = v.done,
         w.conn # "left" => v.conn # "left" /\ v.call.n <= w.call.n /\ n <= w.call.n /\ w.call.n \in Nat,
         \A i \in 1..Len(v.traffic) : v.traffic[i] \in Word => v.traffic[i].n < n,
         \A m \in v.done : m < n
  PROVE  Flowing(c, w)
<1>1. /\ wire \in Seq(Piece)
      /\ \A i \in 1..Len(wire) : wire[i] \in Word =>
           wire[i].client = c /\ wire[i].n = n /\ wire[i].cmd = cmd /\ (wire[i].at = "head" => i = 1)
  BY WireIs DEF Wires
<1>2. Len(v.traffic) \in Nat /\ Len(wire) \in Nat /\ v.call.n \in Nat
  BY <1>1, LenProperties DEF IsView, ACall
<1>3. /\ Len(w.traffic) = Len(v.traffic) + Len(wire)
      /\ \A i \in 1..Len(v.traffic) + Len(wire) :
           w.traffic[i] = IF i <= Len(v.traffic) THEN v.traffic[i] ELSE wire[i - Len(v.traffic)]
  <2>1. w.traffic = v.traffic \o wire /\ v.traffic \in Seq(Piece)
    BY DEF IsView, Wires
  <2> QED
    BY <1>1, <2>1, ConcatProperties
<1>4. \A i \in 1..Len(w.traffic) :
        \/ i \in 1..Len(v.traffic) /\ w.traffic[i] = v.traffic[i]
        \/ i - Len(v.traffic) \in 1..Len(wire) /\ w.traffic[i] = wire[i - Len(v.traffic)] /\ i > Len(v.traffic)
  BY <1>2, <1>3
<1>5. \A a \in Word : a.n \in Nat
  BY DEF Word
<1>6. ASSUME NEW i \in 1..Len(w.traffic), w.traffic[i] \in Word
      PROVE  w.traffic[i].client = c /\ (w.conn # "left" => w.traffic[i].n <= w.call.n)
  <2>1. CASE i \in 1..Len(v.traffic) /\ w.traffic[i] = v.traffic[i]
    BY <1>2, <1>5, <1>6, <2>1 DEF Flowing
  <2>2. CASE i - Len(v.traffic) \in 1..Len(wire) /\ w.traffic[i] = wire[i - Len(v.traffic)]
    BY <1>1, <1>6, <2>2
  <2> QED
    BY <1>4, <2>1, <2>2
<1>7. ASSUME NEW i \in 1..Len(w.traffic), w.traffic[i] \in Word, w.traffic[i].at = "head"
      PROVE  \A m \in w.done : m < w.traffic[i].n
  <2>1. CASE i \in 1..Len(v.traffic) /\ w.traffic[i] = v.traffic[i]
    BY <1>7, <2>1 DEF Flowing
  <2>2. CASE i - Len(v.traffic) \in 1..Len(wire) /\ w.traffic[i] = wire[i - Len(v.traffic)]
    BY <1>1, <1>7, <2>2
  <2> QED
    BY <1>4, <2>1, <2>2
<1>8. ASSUME NEW i \in 1..Len(w.traffic), w.traffic[i] \in Word, w.traffic[i].at = "head",
             NEW j \in 1..Len(w.traffic), i < j, w.traffic[j] \in Word, w.traffic[j].at = "head"
      PROVE  w.traffic[i].n < w.traffic[j].n
  <2>1. CASE j \in 1..Len(v.traffic) /\ w.traffic[j] = v.traffic[j]
    <3>1. i \in 1..Len(v.traffic) /\ w.traffic[i] = v.traffic[i]
      BY <1>2, <1>3, <1>8, <2>1
    <3> QED
      BY <1>8, <2>1, <3>1 DEF Flowing
  <2>2. CASE j - Len(v.traffic) \in 1..Len(wire) /\ w.traffic[j] = wire[j - Len(v.traffic)] /\ j > Len(v.traffic)
    <3>1. j - Len(v.traffic) = 1 /\ w.traffic[j].n = n
      BY <1>1, <1>8, <2>2
    <3>2. i \in Nat /\ j \in Nat /\ 1 <= i
      BY <1>2, <1>3
    <3>3. i \in 1..Len(v.traffic)
      BY <1>2, <1>8, <3>1, <3>2
    <3>4. w.traffic[i] = v.traffic[i]
      BY <1>2, <1>3, <3>3
    <3> QED
      BY <1>8, <3>1, <3>3, <3>4
  <2> QED
    BY <1>4, <2>1, <2>2
<1> QED
  BY <1>6, <1>7, <1>8 DEF Flowing

CallsFor(v, w, cmd) == w.call.n = v.call.n + 1 /\ w.call.cmd = cmd /\ w.call.phase = "line"

LEMMA CalledGood ==
  ASSUME NEW p, NEW c \in Clients, NEW stray, NEW stray2, NEW live, NEW v, NEW w, NEW wire, NEW cmd \in Commands,
         IsClient(p, c), IsView(v), Good(p, c, stray, live, v),
         v.conn = "up", v.call.phase = "idle", v.call.n < MaxCalls[c],
         w.conn = v.conn, w.down = v.down, w.done = v.done,
         CallsFor(v, w, cmd),
         Wires(p, c, v, w, v.call.n + 1, cmd, wire),
         stray \/ (p = "line" /\ BreaksLines(cmd)) => stray2
  PROVE  Good(p, c, stray2, live, w)
<1> DEFINE n == v.call.n + 1
<1>1. v.call.n \in Nat /\ n \in Nat /\ v.done \subseteq Nat /\ MaxCalls[c] \in Nat
  BY DEF IsView, ACall, IsClient
<1>2. Counted(c, v) /\ \A m \in v.done : m < n
  BY <1>1 DEF Good, Counted
<1>3. w.call.n = n /\ w.call.cmd = cmd /\ w.call.phase = "line"
  BY DEF CallsFor
<1> HIDE DEF n
<1>4. Counted(c, w)
  BY <1>1, <1>2, <1>3 DEF Counted, n
<1>5. ~stray2 => Told(p, w)
  <2> SUFFICES ASSUME ~stray2 PROVE Told(p, w)
    OBVIOUS
  <2>1. Told(p, v)
    BY DEF Good
  <2>2. w.down = <<>>
    BY <2>1 DEF Told
  <2>3. w.call.n \notin w.done
    BY <1>1, <1>2, <1>3
  <2> QED
    BY <1>3, <2>2, <2>3 DEF Told
<1>6. live => Flowing(c, w)
  <2> SUFFICES ASSUME live PROVE Flowing(c, w)
    OBVIOUS
  <2>1. Flowing(c, v)
    BY DEF Good
  <2>2. Wires(p, c, v, w, n, cmd, wire)
    BY DEF n
  <2>3. \A i \in 1..Len(v.traffic) : v.traffic[i] \in Word => v.traffic[i].n < n
    BY <1>1, <2>1 DEF Flowing, Word, n
  <2>4. v.call.n <= w.call.n /\ n <= w.call.n /\ w.call.n \in Nat
    BY <1>1, <1>3 DEF n
  <2> QED
    BY <1>1, <1>2, <2>1, <2>2, <2>3, <2>4, CalledFlowing
<1>7. live /\ ~stray2 => Matching(p, c, w)
  <2> SUFFICES ASSUME live, ~stray2 PROVE Matching(p, c, w)
    OBVIOUS
  <2>1. Matching(p, c, v) /\ Told(p, v)
    BY DEF Good
  <2>2. v.traffic = <<>> /\ v.down = <<>>
    BY <2>1 DEF Matching, Told
  <2>3. wire = LineWire(c, n, cmd) \/ wire = HttpWire(c, n, cmd)
    BY DEF Wires, n
  <2>4. /\ wire \in Seq(Piece)
        /\ \A i \in 1..Len(wire) : wire[i] \in Word => wire[i].client = c /\ wire[i].n = n /\ wire[i].cmd = cmd
    BY <1>1, <2>3, WireIs
  <2>5. w.traffic = wire
    <3>1. w.traffic = v.traffic \o wire
      BY DEF Wires
    <3> QED
      BY <2>2, <2>4, <3>1, ConcatEmptySeq
  <2>6. p = "line" => \A i \in 1..Len(wire) : wire[i] = LF => i = Len(wire)
    <3> SUFFICES ASSUME p = "line" PROVE \A i \in 1..Len(wire) : wire[i] = LF => i = Len(wire)
      OBVIOUS
    <3>1. wire = LineWire(c, n, cmd)
      BY DEF Wires, n
    <3>2. ~BreaksLines(cmd)
      OBVIOUS
    <3> QED
      BY <1>1, <3>1, <3>2, OneLineEnd
  <2>7. p = "http" => wire = HttpWire(c, w.call.n, w.call.cmd)
    BY <1>3 DEF Wires, n
  <2> QED
    BY <1>3, <2>2, <2>4, <2>5, <2>6, <2>7 DEF Matching
<1> QED
  BY <1>4, <1>5, <1>6, <1>7 DEF Good

(* The client has said goodbye.                                            *)
LEMMA LeftGood ==
  ASSUME NEW p, NEW c \in Clients, NEW stray, NEW live, NEW v, NEW w, NEW wire,
         IsClient(p, c), IsView(v), Good(p, c, stray, live, v),
         v.conn # "left", v.call.phase = "idle", live => v.conn = "up",
         w.conn = "left", w.down = <<>>, w.done = v.done, w.call = v.call,
         v.conn = "up" => Wires(p, c, v, w, MaxCalls[c] + 1, Quit, wire)
  PROVE  Good(p, c, stray, live, w)
<1> DEFINE n == MaxCalls[c] + 1
<1>1. v.call.n \in Nat /\ n \in Nat /\ v.done \subseteq Nat /\ MaxCalls[c] \in Nat
  BY DEF IsView, ACall, IsClient
<1>2. Counted(c, v) /\ \A m \in v.done : m < n
  BY <1>1 DEF Good, Counted
<1>3. v.call.n < n
  BY <1>1, <1>2 DEF Counted
<1>4. Counted(c, w)
  BY <1>2 DEF Counted
<1>5. ~stray => Told(p, w)
  BY DEF Good, Told
<1>6. live => Flowing(c, w)
  <2> SUFFICES ASSUME live PROVE Flowing(c, w)
    OBVIOUS
  <2>1. Flowing(c, v)
    BY DEF Good
  <2>2. Wires(p, c, v, w, n, Quit, wire)
    OBVIOUS
  <2>3. \A i \in 1..Len(v.traffic) : v.traffic[i] \in Word => v.traffic[i].n < n
    <3> HIDE DEF n
    <3> QED
      BY <1>1, <1>3, <2>1 DEF Flowing, Word
  <2> HIDE DEF n
  <2> QED
    BY <1>1, <1>2, <2>1, <2>2, <2>3, CalledFlowing
<1>7. live /\ ~stray => Matching(p, c, w)
  <2> SUFFICES ASSUME live, ~stray PROVE Matching(p, c, w)
    OBVIOUS
  <2>1. Matching(p, c, v)
    BY DEF Good
  <2>2. v.traffic = <<>>
    BY <2>1 DEF Matching
  <2>3. wire = LineWire(c, n, Quit) \/ wire = HttpWire(c, n, Quit)
    BY DEF Wires
  <2>4. /\ wire \in Seq(Piece)
        /\ \A i \in 1..Len(wire) : wire[i] \in Word => wire[i].client = c /\ wire[i].n = n /\ wire[i].cmd = Quit
    <3> HIDE DEF n
    <3> QED
      BY <1>1, <2>3, WireIs
  <2>5. w.traffic = wire
    <3>1. w.traffic = v.traffic \o wire
      BY DEF Wires
    <3> QED
      BY <2>2, <2>4, <3>1, ConcatEmptySeq
  <2>6. p = "line" => \A i \in 1..Len(wire) : wire[i] = LF => i = Len(wire)
    <3> SUFFICES ASSUME p = "line" PROVE \A i \in 1..Len(wire) : wire[i] = LF => i = Len(wire)
      OBVIOUS
    <3>1. wire = LineWire(c, n, Quit)
      BY DEF Wires
    <3>2. ~BreaksLines(Quit)
      BY DEF BreaksLines, KindOfCommand, Quit
    <3> HIDE DEF n
    <3> QED
      BY <1>1, <3>1, <3>2, OneLineEnd
  <2>7. p = "http" => wire = <<>>
    BY DEF Wires, HttpWire, Quit
  <2> QED
    BY <2>2, <2>4, <2>5, <2>6, <2>7 DEF Matching
<1> QED
  BY <1>4, <1>5, <1>6, <1>7 DEF Good

(* A call has returned or read the first line of its reply.                *)
LEMMA TakenGood ==
  ASSUME NEW p, NEW c, NEW stray, NEW live, NEW v, NEW w, IsView(v), Good(p, c, stray, live, v),
         v.call.phase # "idle", live => v.down # <<>>,
         w.conn = v.conn, w.up = v.up, w.traffic = v.traffic, w.done = v.done,
         w.call.n = v.call.n, w.call.cmd = v.call.cmd,
         ~stray => Told(p, w)
  PROVE  Good(p, c, stray, live, w)
<1>1. v.conn # "left" /\ v.call.n > 0
  BY DEF Good, Counted
<1>2. Counted(c, w)
  BY <1>1 DEF Good, Counted
<1>3. live => Flowing(c, w)
  BY DEF Good, Flowing
<1>4. live /\ ~stray => Matching(p, c, w)
  <2> SUFFICES ASSUME live, ~stray PROVE Matching(p, c, w)
    OBVIOUS
  <2>1. v.traffic = <<>>
    BY <1>1 DEF Good, Matching
  <2>2. Len(w.traffic) = 0
    BY <2>1
  <2> QED
    BY <2>1, <2>2 DEF Matching
<1> QED
  BY <1>2, <1>3, <1>4 DEF Good

-----------------------------------------------------------------------------
(* The views that occur.                                                   *)

LEMMA ViewFields ==
  \A c : /\ View(c).conn = conn[c] /\ View(c).call = call[c] /\ View(c).down = down[c] /\ View(c).up = up[c]
         /\ View(c).traffic = Traffic(c) /\ View(c).done = Done(c)
BY DEF View

LEMMA ViewFieldsNext ==
  \A c : /\ View(c)'.conn = conn'[c] /\ View(c)'.call = call'[c] /\ View(c)'.down = down'[c]
         /\ View(c)'.up = up'[c] /\ View(c)'.traffic = Traffic(c)' /\ View(c)'.done = Done(c)'
BY DEF View

LEMMA DoneType == Types => \A c \in Clients : Done(c) \subseteq Nat
<1> SUFFICES ASSUME Types, NEW c \in Clients, NEW i \in 1..Len(executed) PROVE executed[i].n \in Nat
  BY DEF Done
<1>1. executed[i] \in Ran
  BY ElementOfSeq DEF Types
<1> QED
  BY <1>1 DEF Ran

LEMMA TrafficType == Types => \A c \in Clients : Traffic(c) \in Seq(Piece)
<1> SUFFICES ASSUME Types, NEW c \in Clients PROVE Traffic(c) \in Seq(Piece)
  OBVIOUS
<1> DEFINE b == IF serving = c THEN buf ELSE <<>>
<1>1. b \in Seq(Piece) /\ up[c] \in Seq(Piece)
  BY EmptySeq DEF Types
<1> HIDE DEF b
<1>2. b \o up[c] \in Seq(Piece)
  BY <1>1, ConcatProperties
<1> QED
  BY <1>2 DEF Traffic, b

LEMMA ViewsAre == Types => \A c \in Clients : IsView(View(c))
<1> SUFFICES ASSUME Types, NEW c \in Clients PROVE IsView(View(c))
  OBVIOUS
<1>1. call[c] \in ACall /\ down[c] \in Seq(Answer) /\ up[c] \in Seq(Piece)
  BY DEF Types
<1>2. Traffic(c) \in Seq(Piece) /\ Done(c) \subseteq Nat
  BY TrafficType, DoneType
<1> QED
  BY <1>1, <1>2, ViewFields DEF IsView

LEMMA ViewsNext == Types' => (\A c \in Clients : IsView(View(c)))'
BY ViewsAre, PTL

LEMMA ClientsAre == Types => \A c \in Clients : IsClient(protocol, c)
BY ServerAssumption DEF Types, IsClient

(* A step that concerns others.                                            *)
Untouched(d) ==
  /\ call'[d] = call[d] /\ down'[d] = down[d] /\ up'[d] = up[d] /\ Done(d)' = Done(d)
  /\ conn'[d] = "left" <=> conn[d] = "left"
  /\ Live(d)' => Live(d) /\ conn'[d] = conn[d] /\ Traffic(d)' = Traffic(d)
  /\ protocol' = protocol
  /\ d \in astray' <=> d \in astray

LEMMA UntouchedClient ==
  ASSUME NEW d \in Clients, Client(d), Untouched(d)
  PROVE  Client(d)'
<1> DEFINE v == View(d)
           w == View(d)'
           s == d \in astray
           l == Live(d)
           l2 == Live(d)'
<1>1. Good(protocol, d, s, l, v)
  BY DEF Client
<1>2. w.call = v.call /\ w.down = v.down /\ w.done = v.done /\ w.up = v.up
  BY ViewFields, ViewFieldsNext DEF Untouched
<1>3. l2 => l /\ w.conn = v.conn /\ w.traffic = v.traffic
  BY ViewFields, ViewFieldsNext DEF Untouched
<1>4. (w.conn = "left") <=> (v.conn = "left")
  BY ViewFields, ViewFieldsNext DEF Untouched
<1> HIDE DEF v, w, s, l, l2
<1>5. Good(protocol, d, s, l2, w)
  BY <1>1, <1>2, <1>3, <1>4, FrameGood
<1>6. Good(protocol', d, (d \in astray)', Live(d)', View(d)')
  <2>1. protocol' = protocol /\ (d \in astray)' = s
    BY DEF Untouched, s
  <2> QED
    BY <1>5, <2>1 DEF w, l2
<1> QED
  BY <1>6 DEF Client

(* The history of a client that is neither served nor new stays.           *)
LEMMA DoneSame == executed' = executed => \A d : Done(d)' = Done(d)
BY DEF Done

LEMMA DoneMore ==
  ASSUME executed \in Seq(Ran), NEW x \in Clients, NEW m \in Nat,
         executed' = Append(executed, [client |-> x, n |-> m])
  PROVE  /\ Done(x)' = Done(x) \cup {m}
         /\ \A d \in Clients : d # x => Done(d)' = Done(d)
         /\ executed' \in Seq(Ran)
         /\ Len(executed') = Len(executed) + 1 /\ Len(executed) \in Nat
         /\ executed'[Len(executed) + 1] = [client |-> x, n |-> m]
         /\ \A i \in 1..Len(executed) : executed'[i] = executed[i]
<1> DEFINE r == [client |-> x, n |-> m]
<1>1. r \in Ran /\ r.client = x /\ r.n = m
  BY DEF Ran
<1> HIDE DEF r
<1>2. executed' = Append(executed, r)
  BY DEF r
<1>3. /\ executed' \in Seq(Ran) /\ Len(executed') = Len(executed) + 1
      /\ \A i \in 1..Len(executed) : executed'[i] = executed[i]
      /\ executed'[Len(executed) + 1] = r
  BY <1>1, <1>2, AppendProperties
<1>4. Len(executed) \in Nat
  BY LenProperties
<1>5. 1..Len(executed') = 1..Len(executed) \cup {Len(executed) + 1}
  BY <1>3, <1>4
<1>6. Done(x)' = Done(x) \cup {m}
  BY <1>1, <1>3, <1>4, <1>5 DEF Done
<1>7. ASSUME NEW d \in Clients, d # x PROVE Done(d)' = Done(d)
  BY <1>1, <1>3, <1>4, <1>5, <1>7 DEF Done
<1> QED
  BY <1>3, <1>4, <1>6, <1>7 DEF r

(* A step without an execution.                                            *)
LEMMA ServedKeeps ==
  ASSUME Types, Served, executed' = executed,
         \A c \in Clients : conn'[c] = "new" => conn[c] = "new",
         \A c \in Clients : c \in Waiting' => c \in Waiting \/ conn[c] = "new",
         serving' = serving \/ serving' \notin Clients \/ serving' \in Waiting
  PROVE  Served'
<1>1. \A i \in 1..Len(executed) : executed[i].client \in Clients
  <2> SUFFICES ASSUME NEW i \in 1..Len(executed) PROVE executed[i].client \in Clients
    OBVIOUS
  <2>1. executed[i] \in Ran
    BY ElementOfSeq DEF Types
  <2> QED
    BY <2>1 DEF Ran
<1>2. ExecutedInOrder'
  BY DEF Served, ExecutedInOrder
<1>3. ASSUME NEW i \in 1..Len(executed')
      PROVE  /\ conn'[executed'[i].client] # "new"
             /\ executed'[i].client \notin Waiting'
             /\ executed'[i].client = serving' => executed'[Len(executed')].client = serving'
  BY <1>1, <1>3 DEF Served
<1> QED
  BY <1>2, <1>3 DEF Served

-----------------------------------------------------------------------------
(* Steps that neither move nor answer anything.                            *)

LEMMA WaitingIs == Types => ToSet(backlog) = Waiting /\ Len(backlog) \in Nat
<1> SUFFICES ASSUME Types PROVE ToSet(backlog) = Waiting /\ Len(backlog) \in Nat
  OBVIOUS
<1>1. DOMAIN backlog = 1..Len(backlog) /\ Len(backlog) \in Nat
  BY LenProperties DEF Types
<1> QED
  BY <1>1 DEF ToSet, Waiting

LEMMA NobodyWaits == backlog' = <<>> => Waiting' = {} /\ Len(backlog') = 0
BY DEF Waiting

Quiet ==
  /\ executed' = executed /\ protocol' = protocol /\ call' = call /\ down' = down /\ up' = up /\ astray' = astray
  /\ \A c \in Clients : conn'[c] = conn[c] \/ (conn[c] = "up" /\ conn'[c] = "closed" /\ ~Live(c)')
  /\ \A c \in Clients : Live(c)' => Live(c) /\ Traffic(c)' = Traffic(c)
  /\ Waiting' \subseteq Waiting
  /\ serving' = serving \/ serving' \notin Clients \/ serving' \in Waiting

LEMMA QuietInv ==
  ASSUME Invariant, Quiet, Types', Plumbing'
  PROVE  Invariant'
<1>1. Served'
  BY ServedKeeps DEF Invariant, Quiet
<1>2. ASSUME NEW d \in Clients PROVE Client(d)'
  <2>1. Client(d)
    BY DEF Invariant
  <2>2. Done(d)' = Done(d)
    BY DoneSame DEF Quiet
  <2>3. Untouched(d)
    BY <2>2 DEF Untouched, Quiet
  <2> QED
    BY <2>1, <2>3, UntouchedClient
<1> QED
  BY <1>1, <1>2 DEF Invariant

(* The streams and the sides of the clients stay as they are.              *)
SameStreams == UNCHANGED <<executed, protocol, call, down, up, astray>>

(* The listening socket goes, and with it who waits at it.                 *)
LEMMA ResetIs ==
  ASSUME Types, Reset, backlog' = <<>>
  PROVE  /\ conn' \in [Clients -> {"new", "up", "closed", "left"}]
         /\ \A c \in Clients : conn'[c] = IF c \in Waiting /\ conn[c] = "up" THEN "closed" ELSE conn[c]
         /\ Waiting' = {} /\ Len(backlog') = 0 /\ backlog' \in Seq(Clients)
<1>1. conn' = [c \in Clients |-> IF c \in Waiting /\ conn[c] = "up" THEN "closed" ELSE conn[c]]
  BY WaitingIs DEF Reset
<1>2. conn \in [Clients -> {"new", "up", "closed", "left"}]
  BY DEF Types
<1> QED
  BY <1>1, <1>2, NobodyWaits, EmptySeq

LEMMA ResetInv ==
  ASSUME Invariant, SameStreams, Reset, backlog' = <<>>,
         UNCHANGED <<serving, buf, cache>>, running' \in BOOLEAN,
         pc' \in {"off", "listening", "opening", "accept", "recv", "lines", "done"},
         (serving # None) <=> (pc' \in {"recv", "lines", "done"}),
         pc' \in {"recv", "lines"} => pc' = pc
  PROVE  Invariant'
<1>0. Types /\ Plumbing
  BY DEF Invariant
<1>1. /\ conn' \in [Clients -> {"new", "up", "closed", "left"}]
      /\ \A c \in Clients : conn'[c] = IF c \in Waiting /\ conn[c] = "up" THEN "closed" ELSE conn[c]
      /\ Waiting' = {} /\ Len(backlog') = 0 /\ backlog' \in Seq(Clients)
  BY <1>0, ResetIs
<1>2. Types'
  BY <1>0, <1>1 DEF Types, SameStreams
<1>3. serving # None => serving \notin Waiting
  BY <1>0 DEF Plumbing, Waiting
<1>4. Plumbing'
  <2>1. serving' # None => conn'[serving'] \in {"up", "left"}
    BY <1>0, <1>1, <1>3 DEF Plumbing, Types
  <2>2. \A c \in Clients : conn'[c] = "new" => up'[c] = <<>>
    BY <1>0, <1>1 DEF Plumbing, SameStreams
  <2> QED
    BY <1>0, <1>1, <2>1, <2>2 DEF Plumbing, SameStreams
<1>5. \A c \in Clients : Traffic(c)' = Traffic(c)
  BY DEF Traffic, SameStreams
<1>6. \A c \in Clients : Live(c)' => Live(c) /\ serving = c
  BY <1>1 DEF Live
<1>7. \A c \in Clients : c \in Waiting => ~Live(c)'
  BY <1>0, <1>3, <1>6, ServerAssumption
<1>8. Quiet
  BY <1>1, <1>5, <1>6, <1>7 DEF Quiet, SameStreams
<1> QED
  BY <1>2, <1>4, <1>8, QuietInv

(* Only the thread moves.                                                  *)
LEMMA MoveInv ==
  ASSUME Invariant, SameStreams, UNCHANGED <<backlog, serving, buf, cache, conn>>, running' \in BOOLEAN,
         pc' \in {"off", "listening", "opening", "accept", "recv", "lines", "done"},
         (serving # None) <=> (pc' \in {"recv", "lines", "done"}),
         pc' \in {"recv", "lines"} => pc' = pc
  PROVE  Invariant'
<1>0. Types /\ Plumbing
  BY DEF Invariant
<1>1. Types'
  BY <1>0 DEF Types, SameStreams
<1>2. Plumbing'
  BY <1>0 DEF Plumbing, SameStreams
<1>3. \A c \in Clients : Traffic(c)' = Traffic(c)
  BY DEF Traffic, SameStreams
<1>4. Waiting' = Waiting
  BY DEF Waiting
<1>5. \A c \in Clients : Live(c)' => Live(c)
  BY <1>4 DEF Live
<1>6. Quiet
  BY <1>3, <1>4, <1>5 DEF Quiet, SameStreams
<1> QED
  BY <1>1, <1>2, <1>6, QuietInv

LEMMA ListenInv == Invariant /\ Listen => Invariant'
<1> SUFFICES ASSUME Invariant, Listen PROVE Invariant'
  OBVIOUS
<1>1. serving = None /\ running \in BOOLEAN
  BY DEF Invariant, Types, Plumbing, Listen
<1> QED
  BY <1>1, MoveInv DEF Listen, SameStreams, clientVars, histories

LEMMA PublishInv == Invariant /\ Publish => Invariant'
<1> SUFFICES ASSUME Invariant, Publish PROVE Invariant'
  OBVIOUS
<1>1. serving = None /\ running \in BOOLEAN
  BY DEF Invariant, Types, Plumbing, Publish
<1> QED
  BY <1>1, MoveInv DEF Publish, SameStreams, clientVars, histories

LEMMA OpenCacheInv == Invariant /\ OpenCache => Invariant'
<1> SUFFICES ASSUME Invariant, OpenCache PROVE Invariant'
  OBVIOUS
<1>1. serving = None /\ running \in BOOLEAN
  BY DEF Invariant, Types, Plumbing, OpenCache
<1>2. CASE running /\ pc' = "accept" /\ UNCHANGED <<running, listening, backlog, conn>>
  BY <1>1, <1>2, MoveInv DEF OpenCache, SameStreams, histories
<1>3. CASE Reset /\ backlog' = <<>> /\ pc' = "off" /\ running' \in BOOLEAN
  BY <1>1, <1>3, ResetInv DEF OpenCache, SameStreams, histories
<1> QED
  BY <1>1, <1>2, <1>3 DEF OpenCache, Shutdown

LEMMA RecvEndInv == Invariant /\ RecvEnd => Invariant'
<1> SUFFICES ASSUME Invariant, RecvEnd PROVE Invariant'
  OBVIOUS
<1>1. serving # None /\ running \in BOOLEAN
  BY DEF Invariant, Types, Plumbing, RecvEnd
<1> QED
  BY <1>1, MoveInv DEF RecvEnd, SameStreams, clientVars, histories

LEMMA StopInv == Invariant /\ Stop => Invariant'
<1> SUFFICES ASSUME Invariant, Stop PROVE Invariant'
  OBVIOUS
<1>1. /\ (serving # None) <=> (pc \in {"recv", "lines", "done"})
      /\ pc \in {"off", "listening", "opening", "accept", "recv", "lines", "done"}
      /\ running' = FALSE /\ SameStreams /\ UNCHANGED <<serving, buf, cache>>
  BY DEF Invariant, Types, Plumbing, Stop, SameStreams, histories
<1>2. CASE pc = "accept" /\ Shutdown /\ Reset
  BY <1>1, <1>2, ResetInv DEF Shutdown
<1>3. CASE pc = "accept" /\ UNCHANGED <<pc, listening, backlog, conn>>
  BY <1>1, <1>3, MoveInv
<1>4. CASE pc' \in (IF pc = "recv" /\ ~IsComplete(buf) /\ ~IsTooLarge(buf) THEN {"recv", "done"} ELSE {pc})
           /\ backlog' = <<>> /\ Reset
  <2>1. pc' = pc \/ (pc = "recv" /\ pc' = "done")
    BY <1>4
  <2> QED
    BY <1>1, <1>4, <2>1, ResetInv
<1> QED
  BY <1>2, <1>3, <1>4 DEF Stop

LEMMA AcceptInv == Invariant /\ Accept => Invariant'
<1> SUFFICES ASSUME Invariant, Accept PROVE Invariant'
  OBVIOUS
<1>0. Types /\ Plumbing /\ SameStreams /\ UNCHANGED <<running, buf, cache, conn>>
  BY DEF Invariant, Accept, SameStreams, clientVars, histories
<1>1. /\ serving' = Head(backlog) /\ backlog' = Tail(backlog) /\ backlog # <<>> /\ backlog \in Seq(Clients)
      /\ pc = "accept" /\ pc' = IF running THEN "recv" ELSE "done"
  BY <1>0 DEF Accept, Types
<1>2. Len(backlog) \in Nat /\ Len(backlog) # 0
  BY <1>1, LenProperties, EmptySeq
<1>3. /\ serving' = backlog[1] /\ serving' \in Clients /\ backlog' \in Seq(Clients)
      /\ Len(backlog') = Len(backlog) - 1
      /\ \A i \in 1..Len(backlog') : backlog'[i] = backlog[i + 1]
  BY <1>1, HeadTailProperties
<1>4. serving = None /\ buf = <<>>
  BY <1>0, <1>1 DEF Plumbing
<1>5. serving' # None
  BY <1>3, ServerAssumption
<1>6. \A i \in 1..Len(backlog') : i + 1 \in 1..Len(backlog) /\ i + 1 # 1 /\ i \in Nat
  BY <1>2, <1>3
<1>7. 1 \in 1..Len(backlog) /\ serving' \in Waiting
  BY <1>2, <1>3 DEF Waiting
<1>8. Waiting' \subseteq Waiting /\ serving' \notin Waiting'
  BY <1>0, <1>3, <1>6, <1>7 DEF Waiting, Plumbing
<1>9. Types'
  BY <1>0, <1>1, <1>3 DEF Types, SameStreams
<1>10. Plumbing'
  <2>1. ASSUME NEW i \in 1..Len(backlog'), NEW j \in 1..Len(backlog'), backlog'[i] = backlog'[j] PROVE i = j
    <3>1. i + 1 = j + 1
      BY <1>0, <1>3, <1>6, <2>1 DEF Plumbing
    <3> QED
      BY <1>6, <3>1
  <2>2. \A i \in 1..Len(backlog') : backlog'[i] # serving' /\ conn[backlog'[i]] \in {"up", "left"}
    BY <1>0, <1>3, <1>6, <1>7 DEF Plumbing
  <2>3. conn[serving'] \in {"up", "left"}
    BY <1>0, <1>3, <1>7 DEF Plumbing
  <2> QED
    BY <1>0, <1>1, <1>4, <1>5, <2>1, <2>2, <2>3 DEF Plumbing, SameStreams
<1>11. \A c \in Clients : Traffic(c)' = Traffic(c)
  BY <1>0, <1>4 DEF Traffic, SameStreams
<1>12. \A c \in Clients : Live(c)' => Live(c)
  BY <1>7, <1>8 DEF Live
<1>13. Quiet
  BY <1>0, <1>7, <1>8, <1>11, <1>12 DEF Quiet, SameStreams
<1> QED
  BY <1>9, <1>10, <1>13, QuietInv

-----------------------------------------------------------------------------
(* The server receives and reads.                                          *)

(* What a step of the thread on the client being served leaves alone.      *)
Beside(c) ==
  /\ serving = c /\ c \in Clients /\ UNCHANGED <<protocol, serving, backlog, call, conn>>
  /\ \A d \in Clients : d # c =>
       down'[d] = down[d] /\ up'[d] = up[d] /\ Done(d)' = Done(d) /\ (d \in astray' <=> d \in astray)

Reads(c) ==
  /\ serving = c /\ c \in Clients /\ UNCHANGED <<protocol, serving, backlog, call, conn, astray>>
  /\ \A d \in Clients : d # c => down'[d] = down[d] /\ up'[d] = up[d] /\ Done(d)' = Done(d)

LEMMA OthersUntouched ==
  ASSUME NEW c, Beside(c), NEW d \in Clients, d # c
  PROVE  Untouched(d)
<1>1. Waiting' = Waiting
  BY DEF Beside, Waiting
<1>2. Live(d)' => Live(d)
  BY <1>1 DEF Beside, Live
<1>3. Traffic(d)' = Traffic(d)
  BY DEF Beside, Traffic
<1> QED
  BY <1>2, <1>3 DEF Beside, Untouched

LEMMA ReadsBeside == \A c : Reads(c) => Beside(c)
BY DEF Reads, Beside

(* What is left of the client's traffic has shrunk by L and nothing was    *)
(* executed or answered.                                                   *)
LEMMA ReadsOn ==
  ASSUME NEW c, NEW L, Invariant, Reads(c), pc \in {"recv", "lines"},
         executed' = executed, down' = down, IsRest(Traffic(c)', Traffic(c), L),
         protocol = "line" \/ Traffic(c)' = Traffic(c),
         up'[c] = up[c] \/ Traffic(c) # <<>>
  PROVE  \A d \in Clients : Client(d)'
<1>0. c \in Clients /\ serving = c
  BY DEF Reads
<1>1. ASSUME NEW d \in Clients, d # c PROVE Client(d)'
  BY <1>1, ReadsBeside, OthersUntouched, UntouchedClient DEF Invariant
<1>2. Client(c)'
  <2> DEFINE v == View(c)
             w == View(c)'
             s == c \in astray
             l == Live(c)
             l2 == Live(c)'
  <2>1. Good(protocol, c, s, TRUE, v)
    <3>1. Live(c) = TRUE
      BY <1>0 DEF Live
    <3>2. Client(c)
      BY <1>0 DEF Invariant
    <3> QED
      BY <3>1, <3>2 DEF Client
  <2>2. IsView(v)
    BY <1>0, ViewsAre DEF Invariant
  <2>3. Done(c)' = Done(c)
    BY DoneSame
  <2>4. SameSide(v, w)
    BY <2>3, ViewFields, ViewFieldsNext DEF SameSide, Reads
  <2>5. IsRest(w.traffic, v.traffic, L)
    BY ViewFields, ViewFieldsNext
  <2>6. protocol = "line" \/ w.traffic = v.traffic
    BY ViewFields, ViewFieldsNext
  <2>7. w.up = v.up \/ v.traffic # <<>>
    BY ViewFields, ViewFieldsNext
  <2> HIDE DEF v, w, s, l, l2
  <2>8. Good(protocol, c, s, l2, w)
    BY <2>1, <2>2, <2>4, <2>5, <2>6, <2>7, ConsumedGood
  <2>9. Good(protocol', c, (c \in astray)', Live(c)', View(c)')
    <3>1. protocol' = protocol /\ (c \in astray)' = s
      BY DEF Reads, s
    <3> QED
      BY <2>8, <3>1 DEF w, l2
  <2> QED
    BY <2>9 DEF Client
<1> QED
  BY <1>1, <1>2

(* The rest of the invariant when the thread reads on.                     *)
LEMMA ReadsPlumbing ==
  ASSUME NEW c, Types, Plumbing, Reads(c), running' \in BOOLEAN, buf' \in Seq(Piece), up' \in [Clients -> Seq(Piece)],
         cache' \in [Keys -> Held \cup {None}], down' \in [Clients -> Seq(Answer)], executed' \in Seq(Ran),
         pc' \in {"recv", "lines", "done"}, pc' = "lines" => protocol = "line",
         (pc' = "recv" /\ protocol = "line") => buf' = <<>>
  PROVE  Types' /\ Plumbing'
<1>1. Types'
  BY DEF Types, Reads
<1>2. conn[c] # "new" /\ c # None
  BY ServerAssumption DEF Plumbing, Reads
<1>3. \A d \in Clients : conn'[d] = "new" => up'[d] = <<>>
  BY <1>2 DEF Plumbing, Reads
<1>4. Plumbing'
  BY <1>2, <1>3 DEF Plumbing, Reads
<1> QED
  BY <1>1, <1>4

LEMMA ReadsServed ==
  ASSUME NEW c, Types, Served, Reads(c), executed' = executed
  PROVE  Served'
<1>1. Waiting' = Waiting
  BY DEF Reads, Waiting
<1> QED
  BY <1>1, ServedKeeps DEF Reads

LEMMA RecvInv == Invariant /\ Recv => Invariant'
<1> SUFFICES ASSUME Invariant, Recv PROVE Invariant'
  OBVIOUS
<1> DEFINE c == serving
<1>0. Types /\ Plumbing /\ Served
  BY DEF Invariant
<1>1. c \in Clients /\ buf = <<>> /\ running \in BOOLEAN
  BY <1>0 DEF Plumbing, Types, Recv
<1>2. PICK k \in 1..Len(up[c]) : Arrive(k) /\ buf' = SubSeq(up[c], 1, k)
  BY DEF Recv
<1>3. up[c] \in Seq(Piece) /\ Len(up[c]) \in Nat /\ up[c] # <<>>
  BY <1>0, <1>1, <1>2, LenProperties, EmptySeq DEF Types
<1>4. up' = [up EXCEPT ![c] = SubSeq(up[c], k + 1, Len(up[c]))]
  BY <1>2 DEF Arrive
<1>5. SubSeq(up[c], 1, k) \in Seq(Piece) /\ SubSeq(up[c], k + 1, Len(up[c])) \in Seq(Piece)
  BY <1>3, SubSeqIs
<1>6. /\ up' \in [Clients -> Seq(Piece)] /\ up'[c] = SubSeq(up[c], k + 1, Len(up[c]))
      /\ \A d \in Clients : d # c => up'[d] = up[d]
  BY <1>0, <1>1, <1>4, <1>5 DEF Types
<1>7. Reads(c)
  <2>1. executed' = executed /\ down' = down
    BY DEF Recv, histories
  <2> QED
    BY <1>1, <1>6, <2>1, DoneSame DEF Reads, Recv, histories
<1>8. Types' /\ Plumbing'
  BY <1>0, <1>1, <1>2, <1>5, <1>6, <1>7, ReadsPlumbing DEF Recv, Types, histories
<1>9. Served'
  BY <1>0, <1>7, ReadsServed DEF Recv, histories
<1>10. Traffic(c) = buf \o up[c] /\ Traffic(c)' = buf' \o up'[c]
  BY <1>7 DEF Traffic, Reads
<1>11. Traffic(c)' = Traffic(c)
  <2>1. (buf \o SubSeq(up[c], 1, k)) \o SubSeq(up[c], k + 1, Len(up[c])) = buf \o up[c]
    BY <1>0, <1>3, MovedConcat DEF Types
  <2>2. buf \o SubSeq(up[c], 1, k) = SubSeq(up[c], 1, k)
    BY <1>1, <1>5, ConcatEmptySeq
  <2> QED
    BY <1>2, <1>6, <1>10, <2>1, <2>2
<1>12. Traffic(c) = up[c]
  BY <1>1, <1>3, <1>10, ConcatEmptySeq
<1>13. IsRest(Traffic(c)', Traffic(c), 0)
  BY <1>3, <1>11, <1>12 DEF IsRest
<1>14. \A d \in Clients : Client(d)'
  BY <1>3, <1>7, <1>11, <1>12, <1>13, ReadsOn DEF Recv, histories
<1> QED
  BY <1>8, <1>9, <1>14 DEF Invariant

LEMMA HttpRecvInv == Invariant /\ HttpRecv => Invariant'
<1> SUFFICES ASSUME Invariant, HttpRecv PROVE Invariant'
  OBVIOUS
<1> DEFINE c == serving
<1>0. Types /\ Plumbing /\ Served /\ buf \in Seq(Piece)
  BY DEF Invariant, Types
<1>1. c \in Clients /\ running \in BOOLEAN
  BY <1>0 DEF Plumbing, Types, HttpRecv
<1>2. PICK k \in 1..Len(up[c]) : Arrive(k) /\ buf' = buf \o SubSeq(up[c], 1, k)
  BY DEF HttpRecv
<1>3. up[c] \in Seq(Piece) /\ Len(up[c]) \in Nat /\ Len(up[c]) # 0
  BY <1>0, <1>1, <1>2, LenProperties DEF Types
<1>4. up' = [up EXCEPT ![c] = SubSeq(up[c], k + 1, Len(up[c]))]
  BY <1>2 DEF Arrive
<1>5. SubSeq(up[c], 1, k) \in Seq(Piece) /\ SubSeq(up[c], k + 1, Len(up[c])) \in Seq(Piece)
  BY <1>3, SubSeqIs
<1>6. /\ up' \in [Clients -> Seq(Piece)] /\ up'[c] = SubSeq(up[c], k + 1, Len(up[c]))
      /\ \A d \in Clients : d # c => up'[d] = up[d]
  BY <1>0, <1>1, <1>4, <1>5 DEF Types
<1>7. Reads(c)
  <2>1. executed' = executed /\ down' = down
    BY DEF HttpRecv, histories
  <2> QED
    BY <1>1, <1>6, <2>1, DoneSame DEF Reads, HttpRecv, histories
<1>8. Types' /\ Plumbing'
  <2>1. buf' \in Seq(Piece)
    BY <1>0, <1>2, <1>5, ConcatProperties
  <2> QED
    BY <1>0, <1>1, <1>6, <1>7, <2>1, ReadsPlumbing DEF HttpRecv, Types, histories
<1>9. Served'
  BY <1>0, <1>7, ReadsServed DEF HttpRecv, histories
<1>10. Traffic(c) = buf \o up[c] /\ Traffic(c)' = buf' \o up'[c]
  BY <1>7 DEF Traffic, Reads
<1>11. Traffic(c)' = Traffic(c)
  BY <1>0, <1>2, <1>3, <1>6, <1>10, MovedConcat
<1>12. Traffic(c) \in Seq(Piece) /\ Len(Traffic(c)) \in Nat /\ Traffic(c) # <<>>
  <2>1. Traffic(c) \in Seq(Piece) /\ Len(Traffic(c)) = Len(buf) + Len(up[c])
    BY <1>0, <1>3, <1>10, ConcatProperties
  <2>2. Len(buf) \in Nat
    BY <1>0, LenProperties
  <2>3. Len(Traffic(c)) # 0
    BY <1>3, <2>1, <2>2
  <2> QED
    BY <1>3, <2>1, <2>2, <2>3
<1>13. IsRest(Traffic(c)', Traffic(c), 0)
  BY <1>11, <1>12 DEF IsRest
<1>14. \A d \in Clients : Client(d)'
  BY <1>7, <1>11, <1>12, <1>13, ReadsOn DEF HttpRecv, histories
<1> QED
  BY <1>8, <1>9, <1>14 DEF Invariant

LEMMA NoMoreLinesInv == Invariant /\ NoMoreLines => Invariant'
<1> SUFFICES ASSUME Invariant, NoMoreLines PROVE Invariant'
  OBVIOUS
<1> DEFINE c == serving
<1>0. Types /\ Plumbing /\ Served /\ buf \in Seq(Piece)
  BY DEF Invariant, Types
<1>1. c \in Clients /\ running \in BOOLEAN /\ protocol = "line" /\ pc = "lines"
  BY <1>0 DEF Plumbing, Types, NoMoreLines
<1>2. /\ buf' = <<>> /\ pc' = IF running THEN "recv" ELSE "done"
      /\ UNCHANGED <<protocol, running, backlog, serving, cache, up, down, conn, call, executed, astray>>
  BY DEF NoMoreLines, clientVars
<1>3. up[c] \in Seq(Piece) /\ Len(buf) \in Nat
  BY <1>0, <1>1, LenProperties DEF Types
<1>4. Reads(c)
  BY <1>1, <1>2, DoneSame DEF Reads
<1>5. Types' /\ Plumbing'
  <2>1. buf' \in Seq(Piece)
    BY <1>2, EmptySeq
  <2>2. pc' \in {"recv", "lines", "done"} /\ pc' # "lines"
    BY <1>1, <1>2
  <2> QED
    BY <1>0, <1>1, <1>2, <1>4, <2>1, <2>2, ReadsPlumbing DEF Types
<1>6. Served'
  BY <1>0, <1>2, <1>4, ReadsServed
<1>7. Traffic(c) = buf \o up[c] /\ Traffic(c)' = <<>> \o up[c]
  BY <1>2 DEF Traffic
<1>8. IsRest(SubSeq(buf, Len(buf) + 1, Len(buf)) \o up[c], buf \o up[c], Len(buf))
  BY <1>0, <1>3, RestOfConcat
<1>9. SubSeq(buf, Len(buf) + 1, Len(buf)) = <<>>
  BY <1>3, SubSeqEmpty
<1>10. IsRest(Traffic(c)', Traffic(c), Len(buf))
  BY <1>7, <1>8, <1>9
<1>11. \A d \in Clients : Client(d)'
  BY <1>1, <1>2, <1>4, <1>10, ReadsOn
<1> QED
  BY <1>5, <1>6, <1>11 DEF Invariant

-----------------------------------------------------------------------------
(* The server answers and executes.                                        *)

LEMMA SendIs ==
  ASSUME Types, NEW c \in Clients, NEW lines \in Seq(Answer), Send(c, lines)
  PROVE  /\ down' \in [Clients -> Seq(Answer)]
         /\ down'[c] = IF conn[c] = "left" THEN down[c] ELSE down[c] \o lines
         /\ \A d \in Clients : d # c => down'[d] = down[d]
<1>1. down \in [Clients -> Seq(Answer)] /\ down[c] \in Seq(Answer)
  BY DEF Types
<1>2. down[c] \o lines \in Seq(Answer)
  BY <1>1, ConcatProperties
<1> QED
  BY <1>1, <1>2 DEF Send

LEMMA ErrorIs == \A n \in Nat : <<Reply(n, "-ERR")>> \in Seq(Answer)
BY DEF Reply, Answer, Saying

(* The outcome of a command, whatever the cache holds.                     *)
LEMMA RepliesAre ==
  ASSUME Types, NEW t \in Word
  PROVE  IsOutcome(protocol, t, Replies(t.n, t.cmd))
<1>1. t.n \in Nat /\ t.cmd \in Commands \cup {Quit}
  BY DEF Word
<1>2. \A s \in Saying : Reply(t.n, s) \in Answer /\ Reply(t.n, s).text = s
  BY <1>1 DEF Reply, Answer
<1>3. /\ "+OK" \in Saying /\ ":0" \in Saying /\ ":1" \in Saying /\ "$-1" \in Saying /\ "$" \in Saying
      /\ Held \subseteq Saying
  BY DEF Saying
<1>4. t.cmd.op \in {"SET", "GET", "DEL", "QUIT"} /\ (t.cmd.op = "GET" => t.cmd.key \in Keys)
  BY <1>1 DEF Commands, Quit
<1>5. CASE t.cmd.op \in {"SET", "QUIT"}
  <2>1. Replies(t.n, t.cmd) = <<Reply(t.n, "+OK")>>
    BY <1>5 DEF Replies
  <2> QED
    BY <1>2, <1>3, <1>5, <2>1 DEF IsOutcome
<1>6. CASE t.cmd.op = "DEL"
  <2>1. \E s \in Saying : Replies(t.n, t.cmd) = <<Reply(t.n, s)>>
    BY <1>3, <1>6 DEF Replies
  <2> QED
    BY <1>2, <1>6, <2>1 DEF IsOutcome
<1>7. CASE t.cmd.op = "GET"
  <2> DEFINE held == cache[t.cmd.key]
  <2>1. held \in Held \cup {None}
    BY <1>4, <1>7 DEF Types
  <2>2. \/ Replies(t.n, t.cmd) = <<Reply(t.n, "$-1")>>
        \/ held \in Held /\ protocol = "http" /\ Replies(t.n, t.cmd) = <<Reply(t.n, held)>>
        \/ held \in Held /\ protocol # "http" /\ Replies(t.n, t.cmd) = <<Reply(t.n, "$"), Reply(t.n, held)>>
    BY <1>7, <2>1 DEF Replies
  <2> HIDE DEF held
  <2>3. CASE Replies(t.n, t.cmd) = <<Reply(t.n, "$-1")>>
    BY <1>2, <1>3, <1>7, <2>3 DEF IsOutcome
  <2>4. CASE held \in Held /\ protocol = "http" /\ Replies(t.n, t.cmd) = <<Reply(t.n, held)>>
    BY <1>2, <1>3, <1>7, <2>4 DEF IsOutcome
  <2>5. CASE held \in Held /\ protocol # "http" /\ Replies(t.n, t.cmd) = <<Reply(t.n, "$"), Reply(t.n, held)>>
    BY <1>2, <1>3, <1>7, <2>5 DEF IsOutcome
  <2> QED
    BY <2>2, <2>3, <2>4, <2>5
<1> QED
  BY <1>4, <1>5, <1>6, <1>7

LEMMA StoredIs ==
  ASSUME Types, NEW cmd \in Commands \cup {Quit}
  PROVE  Stored(cmd) \in [Keys -> Held \cup {None}]
<1>1. cache \in [Keys -> Held \cup {None}]
  BY DEF Types
<1>2. \A v \in Values : StoredAs(v) \in Held
  BY DEF StoredAs, Held
<1>3. cmd.op = "SET" => cmd.val \in Values
  BY DEF Commands, Quit
<1> QED
  BY <1>1, <1>2, <1>3 DEF Stored

(* The server has taken a text t at place i of the client's traffic.       *)
Takes(c, t, i, L) ==
  /\ Reads(c) /\ pc \in {"recv", "lines"}
  /\ t \in Word /\ L \in 0..Len(Traffic(c)) /\ i \in 1..L /\ Traffic(c)[i] = t

LEMMA RefusesOn ==
  ASSUME NEW c, NEW t, NEW i, NEW L, Invariant, Takes(c, t, i, L), Types',
         executed' = executed, Send(c, <<Reply(t.n, "-ERR")>>),
         Live(c)' => IsRest(Traffic(c)', Traffic(c), L) /\ (protocol = "line" \/ Traffic(c)' = <<>>),
         (Live(c)' /\ c \notin astray /\ conn[c] # "left") => Traffic(c)' = <<>>
  PROVE  \A d \in Clients : Client(d)'
<1>0. c \in Clients /\ serving = c /\ Reads(c) /\ Types
  BY DEF Takes, Reads, Invariant
<1>1. ASSUME NEW d \in Clients, d # c PROVE Client(d)'
  BY <1>0, <1>1, ReadsBeside, OthersUntouched, UntouchedClient DEF Invariant
<1>2. Client(c)'
  <2> DEFINE v == View(c)
             w == View(c)'
             s == c \in astray
             l2 == Live(c)'
  <2>1. Good(protocol, c, s, TRUE, v)
    <3>1. Live(c) = TRUE
      BY <1>0 DEF Live, Takes
    <3>2. Client(c)
      BY <1>0 DEF Invariant
    <3> QED
      BY <3>1, <3>2 DEF Client
  <2>2. IsView(v)
    BY <1>0, ViewsAre
  <2>3. IsView(w)
    BY <1>0, ViewsNext
  <2>4. Done(c)' = Done(c)
    BY DoneSame
  <2>5. w.done = v.done
    BY <2>4, ViewFields, ViewFieldsNext
  <2>6. down'[c] = IF conn[c] = "left" THEN down[c] ELSE down[c] \o <<Reply(t.n, "-ERR")>>
    <3>1. <<Reply(t.n, "-ERR")>> \in Seq(Answer)
      BY ErrorIs DEF Takes, Word
    <3> QED
      BY <1>0, <3>1, SendIs
  <2>7. Sent(c, v, w, t, i, L, <<Reply(t.n, "-ERR")>>)
    BY <1>0, <2>6, ViewFields, ViewFieldsNext DEF Sent, Takes, Reads
  <2>8. l2 => IsRest(w.traffic, v.traffic, L) /\ (protocol = "line" \/ w.traffic = <<>>)
    BY ViewFields, ViewFieldsNext
  <2>9. (l2 /\ ~s /\ v.conn # "left") => w.traffic = <<>>
    BY ViewFields, ViewFieldsNext
  <2> HIDE DEF v, w, s, l2
  <2>10. Good(protocol, c, s, l2, w)
    BY <2>1, <2>2, <2>3, <2>5, <2>7, <2>8, <2>9, RefusedGood
  <2>11. Good(protocol', c, (c \in astray)', Live(c)', View(c)')
    <3>1. protocol' = protocol /\ (c \in astray)' = s
      BY <1>0 DEF Reads, s
    <3> QED
      BY <2>10, <3>1 DEF w, l2
  <2> QED
    BY <2>11 DEF Client
<1> QED
  BY <1>1, <1>2

LEMMA ExecutesOn ==
  ASSUME NEW c, NEW t, NEW i, NEW L, Invariant, Takes(c, t, i, L), Types', t.at = "head",
         executed' = Append(executed, [client |-> c, n |-> t.n]), Send(c, Replies(t.n, t.cmd)),
         Live(c)' => IsRest(Traffic(c)', Traffic(c), L),
         protocol = "line" \/ Traffic(c)' = <<>>,
         (c \notin astray /\ conn[c] # "left") => Traffic(c)' = <<>> /\ up'[c] = <<>>
  PROVE  \A d \in Clients : Client(d)'
<1>0. c \in Clients /\ serving = c /\ Reads(c) /\ Types
  BY DEF Takes, Reads, Invariant
<1>1. ASSUME NEW d \in Clients, d # c PROVE Client(d)'
  BY <1>0, <1>1, ReadsBeside, OthersUntouched, UntouchedClient DEF Invariant
<1>2. Client(c)'
  <2> DEFINE v == View(c)
             w == View(c)'
             s == c \in astray
             l2 == Live(c)'
             lines == Replies(t.n, t.cmd)
  <2>1. Good(protocol, c, s, TRUE, v)
    <3>1. Live(c) = TRUE
      BY <1>0 DEF Live, Takes
    <3>2. Client(c)
      BY <1>0 DEF Invariant
    <3> QED
      BY <3>1, <3>2 DEF Client
  <2>2. IsView(v) /\ IsClient(protocol, c)
    BY <1>0, ViewsAre, ClientsAre
  <2>3. IsView(w)
    BY <1>0, ViewsNext
  <2>4. Done(c)' = Done(c) \cup {t.n}
    <3>1. t.n \in Nat /\ executed \in Seq(Ran)
      BY <1>0 DEF Takes, Word, Types
    <3> QED
      BY <1>0, <3>1, DoneMore
  <2>5. w.done = v.done \cup {t.n}
    BY <2>4, ViewFields, ViewFieldsNext
  <2>6. IsOutcome(protocol, t, lines)
    BY <1>0, RepliesAre DEF Takes
  <2>7. down'[c] = IF conn[c] = "left" THEN down[c] ELSE down[c] \o lines
    <3>1. lines \in Seq(Answer)
      BY <2>6 DEF IsOutcome
    <3> QED
      BY <1>0, <3>1, SendIs
  <2>8. Sent(c, v, w, t, i, L, lines)
    <3> HIDE DEF lines
    <3> QED
      BY <1>0, <2>7, ViewFields, ViewFieldsNext DEF Sent, Takes, Reads
  <2>9. l2 => IsRest(w.traffic, v.traffic, L)
    BY ViewFields, ViewFieldsNext
  <2>10. protocol = "line" \/ w.traffic = <<>>
    BY ViewFieldsNext
  <2>11. (~s /\ v.conn # "left") => w.traffic = <<>> /\ w.up = <<>>
    BY ViewFields, ViewFieldsNext
  <2> HIDE DEF v, w, s, l2, lines
  <2>12. Good(protocol, c, s, l2, w)
    BY <2>1, <2>2, <2>3, <2>5, <2>6, <2>8, <2>9, <2>10, <2>11, ExecutedGood DEF Takes
  <2>13. Good(protocol', c, (c \in astray)', Live(c)', View(c)')
    <3>1. protocol' = protocol /\ (c \in astray)' = s
      BY <1>0 DEF Reads, s
    <3> QED
      BY <2>12, <3>1 DEF w, l2
  <2> QED
    BY <2>13 DEF Client
<1> QED
  BY <1>1, <1>2

(* The client being served has the last word, so what it adds is in order. *)
LEMMA ExecutedServed ==
  ASSUME NEW c, NEW m \in Nat, Types, Plumbing, Served, Reads(c),
         executed' = Append(executed, [client |-> c, n |-> m]), \A k \in Done(c) : k < m
  PROVE  Served'
<1> DEFINE N == Len(executed)
<1>0. c \in Clients /\ serving = c /\ serving' = c /\ executed \in Seq(Ran) /\ Waiting' = Waiting /\ conn' = conn
  BY DEF Reads, Types, Waiting
<1>1. /\ executed' \in Seq(Ran) /\ Len(executed') = N + 1 /\ N \in Nat
      /\ executed'[N + 1] = [client |-> c, n |-> m]
      /\ \A i \in 1..N : executed'[i] = executed[i]
  BY <1>0, DoneMore
<1>2. executed'[N + 1].client = c /\ executed'[N + 1].n = m
  BY <1>1
<1>3. DOMAIN executed = 1..N /\ DOMAIN executed' = 1..N + 1
  BY <1>0, <1>1, LenProperties
<1> HIDE DEF N
<1>4. c # None /\ conn[c] # "new" /\ c \notin Waiting
  <2>1. c # None
    BY <1>0, ServerAssumption
  <2> QED
    BY <1>0, <2>1 DEF Plumbing, Waiting
<1>5. ASSUME NEW i \in 1..N + 1
      PROVE  /\ conn'[executed'[i].client] # "new"
             /\ executed'[i].client \notin Waiting'
             /\ executed'[i].client = serving' => executed'[N + 1].client = serving'
  <2>1. CASE i = N + 1
    BY <1>0, <1>2, <1>4, <2>1
  <2>2. CASE i # N + 1
    <3>1. i \in 1..N /\ executed'[i] = executed[i]
      BY <1>1, <1>5, <2>2
    <3> QED
      BY <1>0, <1>2, <3>1 DEF Served, N
  <2> QED
    BY <2>1, <2>2
<1>6. ASSUME NEW i \in 1..N + 1, NEW j \in 1..N + 1, i < j, executed'[i].client = executed'[j].client
      PROVE  /\ executed'[i].n < executed'[j].n
             /\ \A k \in i..j : executed'[k].client = executed'[i].client
  <2>1. i \in 1..N /\ executed'[i] = executed[i]
    BY <1>1, <1>6
  <2>2. CASE j # N + 1
    <3>1. j \in 1..N /\ executed'[j] = executed[j]
      BY <1>1, <1>6, <2>2
    <3>2. /\ executed[i].n < executed[j].n
          /\ \A k \in i..j : executed[k].client = executed[i].client
      BY <1>3, <1>6, <2>1, <3>1 DEF Served, ExecutedInOrder
    <3>3. \A k \in i..j : k \in 1..N
      BY <1>1, <2>1, <3>1
    <3> QED
      BY <1>1, <2>1, <3>1, <3>2, <3>3
  <2>3. CASE j = N + 1
    <3>1. executed[i].client = c
      BY <1>2, <1>6, <2>1, <2>3
    <3>2. executed[i].n \in Done(c)
      BY <2>1, <3>1 DEF Done, N
    <3>3. executed'[i].n < executed'[j].n
      BY <1>2, <2>1, <2>3, <3>2
    <3>4. executed[N].client = c
      BY <1>0, <2>1, <3>1 DEF Served, N
    <3>5. ASSUME NEW k \in i..j PROVE executed'[k].client = c
      <4>1. CASE k = N + 1
        BY <1>2, <4>1
      <4>2. CASE k = i
        BY <2>1, <3>1, <4>2
      <4>3. CASE k # N + 1 /\ k # i
        <5>1. k \in 1..N /\ k \in i..N /\ i < N /\ N \in 1..N
          BY <1>1, <2>1, <2>3, <4>3
        <5>2. executed[k].client = executed[i].client
          BY <1>3, <2>1, <3>1, <3>4, <5>1 DEF Served, ExecutedInOrder
        <5> QED
          BY <1>1, <3>1, <5>1, <5>2
      <4> QED
        BY <4>1, <4>2, <4>3
    <3> QED
      BY <2>1, <3>1, <3>3, <3>5
  <2> QED
    BY <2>2, <2>3
<1>7. ExecutedInOrder'
  <2>1. ASSUME NEW i \in DOMAIN executed', NEW j \in DOMAIN executed', i < j, executed'[i].client = executed'[j].client
        PROVE  /\ executed'[i].n < executed'[j].n
               /\ \A k \in i..j : executed'[k].client = executed'[i].client
    <3>1. i \in 1..N + 1 /\ j \in 1..N + 1
      BY <1>3
    <3> QED
      BY <1>6, <2>1, <3>1
  <2> QED
    BY <2>1 DEF ExecutedInOrder
<1> QED
  BY <1>1, <1>5, <1>7 DEF Served

(* The first text of a stretch, and the first line of a buffer.            *)
LEMMA FirstTextIs ==
  ASSUME NEW b \in Seq(Piece), Texts(b) # {}
  PROVE  \E i \in 1..Len(b) : /\ FirstText(b) = b[i] /\ b[i] \in Word
                              /\ \A j \in Texts(b) : i <= j
<1>1. DOMAIN b = 1..Len(b) /\ Len(b) \in Nat
  BY LenProperties
<1>2. Texts(b) \in SUBSET Nat
  BY <1>1 DEF Texts
<1>3. \E i \in Texts(b) : \A j \in Texts(b) : i <= j
  BY <1>2, LeastNumber
<1> DEFINE m == CHOOSE i \in Texts(b) : \A j \in Texts(b) : i <= j
<1>4. m \in Texts(b) /\ \A j \in Texts(b) : m <= j
  BY <1>3
<1>5. FirstText(b) = b[m]
  BY DEF FirstText
<1> HIDE DEF m
<1>6. m \in 1..Len(b) /\ b[m] \in Piece /\ b[m] \notin {CR, LF, BlankLine}
  BY <1>1, <1>4, ElementOfSeq DEF Texts
<1>7. b[m] \in Word
  BY <1>6 DEF Piece
<1> QED
  BY <1>4, <1>5, <1>6, <1>7

LEMMA FirstLineIs ==
  ASSUME NEW b \in Seq(Piece), LineEnds(b) # {}
  PROVE  /\ FirstLineEnd(b) \in 1..Len(b) - 1 /\ b[FirstLineEnd(b) + 1] = LF
<1>1. Len(b) \in Nat
  BY LenProperties
<1>2. LineEnds(b) \in SUBSET Nat
  BY <1>1 DEF LineEnds
<1>3. \E i \in LineEnds(b) : \A j \in LineEnds(b) : i <= j
  BY <1>2, LeastNumber
<1>4. FirstLineEnd(b) \in LineEnds(b)
  BY <1>3 DEF FirstLineEnd
<1> QED
  BY <1>4 DEF LineEnds

(* The server takes the first line off its buffer.                         *)
LEMMA LineIs ==
  ASSUME NEW c, Invariant, Line, c = serving
  PROVE  /\ c \in Clients /\ protocol = "line" /\ pc = "lines" /\ buf \in Seq(Piece) /\ up[c] \in Seq(Piece)
         /\ FirstLineEnd(buf) + 1 \in 0..Len(Traffic(c))
         /\ IsRest(Traffic(c)', Traffic(c), FirstLineEnd(buf) + 1)
         /\ Traffic(c)[FirstLineEnd(buf) + 1] = LF
         /\ buf' \in Seq(Piece)
         /\ SubSeq(buf, 1, FirstLineEnd(buf) - 1) \in Seq(Piece)
         /\ \A i \in 1..Len(SubSeq(buf, 1, FirstLineEnd(buf) - 1)) :
              /\ i \in 1..FirstLineEnd(buf) + 1
              /\ SubSeq(buf, 1, FirstLineEnd(buf) - 1)[i] = Traffic(c)[i]
         /\ Len(Traffic(c)) = FirstLineEnd(buf) + 1 => Traffic(c)' = <<>> /\ up[c] = <<>>
<1> DEFINE F == FirstLineEnd(buf)
           line == SubSeq(buf, 1, F - 1)
<1>1. Types /\ Plumbing
  BY DEF Invariant
<1>2. c \in Clients /\ protocol = "line" /\ pc = "lines" /\ buf \in Seq(Piece) /\ up[c] \in Seq(Piece)
  BY <1>1 DEF Types, Plumbing, Line
<1>3. F \in 1..Len(buf) - 1 /\ buf[F + 1] = LF
  BY <1>2, FirstLineIs DEF Line
<1>4. Len(buf) \in Nat /\ Len(up[c]) \in Nat
  BY <1>2, LenProperties
<1> HIDE DEF F
<1>5. F + 1 \in 0..Len(buf) /\ F \in Nat
  BY <1>3, <1>4
<1>6. /\ buf' = SubSeq(buf, F + 2, Len(buf)) /\ up' = up /\ serving' = serving
  BY DEF Line, AfterLine, F
<1>7. Traffic(c) = buf \o up[c] /\ Traffic(c)' = SubSeq(buf, F + 2, Len(buf)) \o up[c]
  BY <1>6 DEF Traffic
<1>8. IsRest(Traffic(c)', Traffic(c), F + 1)
  <2>1. IsRest(SubSeq(buf, (F + 1) + 1, Len(buf)) \o up[c], buf \o up[c], F + 1)
    BY <1>2, <1>5, RestOfConcat
  <2>2. (F + 1) + 1 = F + 2
    BY <1>5
  <2> QED
    BY <1>7, <2>1, <2>2
<1>9. /\ Len(Traffic(c)) = Len(buf) + Len(up[c])
      /\ \A i \in 1..Len(buf) : Traffic(c)[i] = buf[i]
  <2>1. /\ Len(buf \o up[c]) = Len(buf) + Len(up[c])
        /\ \A i \in 1..Len(buf) + Len(up[c]) : (buf \o up[c])[i] = IF i <= Len(buf) THEN buf[i] ELSE up[c][i - Len(buf)]
    BY <1>2, ConcatProperties
  <2> QED
    BY <1>4, <1>7, <2>1
<1>10. buf' \in Seq(Piece)
  BY <1>2, <1>4, <1>5, <1>6, SubSeqIs
<1>11. line \in Seq(Piece) /\ Len(line) = F - 1 /\ \A i \in 1..F - 1 : line[i] = buf[i]
  <2>1. 1 \in 1..Len(buf) + 1 /\ F - 1 \in 1 - 1..Len(buf)
    BY <1>3, <1>4, <1>5
  <2>2. /\ SubSeq(buf, 1, F - 1) \in Seq(Piece) /\ Len(SubSeq(buf, 1, F - 1)) = F - 1 - 1 + 1
        /\ \A i \in 1..F - 1 - 1 + 1 : SubSeq(buf, 1, F - 1)[i] = buf[1 + i - 1]
    BY <1>2, <2>1, SubSeqIs
  <2> QED
    BY <1>5, <2>2
<1>12. ASSUME Len(Traffic(c)) = F + 1 PROVE Traffic(c)' = <<>> /\ up[c] = <<>>
  <2>1. Len(up[c]) = 0
    BY <1>4, <1>5, <1>9, <1>12
  <2>2. Traffic(c)' \in Seq(Piece) /\ Len(Traffic(c)') = 0
    BY <1>5, <1>8, <1>12 DEF IsRest
  <2> QED
    BY <1>2, <2>1, <2>2, EmptySeq
<1> HIDE DEF line
<1>13. \A i \in 1..Len(line) : i \in 1..F + 1 /\ line[i] = Traffic(c)[i]
  <2>1. ASSUME NEW i \in 1..Len(line) PROVE i \in 1..F - 1 /\ i \in 1..F + 1 /\ i \in 1..Len(buf)
    BY <1>3, <1>4, <1>5, <1>11
  <2> QED
    BY <1>9, <1>11, <2>1
<1>14. F + 1 \in 0..Len(Traffic(c)) /\ Traffic(c)[F + 1] = LF
  BY <1>3, <1>4, <1>5, <1>9
<1> QED
  BY <1>2, <1>8, <1>10, <1>11, <1>12, <1>13, <1>14 DEF F, line

(* Of a client that is not astray the line is all there is.                *)
LEMMA LastLine ==
  ASSUME NEW c, Invariant, Line, c = serving, c \notin astray
  PROVE  Len(Traffic(c)) = FirstLineEnd(buf) + 1
<1>1. /\ c \in Clients /\ protocol = "line" /\ pc = "lines"
      /\ FirstLineEnd(buf) + 1 \in 0..Len(Traffic(c)) /\ Traffic(c)[FirstLineEnd(buf) + 1] = LF
  BY LineIs
<1>2. Matching(protocol, c, View(c))
  <2>1. Live(c) /\ Client(c)
    BY <1>1 DEF Invariant, Live
  <2> QED
    BY <2>1 DEF Client, Good
<1>3. FirstLineEnd(buf) + 1 \in 1..Len(Traffic(c))
  <2>1. buf \in Seq(Piece) /\ LineEnds(buf) # {}
    BY DEF Invariant, Types, Line
  <2>2. FirstLineEnd(buf) \in 1..Len(buf) - 1 /\ Len(buf) \in Nat
    BY <2>1, FirstLineIs, LenProperties
  <2> QED
    BY <1>1, <2>2
<1> QED
  BY <1>1, <1>2, <1>3, ViewFields DEF Matching

(* Its text, if it has one.                                                *)
LEMMA LineText ==
  ASSUME NEW c, NEW line, Invariant, Line, c = serving,
         line = SubSeq(buf, 1, FirstLineEnd(buf) - 1), Texts(line) # {}
  PROVE  \E i \in 1..FirstLineEnd(buf) + 1 : FirstText(line) \in Word /\ Traffic(c)[i] = FirstText(line)
<1>1. line \in Seq(Piece) /\ \A i \in 1..Len(line) : i \in 1..FirstLineEnd(buf) + 1 /\ line[i] = Traffic(c)[i]
  BY LineIs
<1>2. PICK i \in 1..Len(line) : FirstText(line) = line[i] /\ line[i] \in Word
  BY <1>1, FirstTextIs
<1> QED
  BY <1>1, <1>2

LEMMA LineKeeps ==
  ASSUME Line
  PROVE  UNCHANGED <<protocol, running, serving, backlog, up, call, conn>> /\ pc = "lines"
BY DEF Line

LEMMA LineRefused ==
  ASSUME NEW c, NEW t \in Word, NEW i \in 1..FirstLineEnd(buf) + 1, Invariant, Line, c = serving,
         Traffic(c)[i] = t, Send(c, <<Reply(t.n, "-ERR")>>), UNCHANGED <<executed, cache, astray>>,
         pc' \in {"lines", "done"}
  PROVE  Invariant'
<1> DEFINE L == FirstLineEnd(buf) + 1
<1>0. Types /\ Plumbing /\ Served
  BY DEF Invariant
<1>1. /\ c \in Clients /\ protocol = "line" /\ pc = "lines" /\ buf' \in Seq(Piece)
      /\ L \in 0..Len(Traffic(c)) /\ IsRest(Traffic(c)', Traffic(c), L)
      /\ Len(Traffic(c)) = L => Traffic(c)' = <<>>
  BY LineIs
<1>2. UNCHANGED <<protocol, running, serving, backlog, up, call, conn, astray>>
  BY LineKeeps
<1>3. down' \in [Clients -> Seq(Answer)] /\ \A d \in Clients : d # c => down'[d] = down[d]
  <2>1. <<Reply(t.n, "-ERR")>> \in Seq(Answer)
    BY ErrorIs DEF Word
  <2> QED
    BY <1>0, <1>1, <2>1, SendIs
<1>4. Reads(c)
  BY <1>1, <1>2, <1>3, DoneSame DEF Reads
<1>5. Types' /\ Plumbing'
  BY <1>0, <1>1, <1>2, <1>3, <1>4, ReadsPlumbing DEF Types
<1>6. Served'
  BY <1>0, <1>4, ReadsServed
<1>7. Takes(c, t, i, L)
  BY <1>1, <1>4 DEF Takes
<1>8. c \notin astray => Traffic(c)' = <<>>
  BY <1>1, LastLine
<1> HIDE DEF L
<1>9. \A d \in Clients : Client(d)'
  BY <1>1, <1>5, <1>7, <1>8, RefusesOn
<1> QED
  BY <1>5, <1>6, <1>9 DEF Invariant

LEMMA LineExecuted ==
  ASSUME NEW c, NEW t \in Word, NEW i \in 1..FirstLineEnd(buf) + 1, Invariant, Line, c = serving,
         Traffic(c)[i] = t, t.at = "head", Send(c, Replies(t.n, t.cmd)), cache' = Stored(t.cmd),
         executed' = Append(executed, [client |-> t.client, n |-> t.n]),
         astray' = astray, pc' \in {"lines", "done"}
  PROVE  Invariant'
<1> DEFINE L == FirstLineEnd(buf) + 1
<1>0. Types /\ Plumbing /\ Served
  BY DEF Invariant
<1>1. /\ c \in Clients /\ protocol = "line" /\ pc = "lines" /\ buf' \in Seq(Piece)
      /\ L \in 0..Len(Traffic(c)) /\ IsRest(Traffic(c)', Traffic(c), L)
      /\ Len(Traffic(c)) = L => Traffic(c)' = <<>> /\ up[c] = <<>>
  BY LineIs
<1>2. UNCHANGED <<protocol, running, serving, backlog, up, call, conn, astray>>
  BY LineKeeps
<1>3. down' \in [Clients -> Seq(Answer)] /\ \A d \in Clients : d # c => down'[d] = down[d]
  <2>1. Replies(t.n, t.cmd) \in Seq(Answer)
    BY <1>0, RepliesAre DEF IsOutcome
  <2> QED
    BY <1>0, <1>1, <2>1, SendIs
<1>4. t.client = c /\ t.n \in Nat /\ \A k \in Done(c) : k < t.n
  <2>1. t.n \in Nat /\ executed \in Seq(Ran)
    BY <1>0 DEF Word, Types
  <2>2. Traffic(c) \in Seq(Piece)
    BY <1>0, <1>1, TrafficType
  <2>3. i \in 1..Len(Traffic(c))
    BY <1>1, <2>2, LenProperties
  <2>4. Flowing(c, View(c))
    BY <1>1 DEF Invariant, Client, Good, Live
  <2> QED
    BY <2>1, <2>3, <2>4, ViewFields DEF Flowing
<1>5. executed' = Append(executed, [client |-> c, n |-> t.n])
  BY <1>4
<1>6. executed' \in Seq(Ran) /\ \A d \in Clients : d # c => Done(d)' = Done(d)
  BY <1>0, <1>1, <1>4, <1>5, DoneMore DEF Types
<1>7. Reads(c)
  BY <1>1, <1>2, <1>3, <1>6 DEF Reads
<1>8. Types' /\ Plumbing'
  <2>1. cache' \in [Keys -> Held \cup {None}]
    BY <1>0, StoredIs DEF Word
  <2> QED
    BY <1>0, <1>1, <1>2, <1>3, <1>6, <1>7, <2>1, ReadsPlumbing DEF Types
<1>9. Served'
  BY <1>0, <1>4, <1>5, <1>7, ExecutedServed
<1>10. Takes(c, t, i, L)
  BY <1>1, <1>7 DEF Takes
<1>11. c \notin astray => Traffic(c)' = <<>> /\ up'[c] = <<>>
  BY <1>1, <1>2, LastLine
<1> HIDE DEF L
<1>12. \A d \in Clients : Client(d)'
  BY <1>1, <1>5, <1>8, <1>10, <1>11, ExecutesOn
<1> QED
  BY <1>8, <1>9, <1>12 DEF Invariant

(* The rest of a line was a command: the client is astray from now on.     *)
LEMMA LineAstray ==
  ASSUME NEW c, NEW t \in Word, NEW i \in 1..FirstLineEnd(buf) + 1, Invariant, Line, c = serving,
         Traffic(c)[i] = t, NEW cmd \in Commands \cup {Quit},
         \/ Send(c, Replies(t.n, cmd)) /\ cache' = Stored(cmd)
         \/ Send(c, <<Reply(t.n, "-ERR")>>) /\ cache' = cache,
         executed' = executed, astray' = astray \cup {t.client}, pc' \in {"lines", "done"}
  PROVE  Invariant'
<1> DEFINE L == FirstLineEnd(buf) + 1
<1>0. Types /\ Plumbing /\ Served
  BY DEF Invariant
<1>1. /\ c \in Clients /\ protocol = "line" /\ pc = "lines" /\ buf' \in Seq(Piece)
      /\ L \in 0..Len(Traffic(c)) /\ IsRest(Traffic(c)', Traffic(c), L)
  BY LineIs
<1>2. UNCHANGED <<protocol, running, serving, backlog, up, call, conn>>
  BY LineKeeps
<1>3. Good(protocol, c, c \in astray, TRUE, View(c))
  <2>1. Live(c) = TRUE
    BY <1>1 DEF Live
  <2>2. Client(c)
    BY <1>1 DEF Invariant
  <2> QED
    BY <2>1, <2>2 DEF Client
<1>4. t.client = c
  <2>1. Traffic(c) \in Seq(Piece)
    BY <1>0, <1>1, TrafficType
  <2>2. i \in 1..Len(Traffic(c))
    BY <1>1, <2>1, LenProperties
  <2>3. Flowing(c, View(c))
    BY <1>3 DEF Good
  <2> QED
    BY <2>2, <2>3, ViewFields DEF Flowing
<1>5. t.n \in Nat /\ Replies(t.n, cmd) \in Seq(Answer) /\ <<Reply(t.n, "-ERR")>> \in Seq(Answer)
  <2>1. t.n \in Nat
    BY DEF Word
  <2>2. PICK u \in Word : u.n = t.n /\ u.cmd = cmd
    <3> DEFINE r == [at |-> "head", client |-> c, n |-> t.n, cmd |-> cmd]
    <3>1. r \in Word
      BY <1>1, <2>1 DEF Word
    <3>2. r.n = t.n /\ r.cmd = cmd
      OBVIOUS
    <3> QED
      BY <3>1, <3>2
  <2>3. IsOutcome(protocol, u, Replies(u.n, u.cmd))
    BY <1>0, RepliesAre
  <2> QED
    BY <2>1, <2>2, <2>3, ErrorIs DEF IsOutcome
<1>6. /\ down' \in [Clients -> Seq(Answer)] /\ \A d \in Clients : d # c => down'[d] = down[d]
      /\ cache' \in [Keys -> Held \cup {None}]
  <2>1. CASE Send(c, Replies(t.n, cmd)) /\ cache' = Stored(cmd)
    BY <1>0, <1>1, <1>5, <2>1, SendIs, StoredIs
  <2>2. CASE Send(c, <<Reply(t.n, "-ERR")>>) /\ cache' = cache
    BY <1>0, <1>1, <1>5, <2>2, SendIs DEF Types
  <2> QED
    BY <2>1, <2>2
<1>7. c \in astray' /\ astray' \subseteq Clients /\ \A d \in Clients : d # c => (d \in astray' <=> d \in astray)
  BY <1>0, <1>1, <1>4 DEF Types
<1>8. Beside(c)
  BY <1>1, <1>2, <1>6, <1>7, DoneSame DEF Beside
<1>9. Types'
  BY <1>0, <1>1, <1>2, <1>6, <1>7 DEF Types
<1>10. Plumbing'
  BY <1>0, <1>1, <1>2 DEF Plumbing
<1>11. Served'
  BY <1>0, <1>2, ServedKeeps DEF Waiting
<1>12. ASSUME NEW d \in Clients, d # c PROVE Client(d)'
  BY <1>8, <1>12, OthersUntouched, UntouchedClient DEF Invariant
<1>13. Client(c)'
  <2> DEFINE v == View(c)
             w == View(c)'
             s == c \in astray
             l2 == Live(c)'
  <2>1. IsView(v)
    BY <1>0, <1>1, ViewsAre
  <2>2. w.conn = v.conn /\ w.call = v.call /\ w.done = v.done
    BY <1>2, DoneSame, ViewFields, ViewFieldsNext
  <2>3. IsRest(w.traffic, v.traffic, L)
    BY <1>1, ViewFields, ViewFieldsNext
  <2>4. Good(protocol, c, s, TRUE, v)
    BY <1>3
  <2> HIDE DEF v, w, s, l2, L
  <2>5. Good(protocol, c, TRUE, l2, w)
    <3>1. Counted(c, w)
      BY <2>2, <2>4 DEF Good, Counted
    <3>2. Flowing(c, w)
      BY <2>1, <2>2, <2>3, <2>4, RestFlowing DEF Good
    <3> QED
      BY <3>1, <3>2 DEF Good
  <2>6. Good(protocol', c, (c \in astray)', Live(c)', View(c)')
    <3>1. protocol' = protocol /\ (c \in astray)' = TRUE
      BY <1>2, <1>7
    <3> QED
      BY <2>5, <3>1 DEF w, l2
  <2> QED
    BY <2>6 DEF Client
<1> QED
  BY <1>9, <1>10, <1>11, <1>12, <1>13 DEF Invariant

LEMMA LineInv == Invariant /\ Line => Invariant'
<1> SUFFICES ASSUME Invariant, Line PROVE Invariant'
  OBVIOUS
<1>0. PICK c : c = serving
  OBVIOUS
<1> DEFINE line == SubSeq(buf, 1, FirstLineEnd(buf) - 1)
<1>1. \/ EmptyLine(line) \/ UnknownCommand(line) \/ TooLong(line) \/ Execute(line)
      \/ \E cmd \in Commands \cup {Quit} : ExecuteRest(line, cmd)
  BY DEF Line
<1> HIDE DEF line
<1>2. Texts(line) # {} => \E i \in 1..FirstLineEnd(buf) + 1 : FirstText(line) \in Word /\ Traffic(c)[i] = FirstText(line)
  BY <1>0, LineText DEF line
<1>3. CASE EmptyLine(line)
  <2>0. Types /\ Plumbing /\ Served
    BY DEF Invariant
  <2>1. /\ c \in Clients /\ protocol = "line" /\ pc = "lines" /\ buf' \in Seq(Piece)
        /\ IsRest(Traffic(c)', Traffic(c), FirstLineEnd(buf) + 1)
    BY <1>0, LineIs
  <2>2. UNCHANGED <<protocol, running, serving, backlog, up, call, conn, astray, cache, down, executed>> /\ pc' = "lines"
    BY <1>3, LineKeeps DEF EmptyLine
  <2>3. Reads(c)
    BY <1>0, <2>1, <2>2, DoneSame DEF Reads
  <2>4. Types' /\ Plumbing'
    BY <2>0, <2>1, <2>2, <2>3, ReadsPlumbing DEF Types
  <2>5. Served'
    BY <2>0, <2>2, <2>3, ReadsServed
  <2>6. \A d \in Clients : Client(d)'
    BY <2>1, <2>2, <2>3, ReadsOn
  <2> QED
    BY <2>4, <2>5, <2>6 DEF Invariant
<1>4. CASE \/ UnknownCommand(line) \/ TooLong(line)
           \/ Execute(line) /\ Send(c, <<Reply(FirstText(line).n, "-ERR")>>) /\ UNCHANGED <<cache, executed>>
  <2>1. Texts(line) # {} /\ Send(c, <<Reply(FirstText(line).n, "-ERR")>>) /\ UNCHANGED <<executed, cache, astray>>
    BY <1>0, <1>4 DEF UnknownCommand, TooLong, IsTooLong, Execute, IsCommand
  <2>2. pc' \in {"lines", "done"}
    BY <1>4 DEF UnknownCommand, TooLong, Execute
  <2> QED
    BY <1>0, <1>2, <2>1, <2>2, LineRefused
<1>5. CASE /\ Execute(line) /\ Send(c, Replies(FirstText(line).n, FirstText(line).cmd))
           /\ cache' = Stored(FirstText(line).cmd)
           /\ executed' = Append(executed, [client |-> FirstText(line).client, n |-> FirstText(line).n])
  <2>1. Texts(line) # {} /\ FirstText(line).at = "head"
    BY <1>5 DEF Execute, IsCommand
  <2>2. astray' = astray /\ pc' \in {"lines", "done"}
    BY <1>5 DEF Execute
  <2> QED
    BY <1>0, <1>2, <1>5, <2>1, <2>2, LineExecuted
<1>6. Execute(line) =>
        \/ Send(c, <<Reply(FirstText(line).n, "-ERR")>>) /\ UNCHANGED <<cache, executed>>
        \/ /\ Send(c, Replies(FirstText(line).n, FirstText(line).cmd))
           /\ cache' = Stored(FirstText(line).cmd)
           /\ executed' = Append(executed, [client |-> FirstText(line).client, n |-> FirstText(line).n])
  BY <1>0 DEF Execute, Executed
<1>7. CASE \E cmd \in Commands \cup {Quit} : ExecuteRest(line, cmd)
  <2>1. PICK cmd \in Commands \cup {Quit} : ExecuteRest(line, cmd)
    BY <1>7
  <2>2. /\ Texts(line) # {} /\ pc' \in {"lines", "done"} /\ executed' = executed
        /\ astray' = astray \cup {FirstText(line).client}
        /\ \/ Send(c, Replies(FirstText(line).n, cmd)) /\ cache' = Stored(cmd)
           \/ Send(c, <<Reply(FirstText(line).n, "-ERR")>>) /\ cache' = cache
    BY <1>0, <2>1 DEF ExecuteRest, RestIs
  <2> QED
    BY <1>0, <1>2, <2>2, LineAstray
<1> QED
  BY <1>1, <1>3, <1>4, <1>5, <1>6, <1>7

-----------------------------------------------------------------------------
(* A request over HTTP.                                                    *)

(* Once the blank line is there, what has arrived begins with the head of  *)
(* the call that waits, and a complete request is all of it.               *)
LEMMA RequestIs ==
  ASSUME NEW c, Invariant, c = serving, protocol = "http", pc = "recv", BlankLine \in ToSet(buf)
  PROVE  /\ c \in Clients /\ c \notin astray /\ conn[c] # "left"
         /\ FirstText(buf) \in Word /\ FirstText(buf).at = "head" /\ Traffic(c)[1] = FirstText(buf)
         /\ Len(Traffic(c)) \in Nat /\ Len(Traffic(c)) > 0
         /\ IsComplete(buf) => up[c] = <<>>
<1>1. Types /\ Plumbing /\ Served
  BY DEF Invariant
<1>2. c \in Clients /\ c \notin astray /\ buf \in Seq(Piece) /\ up[c] \in Seq(Piece)
  BY <1>1 DEF Types, Plumbing
<1>3. Matching(protocol, c, View(c)) /\ Counted(c, View(c))
  <2>1. Live(c) /\ Client(c)
    BY <1>2 DEF Invariant, Live
  <2> QED
    BY <1>2, <2>1 DEF Client, Good
<1>4. PICK j \in DOMAIN buf : buf[j] = BlankLine
  BY DEF ToSet
<1>5. DOMAIN buf = 1..Len(buf) /\ Len(buf) \in Nat /\ Len(up[c]) \in Nat
  BY <1>2, LenProperties
<1>6. /\ Traffic(c) = buf \o up[c] /\ Len(Traffic(c)) = Len(buf) + Len(up[c])
      /\ \A i \in 1..Len(buf) : Traffic(c)[i] = buf[i]
  <2>1. Traffic(c) = buf \o up[c]
    BY DEF Traffic
  <2>2. /\ Len(buf \o up[c]) = Len(buf) + Len(up[c])
        /\ \A i \in 1..Len(buf) + Len(up[c]) : (buf \o up[c])[i] = IF i <= Len(buf) THEN buf[i] ELSE up[c][i - Len(buf)]
    BY <1>2, ConcatProperties
  <2> QED
    BY <1>5, <2>1, <2>2
<1>7. Len(Traffic(c)) # 0 /\ Traffic(c) # <<>>
  <2>1. Len(Traffic(c)) # 0
    BY <1>4, <1>5, <1>6
  <2> QED
    BY <2>1
<1> DEFINE n == call[c].n
           cmd == call[c].cmd
           head == Text("head", c, n, cmd)
           tail == Text("tail", c, n, cmd)
<1>8. conn[c] # "left" /\ Traffic(c) = HttpWire(c, n, cmd)
  BY <1>3, <1>7, ViewFields DEF Matching
<1>9. n \in Nat /\ cmd \in Commands
  <2>1. call[c].phase = "line"
    BY <1>3, <1>7, <1>8, ViewFields DEF Matching
  <2>2. call[c].n > 0 /\ call[c].cmd \in Commands
    BY <1>3, <2>1, ViewFields DEF Counted
  <2>3. call[c] \in ACall
    BY <1>1, <1>2 DEF Types
  <2> QED
    BY <2>2, <2>3 DEF ACall
<1> HIDE DEF n, cmd
<1>10. cmd.op \in {"SET", "GET", "DEL"}
  BY <1>9 DEF Commands
<1>11. /\ head \in Word /\ head.at = "head" /\ head \notin {CR, LF, BlankLine} /\ tail # BlankLine
  BY <1>2, <1>9 DEF Word, Text, CR, LF, BlankLine
<1>12. head.cmd = cmd
  BY DEF Text
<1>13. Traffic(c) = IF cmd.op = "SET" THEN <<head, BlankLine, tail>> ELSE <<head, BlankLine>>
  BY <1>8, <1>10 DEF HttpWire
<1> HIDE DEF head, tail
<1>14. /\ Traffic(c)[1] = head /\ Traffic(c)[2] = BlankLine
       /\ Len(Traffic(c)) = IF cmd.op = "SET" THEN 3 ELSE 2
       /\ cmd.op = "SET" => Traffic(c)[3] = tail
  BY <1>13
<1>15. 1 \in 1..Len(buf) /\ buf[1] = head
  BY <1>4, <1>5, <1>6, <1>14
<1>16. 1 \in Texts(buf)
  BY <1>5, <1>11, <1>15 DEF Texts
<1>17. FirstText(buf) = head
  <2>1. PICK i \in 1..Len(buf) : FirstText(buf) = buf[i] /\ \A k \in Texts(buf) : i <= k
    BY <1>2, <1>16, FirstTextIs
  <2>2. i = 1
    BY <1>5, <1>16, <2>1
  <2> QED
    BY <1>15, <2>1, <2>2
<1>18. 2 <= Len(buf)
  <2>1. j # 1
    BY <1>4, <1>11, <1>15
  <2> QED
    BY <1>4, <1>5, <2>1
<1>19. ASSUME IsComplete(buf) PROVE up[c] = <<>>
  <2>1. Len(up[c]) = 0
    <3>1. CASE cmd.op # "SET"
      BY <1>5, <1>6, <1>14, <1>18, <3>1
    <3>2. CASE cmd.op = "SET"
      <4>1. Cardinality(Texts(buf)) = 2
        BY <1>12, <1>17, <1>19, <3>2 DEF IsComplete
      <4>2. ASSUME Len(buf) = 2 PROVE FALSE
        <5>1. buf[2] = BlankLine
          BY <1>6, <1>14, <4>2
        <5>2. Texts(buf) = {1}
          BY <1>5, <1>16, <4>2, <5>1 DEF Texts
        <5>3. Cardinality({1}) = 1
          BY FS_Singleton
        <5> QED
          BY <4>1, <5>2, <5>3
      <4> QED
        BY <1>5, <1>6, <1>14, <1>18, <3>2, <4>2
    <3> QED
      BY <3>1, <3>2
  <2> QED
    BY <1>2, <2>1, EmptySeq
<1> QED
  BY <1>2, <1>5, <1>6, <1>7, <1>8, <1>11, <1>14, <1>15, <1>17, <1>19

LEMMA RefuseInv == Invariant /\ Refuse => Invariant'
<1> SUFFICES ASSUME Invariant, Refuse PROVE Invariant'
  OBVIOUS
<1>0. PICK c : c = serving
  OBVIOUS
<1> DEFINE t == FirstText(buf)
<1>1. Types /\ Plumbing /\ Served
  BY DEF Invariant
<1>2. /\ protocol = "http" /\ pc = "recv" /\ BlankLine \in ToSet(buf) /\ pc' = "done"
      /\ UNCHANGED <<protocol, running, serving, backlog, buf, cache, up, call, conn, executed, astray>>
      /\ Send(c, <<Reply(t.n, "-ERR")>>)
  BY <1>0 DEF Refuse, IsTooLarge, histories
<1>3. c \in Clients /\ t \in Word /\ Traffic(c)[1] = t /\ Len(Traffic(c)) \in Nat /\ Len(Traffic(c)) > 0
  BY <1>0, <1>2, RequestIs
<1> HIDE DEF t
<1>4. down' \in [Clients -> Seq(Answer)] /\ \A d \in Clients : d # c => down'[d] = down[d]
  <2>1. <<Reply(t.n, "-ERR")>> \in Seq(Answer)
    BY <1>3, ErrorIs DEF Word
  <2> QED
    BY <1>1, <1>2, <1>3, <2>1, SendIs
<1>5. Reads(c)
  BY <1>0, <1>2, <1>3, <1>4, DoneSame DEF Reads
<1>6. Types' /\ Plumbing'
  BY <1>1, <1>2, <1>4, <1>5, ReadsPlumbing DEF Types
<1>7. Served'
  BY <1>1, <1>2, <1>5, ReadsServed
<1>8. Takes(c, t, 1, 1)
  BY <1>2, <1>3, <1>5 DEF Takes
<1>9. ~Live(c)'
  <2>1. c # None
    BY <1>3, ServerAssumption
  <2>2. c \notin Waiting /\ Waiting' = Waiting
    BY <1>0, <1>1, <1>2 DEF Plumbing, Waiting
  <2> QED
    BY <1>2, <2>2 DEF Live
<1>10. \A d \in Clients : Client(d)'
  BY <1>2, <1>6, <1>8, <1>9, RefusesOn
<1> QED
  BY <1>6, <1>7, <1>10 DEF Invariant

LEMMA RouteInv == Invariant /\ Route => Invariant'
<1> SUFFICES ASSUME Invariant, Route PROVE Invariant'
  OBVIOUS
<1>0. PICK c : c = serving
  OBVIOUS
<1> DEFINE t == FirstText(buf)
           L == Len(Traffic(c))
<1>1. Types /\ Plumbing /\ Served
  BY DEF Invariant
<1>2. /\ protocol = "http" /\ pc = "recv" /\ IsComplete(buf) /\ BlankLine \in ToSet(buf)
      /\ pc' \in {"recv", "done"} /\ buf' = <<>>
      /\ UNCHANGED <<protocol, running, serving, backlog, up, call, conn, astray>>
      /\ Executed(t)
  BY DEF Route, IsComplete
<1>3. /\ c \in Clients /\ t \in Word /\ t.at = "head" /\ Traffic(c)[1] = t /\ L \in Nat /\ L > 0
      /\ up[c] = <<>>
  BY <1>0, <1>2, RequestIs
<1> HIDE DEF t
<1>4. Traffic(c)' = <<>>
  <2>1. Traffic(c)' = <<>> \o <<>>
    BY <1>0, <1>2, <1>3 DEF Traffic
  <2>2. <<>> \o <<>> = <<>>
    BY ConcatEmptySeq, EmptySeq
  <2> QED
    BY <2>1, <2>2
<1>5. IsRest(Traffic(c)', Traffic(c), L)
  BY <1>3, <1>4, EmptySeq DEF IsRest
<1>6. buf' \in Seq(Piece) /\ t.n \in Nat /\ t.cmd \in Commands \cup {Quit}
  BY <1>2, <1>3, EmptySeq DEF Word
<1>7. CASE /\ Send(c, <<Reply(t.n, "-ERR")>>)
           /\ UNCHANGED <<cache, executed>>
  <2>1. down' \in [Clients -> Seq(Answer)] /\ \A d \in Clients : d # c => down'[d] = down[d]
    <3>1. <<Reply(t.n, "-ERR")>> \in Seq(Answer)
      BY <1>6, ErrorIs
    <3> QED
      BY <1>1, <1>3, <1>7, <3>1, SendIs
  <2>2. Reads(c)
    BY <1>0, <1>2, <1>3, <1>7, <2>1, DoneSame DEF Reads
  <2>3. Types' /\ Plumbing'
    BY <1>1, <1>2, <1>6, <1>7, <2>1, <2>2, ReadsPlumbing DEF Types
  <2>4. Served'
    BY <1>1, <1>7, <2>2, ReadsServed
  <2>5. Takes(c, t, 1, L)
    BY <1>2, <1>3, <2>2 DEF Takes
  <2> HIDE DEF L
  <2>6. \A d \in Clients : Client(d)'
    BY <1>4, <1>5, <1>7, <2>3, <2>5, RefusesOn
  <2> QED
    BY <2>3, <2>4, <2>6 DEF Invariant
<1>8. CASE /\ Send(c, Replies(t.n, t.cmd))
           /\ cache' = Stored(t.cmd)
           /\ executed' = Append(executed, [client |-> t.client, n |-> t.n])
  <2>1. down' \in [Clients -> Seq(Answer)] /\ \A d \in Clients : d # c => down'[d] = down[d]
    <3>1. Replies(t.n, t.cmd) \in Seq(Answer)
      BY <1>1, <1>3, RepliesAre DEF IsOutcome
    <3> QED
      BY <1>1, <1>3, <1>8, <3>1, SendIs
  <2>2. t.client = c /\ \A k \in Done(c) : k < t.n
    <3>1. Traffic(c) \in Seq(Piece)
      BY <1>1, <1>3, TrafficType
    <3>2. 1 \in 1..Len(Traffic(c))
      BY <1>3
    <3>3. Flowing(c, View(c))
      BY <1>0, <1>2, <1>3 DEF Invariant, Client, Good, Live
    <3> QED
      BY <1>3, <3>2, <3>3, ViewFields DEF Flowing
  <2>3. executed' = Append(executed, [client |-> c, n |-> t.n])
    BY <1>8, <2>2
  <2>4. executed' \in Seq(Ran) /\ \A d \in Clients : d # c => Done(d)' = Done(d)
    BY <1>1, <1>3, <1>6, <2>3, DoneMore DEF Types
  <2>5. Reads(c)
    BY <1>0, <1>2, <1>3, <2>1, <2>4 DEF Reads
  <2>6. Types' /\ Plumbing'
    <3>1. cache' \in [Keys -> Held \cup {None}]
      BY <1>1, <1>6, <1>8, StoredIs
    <3> QED
      BY <1>1, <1>2, <1>6, <2>1, <2>4, <2>5, <3>1, ReadsPlumbing DEF Types
  <2>7. Served'
    BY <1>1, <1>6, <2>2, <2>3, <2>5, ExecutedServed
  <2>8. Takes(c, t, 1, L)
    BY <1>2, <1>3, <2>5 DEF Takes
  <2>9. up'[c] = <<>>
    BY <1>2, <1>3
  <2> HIDE DEF L
  <2>10. \A d \in Clients : Client(d)'
    BY <1>3, <1>4, <1>5, <1>8, <2>3, <2>6, <2>8, <2>9, ExecutesOn
  <2> QED
    BY <2>6, <2>7, <2>10 DEF Invariant
<1> QED
  BY <1>0, <1>2, <1>7, <1>8 DEF Executed

-----------------------------------------------------------------------------
(* The end of a connection on the server's side.                           *)

(* Replies on their way are lost only with unread data behind them, that   *)
(* is, before the last call was executed.                                  *)
LEMMA DroppedGood ==
  ASSUME NEW p, NEW c, NEW stray, NEW live, NEW v, NEW w,
         Good(p, c, stray, live, v), v.up # <<>>,
         w.call = v.call, w.done = v.done, w.down = <<>>, (w.conn = "left") <=> (v.conn = "left")
  PROVE  Good(p, c, stray, FALSE, w)
<1>1. Counted(c, w)
  BY DEF Good, Counted
<1>2. Told(p, v) => Told(p, w)
  BY DEF Told
<1> QED
  BY <1>1, <1>2 DEF Good

LEMMA CloseClientInv == Invariant /\ CloseClient => Invariant'
<1> SUFFICES ASSUME Invariant, CloseClient PROVE Invariant'
  OBVIOUS
<1>0. PICK c : c = serving
  OBVIOUS
<1>1. Types /\ Plumbing /\ Served
  BY DEF Invariant
<1>2. /\ pc = "done" /\ serving' = None /\ buf' = <<>>
      /\ UNCHANGED <<protocol, cache, up, call, executed, astray>>
      /\ down' = down \/ (up[c] # <<>> /\ down' = [down EXCEPT ![c] = <<>>])
  BY <1>0 DEF CloseClient, histories
<1>3. c \in Clients /\ c # None /\ conn[c] \in {"up", "left"} /\ c \notin Waiting /\ None \notin Clients
  <2>1. c # None
    BY <1>0, <1>1, <1>2 DEF Plumbing
  <2>2. c \in Clients /\ None \notin Clients
    BY <1>0, <1>1, <2>1, ServerAssumption DEF Types
  <2>3. conn[c] \in {"up", "left"} /\ c \notin Waiting
    BY <1>0, <1>1, <2>1 DEF Plumbing, Waiting
  <2> QED
    BY <2>1, <2>2, <2>3
<1>4. ToSet(backlog) = Waiting /\ Len(backlog) \in Nat
  BY <1>1, WaitingIs
<1>5. /\ conn' \in [Clients -> {"new", "up", "closed", "left"}]
      /\ conn'[c] = IF conn[c] = "left" THEN "left" ELSE "closed"
      /\ \A d \in Clients : d # c => conn'[d] = conn[d] \/ (conn[d] = "up" /\ conn'[d] = "closed" /\ backlog' = <<>>)
      /\ backlog' = backlog \/ backlog' = <<>>
      /\ backlog' = backlog => \A d \in Clients : d # c => conn'[d] = conn[d]
      /\ running' \in BOOLEAN /\ pc' \in {"accept", "off"}
  <2> DEFINE closed == [conn EXCEPT ![c] = IF conn[c] = "left" THEN conn[c] ELSE "closed"]
  <2>1. /\ closed \in [Clients -> {"new", "up", "closed", "left"}]
        /\ closed[c] = IF conn[c] = "left" THEN "left" ELSE "closed"
        /\ \A d \in Clients : d # c => closed[d] = conn[d]
    BY <1>1, <1>3 DEF Types
  <2>2. CASE running /\ pc' = "accept" /\ conn' = closed /\ running' = running /\ backlog' = backlog
    BY <1>1, <2>1, <2>2 DEF Types
  <2>3. CASE /\ pc' = "off" /\ running' = FALSE /\ backlog' = <<>>
             /\ conn' = [d \in Clients |-> IF d \in ToSet(backlog) /\ conn[d] = "up" THEN "closed" ELSE closed[d]]
    <3>1. \A d \in Clients : conn'[d] = IF d \in Waiting /\ conn[d] = "up" THEN "closed" ELSE closed[d]
      BY <1>4, <2>3
    <3>2. conn' \in [Clients -> {"new", "up", "closed", "left"}]
      BY <2>1, <2>3
    <3>3. backlog' = backlog => Waiting = {}
      BY <1>1, <2>3, NobodyWaits DEF Waiting
    <3> HIDE DEF closed
    <3> QED
      BY <1>3, <2>1, <2>3, <3>1, <3>2, <3>3
  <2>4. \/ running /\ pc' = "accept" /\ conn' = closed /\ running' = running /\ backlog' = backlog
        \/ /\ pc' = "off" /\ running' = FALSE /\ backlog' = <<>>
           /\ conn' = [d \in Clients |-> IF d \in ToSet(backlog) /\ conn[d] = "up" THEN "closed" ELSE closed[d]]
    <3>1. CASE running
      BY <1>0, <3>1 DEF CloseClient
    <3>2. CASE ~running
      BY <1>0, <3>2 DEF CloseClient, Shutdown
    <3> QED
      BY <3>1, <3>2
  <2> HIDE DEF closed
  <2> QED
    BY <2>2, <2>3, <2>4
<1>6. Waiting' \subseteq Waiting /\ backlog' \in Seq(Clients)
  BY <1>1, <1>5, NobodyWaits, EmptySeq DEF Waiting, Types
<1>7. Types'
  <2>1. down' \in [Clients -> Seq(Answer)]
    BY <1>1, <1>2, EmptySeq DEF Types
  <2>2. buf' \in Seq(Piece)
    BY <1>2, EmptySeq
  <2> QED
    BY <1>1, <1>2, <1>5, <1>6, <2>1, <2>2 DEF Types
<1>8. Plumbing'
  <2>1. ASSUME NEW i \in 1..Len(backlog')
        PROVE  backlog'[i] # serving' /\ conn'[backlog'[i]] \in {"up", "left"}
    <3>1. backlog' = backlog /\ i \in 1..Len(backlog)
      BY <1>5, <2>1, NobodyWaits
    <3>2. backlog[i] \in Waiting /\ backlog[i] \in Clients
      BY <1>1, <3>1, ElementOfSeq DEF Waiting, Types
    <3> QED
      BY <1>1, <1>2, <1>3, <1>5, <3>1, <3>2 DEF Plumbing
  <2>2. \A i, j \in 1..Len(backlog') : backlog'[i] = backlog'[j] => i = j
    BY <1>1, <1>5, NobodyWaits DEF Plumbing
  <2>3. \A d \in Clients : conn'[d] = "new" => up'[d] = <<>>
    BY <1>1, <1>2, <1>3, <1>5 DEF Plumbing
  <2> QED
    BY <1>1, <1>2, <1>5, <2>1, <2>2, <2>3 DEF Plumbing
<1>9. Served'
  BY <1>1, <1>2, <1>3, <1>5, <1>6, ServedKeeps
<1>10. \A d \in Clients : Done(d)' = Done(d)
  BY <1>2, DoneSame
<1>11. \A d \in Clients : Live(d)' => d # c /\ d \in Waiting /\ d \in Waiting'
  BY <1>2, <1>3, <1>6 DEF Live
<1>12. ASSUME NEW d \in Clients, down'[d] = down[d] PROVE Client(d)'
  <2>1. Live(d)' => Live(d) /\ conn'[d] = conn[d] /\ Traffic(d)' = Traffic(d)
    <3> SUFFICES ASSUME Live(d)' PROVE Live(d) /\ conn'[d] = conn[d] /\ Traffic(d)' = Traffic(d)
      OBVIOUS
    <3>1. d # c /\ d \in Waiting /\ Waiting' # {}
      BY <1>11
    <3>2. conn'[d] = conn[d]
      BY <1>5, <3>1, NobodyWaits
    <3>3. d # None
      BY <1>3
    <3> QED
      BY <1>0, <1>2, <3>1, <3>2, <3>3 DEF Live, Traffic
  <2>2. conn'[d] = "left" <=> conn[d] = "left"
    BY <1>3, <1>5
  <2>3. Untouched(d)
    BY <1>2, <1>10, <1>12, <2>1, <2>2 DEF Untouched
  <2> QED
    BY <2>3, UntouchedClient DEF Invariant
<1>13. ASSUME up[c] # <<>>, down' = [down EXCEPT ![c] = <<>>] PROVE Client(c)'
  <2> DEFINE v == View(c)
             w == View(c)'
             s == c \in astray
             l == Live(c)
  <2>1. Good(protocol, c, s, l, v)
    BY <1>3 DEF Invariant, Client
  <2>2. v.up # <<>> /\ w.call = v.call /\ w.done = v.done /\ w.down = <<>>
    <3>1. down'[c] = <<>>
      BY <1>1, <1>3, <1>13 DEF Types
    <3> QED
      BY <1>2, <1>3, <1>10, <1>13, <3>1, ViewFields, ViewFieldsNext
  <2>3. (w.conn = "left") <=> (v.conn = "left")
    BY <1>3, <1>5, ViewFields, ViewFieldsNext
  <2> HIDE DEF v, w, s, l
  <2>4. Good(protocol, c, s, FALSE, w)
    BY <2>1, <2>2, <2>3, DroppedGood
  <2>5. Good(protocol', c, (c \in astray)', Live(c)', View(c)')
    <3>1. protocol' = protocol /\ (c \in astray)' = s
      BY <1>2 DEF s
    <3>2. Live(c)' = FALSE
      BY <1>3, <1>11 DEF Live
    <3> QED
      BY <2>4, <3>1, <3>2 DEF w
  <2> QED
    BY <2>5 DEF Client
<1>14. \A d \in Clients : Client(d)'
  <2>1. CASE down' = down
    BY <1>12, <2>1
  <2>2. CASE up[c] # <<>> /\ down' = [down EXCEPT ![c] = <<>>]
    <3>1. \A d \in Clients : d # c => down'[d] = down[d]
      BY <1>1, <2>2 DEF Types
    <3> QED
      BY <1>12, <1>13, <2>2, <3>1
  <2> QED
    BY <1>2, <2>1, <2>2
<1> QED
  BY <1>7, <1>8, <1>9, <1>14 DEF Invariant

-----------------------------------------------------------------------------
(* The clients' side.                                                      *)

(* What a step of client c on its side leaves alone.                       *)
Side(c) ==
  /\ UNCHANGED <<protocol, pc, running, backlog, serving, buf, cache, executed>>
  /\ \A d \in Clients : d # c =>
       call'[d] = call[d] /\ down'[d] = down[d] /\ up'[d] = up[d] /\ conn'[d] = conn[d] /\ (d \in astray' <=> d \in astray)
  /\ conn'[c] = conn[c] \/ conn'[c] = "left"
  /\ conn[c] = "new" => up'[c] = up[c]
  /\ protocol = "http" => astray' = astray

LEMMA SideInv ==
  ASSUME Invariant, NEW c \in Clients, Side(c), Types', Good(protocol, c, c \in astray', Live(c), View(c)')
  PROVE  Invariant'
<1>1. Types /\ Plumbing /\ Served
  BY DEF Invariant
<1>2. Waiting' = Waiting
  BY DEF Side, Waiting
<1>3. \A d \in Clients : Live(d)' = Live(d)
  BY <1>2 DEF Side, Live
<1>4. Served'
  BY <1>1, <1>2, ServedKeeps DEF Side
<1>5. Plumbing'
  <2>1. \A d \in Clients : conn[d] \in {"up", "left"} => conn'[d] \in {"up", "left"}
    BY DEF Side
  <2>2. \A d \in Clients : conn'[d] = "new" => up'[d] = <<>>
    BY <1>1 DEF Side, Plumbing
  <2>3. \A i \in 1..Len(backlog') : backlog'[i] # serving' /\ conn'[backlog'[i]] \in {"up", "left"}
    <3> SUFFICES ASSUME NEW i \in 1..Len(backlog) PROVE backlog[i] # serving /\ conn'[backlog[i]] \in {"up", "left"}
      BY DEF Side
    <3>1. backlog[i] \in Clients
      BY <1>1, ElementOfSeq DEF Types
    <3> QED
      BY <1>1, <2>1, <3>1 DEF Plumbing
  <2>4. serving' # None => conn'[serving'] \in {"up", "left"}
    BY <1>1, <2>1 DEF Plumbing, Side, Types
  <2> QED
    BY <1>1, <2>2, <2>3, <2>4 DEF Plumbing, Side
<1>6. ASSUME NEW d \in Clients, d # c PROVE Client(d)'
  <2>1. Traffic(d)' = Traffic(d) /\ Done(d)' = Done(d)
    BY <1>6, DoneSame DEF Traffic, Side
  <2>2. Untouched(d)
    BY <1>3, <1>6, <2>1 DEF Untouched, Side
  <2> QED
    BY <2>2, UntouchedClient DEF Invariant
<1>7. Client(c)'
  <2>1. protocol' = protocol /\ Live(c)' = Live(c)
    BY <1>3 DEF Side
  <2>2. Good(protocol', c, (c \in astray)', Live(c)', View(c)')
    BY <2>1
  <2> QED
    BY <2>2 DEF Client
<1> QED
  BY <1>1, <1>4, <1>5, <1>6, <1>7 DEF Invariant

(* A call reads a reply line or returns.                                   *)
TakesSide(c) ==
  /\ UNCHANGED <<protocol, pc, running, backlog, serving, buf, cache, executed, up, conn, astray>>
  /\ call' \in [Clients -> ACall] /\ down' \in [Clients -> Seq(Answer)]
  /\ \A d \in Clients : d # c => call'[d] = call[d] /\ down'[d] = down[d]
  /\ call'[c].n = call[c].n /\ call'[c].cmd = call[c].cmd

LEMMA LiveIs == Plumbing => \A c \in Clients : Live(c) => conn[c] \in {"up", "left"}
<1> SUFFICES ASSUME Plumbing, NEW c \in Clients, Live(c) PROVE conn[c] \in {"up", "left"}
  OBVIOUS
<1>1. CASE c \in Waiting
  BY <1>1 DEF Waiting, Plumbing
<1>2. CASE serving = c
  BY <1>2, ServerAssumption DEF Plumbing
<1> QED
  BY <1>1, <1>2 DEF Live

LEMMA TakesInv ==
  ASSUME Invariant, NEW c \in Clients, TakesSide(c), call[c].phase # "idle",
         Live(c) => down[c] # <<>>, c \notin astray => Told(protocol, View(c)')
  PROVE  Invariant'
<1> DEFINE v == View(c)
           w == View(c)'
           s == c \in astray
           l == Live(c)
<1>1. Types /\ Plumbing
  BY DEF Invariant
<1>2. Traffic(c)' = Traffic(c) /\ Done(c)' = Done(c)
  BY DoneSame DEF Traffic, TakesSide
<1>3. IsView(v) /\ Good(protocol, c, s, l, v)
  BY <1>1, ViewsAre DEF Invariant, Client
<1>4. v.call.phase # "idle" /\ (l => v.down # <<>>)
  BY ViewFields
<1>5. w.conn = v.conn /\ w.up = v.up /\ w.traffic = v.traffic /\ w.done = v.done
  BY <1>2, ViewFields, ViewFieldsNext DEF TakesSide
<1>6. w.call.n = v.call.n /\ w.call.cmd = v.call.cmd
  BY ViewFields, ViewFieldsNext DEF TakesSide
<1>7. ~s => Told(protocol, w)
  OBVIOUS
<1> HIDE DEF v, w, s, l
<1>8. Good(protocol, c, s, l, w)
  BY <1>3, <1>4, <1>5, <1>6, <1>7, TakenGood
<1>9. Types'
  BY <1>1 DEF Types, TakesSide
<1>10. Side(c)
  BY DEF TakesSide, Side
<1>11. Good(protocol, c, c \in astray', Live(c), View(c)')
  <2>1. (c \in astray') = s
    BY DEF TakesSide, s
  <2> QED
    BY <1>8, <2>1 DEF w, l
<1> QED
  BY <1>9, <1>10, <1>11, SideInv

LEMMA TailIs ==
  ASSUME NEW s \in Seq(Answer), s # <<>>
  PROVE  /\ Tail(s) \in Seq(Answer) /\ Head(s) = s[1] /\ s[1] \in Answer
         /\ Len(s) \in Nat /\ Len(s) > 0 /\ Len(Tail(s)) = Len(s) - 1
         /\ Tail(s) = <<>> <=> Len(s) = 1
<1>1. Len(s) \in Nat /\ Len(s) # 0
  BY LenProperties, EmptySeq
<1>2. Tail(s) \in Seq(Answer) /\ Head(s) = s[1] /\ Len(Tail(s)) = Len(s) - 1
  BY <1>1, HeadTailProperties
<1>3. s[1] \in Answer
  BY <1>1, ElementOfSeq
<1> QED
  BY <1>1, <1>2, <1>3, EmptySeq

LEMMA ReturnsIs ==
  ASSUME NEW c \in Clients, NEW r \in Returned, call \in [Clients -> ACall], Returns(c, r)
  PROVE  /\ call' \in [Clients -> ACall] /\ \A d \in Clients : d # c => call'[d] = call[d]
         /\ call'[c].n = call[c].n /\ call'[c].cmd = call[c].cmd
         /\ call'[c].phase = "idle" /\ call'[c].result = r
<1>1. call[c] \in ACall
  OBVIOUS
<1> DEFINE x == [call[c] EXCEPT !.phase = "idle"]
           y == [x EXCEPT !.result = r]
<1>2. call' = [call EXCEPT ![c] = y]
  BY DEF Returns
<1>3. x \in ACall /\ x.n = call[c].n /\ x.cmd = call[c].cmd /\ x.phase = "idle"
  BY <1>1 DEF ACall
<1> HIDE DEF x
<1>4. y \in ACall /\ y.n = x.n /\ y.cmd = x.cmd /\ y.phase = x.phase /\ y.result = r
  BY <1>3 DEF ACall
<1> HIDE DEF y
<1> QED
  BY <1>2, <1>3, <1>4

(* What the client is told by the reply of a SET, or by the end of the     *)
(* connection without one.                                                 *)
LEMMA ReturnedTold ==
  ASSUME NEW p, NEW v, NEW w, Told(p, v), v.call.phase # "idle", w.call.phase = "idle",
         w.call.n = v.call.n, w.call.cmd = v.call.cmd, w.done = v.done, w.down = <<>>,
         v.call.cmd.op = "SET" => (w.call.result = "ok" <=> (v.down # <<>> /\ v.down[1].text = "+OK"))
  PROVE  Told(p, w)
<1>1. v.down # <<>> => IsReply(p, v)
  BY DEF Told
<1>2. v.call.cmd.op = "SET" /\ v.down # <<>> => (v.down[1].text = "+OK" <=> v.call.n \in v.done)
  BY <1>1 DEF IsReply
<1>3. v.call.cmd.op = "SET" /\ v.down = <<>> => v.call.n \notin v.done
  BY DEF Told
<1> QED
  BY <1>2, <1>3 DEF Told

LEMMA OutcomeIs ==
  ASSUME NEW cmd \in Commands, NEW text \in Saying
  PROVE  Outcome(cmd, text) \in Returned /\ (cmd.op = "SET" => (Outcome(cmd, text) = "ok" <=> text = "+OK"))
<1>1. cmd.op \in {"SET", "GET", "DEL"}
  BY DEF Commands
<1>2. "ok" \in Returned /\ "failed" \in Returned /\ Saying \subseteq Returned
  BY DEF Returned
<1>3. CASE cmd.op = "SET"
  BY <1>2, <1>3 DEF Outcome
<1>4. CASE cmd.op = "DEL"
  BY <1>2, <1>4 DEF Outcome
<1>5. CASE cmd.op = "GET"
  BY <1>2, <1>5 DEF Outcome
<1> QED
  BY <1>1, <1>3, <1>4, <1>5

(* What holds of a client whose call has not returned.                     *)
LEMMA AsksIs ==
  ASSUME Invariant, NEW c \in Clients, call[c].phase # "idle"
  PROVE  /\ call[c].cmd \in Commands /\ down[c] \in Seq(Answer) /\ call \in [Clients -> ACall] /\ call[c] \in ACall
         /\ down \in [Clients -> Seq(Answer)]
         /\ c \notin astray => Told(protocol, View(c)) /\ (down[c] # <<>> => IsReply(protocol, View(c)))
<1>1. Types /\ Good(protocol, c, c \in astray, Live(c), View(c))
  BY DEF Invariant, Client
<1>2. call[c].cmd \in Commands
  BY <1>1, ViewFields DEF Good, Counted
<1>3. c \notin astray => Told(protocol, View(c))
  BY <1>1 DEF Good
<1>4. c \notin astray /\ down[c] # <<>> => IsReply(protocol, View(c))
  BY <1>3, ViewFields DEF Told
<1> QED
  BY <1>1, <1>2, <1>3, <1>4 DEF Types

(* A reply line that ends a call.                                          *)
LEMMA LastLineInv ==
  ASSUME Invariant, NEW c \in Clients, NEW r \in Returned, call[c].phase # "idle", down[c] # <<>>,
         Returns(c, r), down' = [down EXCEPT ![c] = Tail(down[c])], UNCHANGED <<serverVars, up, conn, histories>>,
         c \notin astray => Len(down[c]) = 1 /\ (call[c].cmd.op = "SET" => (r = "ok" <=> down[c][1].text = "+OK"))
  PROVE  Invariant'
<1>1. /\ down[c] \in Seq(Answer) /\ call \in [Clients -> ACall] /\ down \in [Clients -> Seq(Answer)]
      /\ c \notin astray => Told(protocol, View(c))
  BY AsksIs
<1>2. /\ call' \in [Clients -> ACall] /\ \A d \in Clients : d # c => call'[d] = call[d]
      /\ call'[c].n = call[c].n /\ call'[c].cmd = call[c].cmd /\ call'[c].phase = "idle" /\ call'[c].result = r
  BY <1>1, ReturnsIs
<1>3. /\ down' \in [Clients -> Seq(Answer)] /\ down'[c] = Tail(down[c])
      /\ \A d \in Clients : d # c => down'[d] = down[d]
  BY <1>1, TailIs
<1>4. c \notin astray => down'[c] = <<>>
  BY <1>1, <1>3, TailIs
<1>5. TakesSide(c)
  BY <1>2, <1>3 DEF TakesSide, serverVars, histories
<1>6. ASSUME c \notin astray PROVE Told(protocol, View(c)')
  <2> DEFINE v == View(c)
             w == View(c)'
  <2>1. Told(protocol, v)
    BY <1>1, <1>6
  <2>2. v.call.phase # "idle" /\ w.call.phase = "idle" /\ w.call.n = v.call.n /\ w.call.cmd = v.call.cmd
    BY <1>2, ViewFields, ViewFieldsNext
  <2>3. w.done = v.done
    BY DoneSame, ViewFields, ViewFieldsNext DEF histories
  <2>4. w.down = <<>>
    BY <1>4, <1>6, ViewFieldsNext
  <2>5. v.call.cmd.op = "SET" => (w.call.result = "ok" <=> (v.down # <<>> /\ v.down[1].text = "+OK"))
    BY <1>2, <1>6, ViewFields, ViewFieldsNext
  <2> HIDE DEF v, w
  <2>6. Told(protocol, w)
    BY <2>1, <2>2, <2>3, <2>4, <2>5, ReturnedTold
  <2> QED
    BY <2>6 DEF w
<1> QED
  BY <1>5, <1>6, TakesInv

LEMMA TakeLineInv == Invariant /\ (\E c \in Clients : TakeLine(c)) => Invariant'
<1> SUFFICES ASSUME Invariant, NEW c \in Clients, TakeLine(c) PROVE Invariant'
  OBVIOUS
<1> DEFINE text == Head(down[c]).text
           r == Outcome(call[c].cmd, text)
<1>1. /\ call[c].phase = "line" /\ (protocol = "http" \/ call[c].cmd.op # "GET") /\ down[c] # <<>>
      /\ down' = [down EXCEPT ![c] = Tail(down[c])] /\ Returns(c, r)
      /\ UNCHANGED <<serverVars, up, conn, histories>>
  BY DEF TakeLine
<1>2. call[c].cmd \in Commands /\ down[c] \in Seq(Answer) /\ (c \notin astray => IsReply(protocol, View(c)))
  BY <1>1, AsksIs
<1>3. text \in Saying /\ text = down[c][1].text
  BY <1>1, <1>2, TailIs DEF Answer
<1>4. r \in Returned /\ (call[c].cmd.op = "SET" => (r = "ok" <=> down[c][1].text = "+OK"))
  BY <1>2, <1>3, OutcomeIs
<1>5. c \notin astray => Len(down[c]) = 1
  BY <1>1, <1>2, ViewFields DEF IsReply
<1> HIDE DEF r, text
<1> QED
  BY <1>1, <1>4, <1>5, LastLineInv

LEMMA TakeDataInv == Invariant /\ (\E c \in Clients : TakeData(c)) => Invariant'
<1> SUFFICES ASSUME Invariant, NEW c \in Clients, TakeData(c) PROVE Invariant'
  OBVIOUS
<1> DEFINE r == Head(down[c]).text
<1>1. /\ call[c].phase = "data" /\ down[c] # <<>>
      /\ down' = [down EXCEPT ![c] = Tail(down[c])] /\ Returns(c, r)
      /\ UNCHANGED <<serverVars, up, conn, histories>>
  BY DEF TakeData
<1>2. down[c] \in Seq(Answer) /\ (c \notin astray => IsReply(protocol, View(c)))
  BY <1>1, AsksIs
<1>3. r \in Returned
  BY <1>1, <1>2, TailIs DEF Answer, Returned
<1>4. c \notin astray => Len(down[c]) = 1 /\ call[c].cmd.op = "GET"
  BY <1>1, <1>2, ViewFields DEF IsReply
<1> HIDE DEF r
<1> QED
  BY <1>1, <1>3, <1>4, LastLineInv

LEMMA TakeSizeInv == Invariant /\ (\E c \in Clients : TakeSize(c)) => Invariant'
<1> SUFFICES ASSUME Invariant, NEW c \in Clients, TakeSize(c) PROVE Invariant'
  OBVIOUS
<1>1. /\ protocol = "line" /\ call[c].phase = "line" /\ call[c].cmd.op = "GET" /\ down[c] # <<>>
      /\ down' = [down EXCEPT ![c] = Tail(down[c])] /\ UNCHANGED <<serverVars, up, conn, histories>>
      /\ IF Head(down[c]).text = "$" THEN call' = [call EXCEPT ![c].phase = "data"] ELSE Returns(c, "failed")
  BY DEF TakeSize
<1>2. /\ down[c] \in Seq(Answer) /\ (c \notin astray => Told(protocol, View(c)) /\ IsReply(protocol, View(c)))
      /\ call \in [Clients -> ACall] /\ call[c] \in ACall /\ down \in [Clients -> Seq(Answer)]
  BY <1>1, AsksIs
<1>3. Head(down[c]) = down[c][1] /\ "failed" \in Returned
  BY <1>1, <1>2, TailIs DEF Returned
<1>4. CASE Head(down[c]).text # "$"
  <2>1. c \notin astray => Len(down[c]) = 1
    BY <1>1, <1>2, <1>3, <1>4, ViewFields DEF IsReply
  <2> QED
    BY <1>1, <1>3, <1>4, <2>1, LastLineInv
<1>5. CASE Head(down[c]).text = "$"
  <2> DEFINE x == [call[c] EXCEPT !.phase = "data"]
             w == View(c)'
  <2>1. call' = [call EXCEPT ![c] = x]
    BY <1>1, <1>5
  <2>2. x \in ACall /\ x.n = call[c].n /\ x.cmd = call[c].cmd /\ x.phase = "data"
    BY <1>2 DEF ACall
  <2> HIDE DEF x
  <2>3. /\ call' \in [Clients -> ACall] /\ \A d \in Clients : d # c => call'[d] = call[d]
        /\ call'[c].n = call[c].n /\ call'[c].cmd = call[c].cmd /\ call'[c].phase = "data"
    BY <1>2, <2>1, <2>2
  <2>4. /\ down' \in [Clients -> Seq(Answer)] /\ down'[c] = Tail(down[c])
        /\ \A d \in Clients : d # c => down'[d] = down[d]
    BY <1>1, <1>2, TailIs
  <2>5. TakesSide(c)
    BY <1>1, <2>3, <2>4 DEF TakesSide, serverVars, histories
  <2>6. ASSUME c \notin astray PROVE Told(protocol, w)
    <3>1. Len(down[c]) = 2
      BY <1>1, <1>2, <1>3, <1>5, <2>6, ViewFields DEF IsReply
    <3>2. Len(down'[c]) = 1 /\ down'[c] # <<>>
      <4>1. Len(Tail(down[c])) = 1
        BY <1>1, <1>2, <3>1, TailIs
      <4>2. \A y : Len(y) = 1 => y # <<>>
        OBVIOUS
      <4> QED
        BY <2>4, <4>1, <4>2, Zenon
    <3>3. Len(w.down) = 1 /\ w.down # <<>> /\ w.call.phase = "data" /\ w.call.cmd.op = "GET"
      BY <1>1, <2>3, <3>2, ViewFieldsNext
    <3> HIDE DEF w
    <3> QED
      BY <1>1, <3>3 DEF Told, IsReply
  <2> QED
    BY <1>1, <2>5, <2>6, TakesInv
<1> QED
  BY <1>4, <1>5

LEMMA TakeEndInv == Invariant /\ (\E c \in Clients : TakeEnd(c)) => Invariant'
<1> SUFFICES ASSUME Invariant, NEW c \in Clients, TakeEnd(c) PROVE Invariant'
  OBVIOUS
<1>1. /\ call[c].phase # "idle" /\ conn[c] = "closed" /\ down[c] = <<>> /\ Returns(c, "failed")
      /\ UNCHANGED <<serverVars, up, down, conn, histories>>
  BY DEF TakeEnd
<1>2. /\ call \in [Clients -> ACall] /\ down \in [Clients -> Seq(Answer)]
      /\ c \notin astray => Told(protocol, View(c))
  BY <1>1, AsksIs
<1>3. "failed" \in Returned
  BY DEF Returned
<1>4. /\ call' \in [Clients -> ACall] /\ \A d \in Clients : d # c => call'[d] = call[d]
      /\ call'[c].n = call[c].n /\ call'[c].cmd = call[c].cmd /\ call'[c].phase = "idle" /\ call'[c].result = "failed"
  BY <1>1, <1>2, <1>3, ReturnsIs
<1>5. TakesSide(c)
  BY <1>1, <1>2, <1>4 DEF TakesSide, serverVars, histories
<1>6. ~Live(c)
  BY <1>1, LiveIs DEF Invariant
<1>7. ASSUME c \notin astray PROVE Told(protocol, View(c)')
  <2> DEFINE v == View(c)
             w == View(c)'
  <2>1. Told(protocol, v)
    BY <1>2, <1>7
  <2>2. /\ v.call.phase # "idle" /\ w.call.phase = "idle" /\ w.call.n = v.call.n /\ w.call.cmd = v.call.cmd
        /\ w.call.result = "failed" /\ v.down = <<>> /\ w.down = <<>>
    BY <1>1, <1>4, ViewFields, ViewFieldsNext
  <2>3. w.done = v.done
    BY <1>1, DoneSame, ViewFields, ViewFieldsNext DEF histories
  <2> HIDE DEF v, w
  <2>4. Told(protocol, w)
    BY <2>1, <2>2, <2>3, ReturnedTold
  <2> QED
    BY <2>4 DEF w
<1> QED
  BY <1>1, <1>5, <1>6, <1>7, TakesInv

LEMMA ConnectedGood ==
  ASSUME NEW p, NEW c, NEW stray, NEW live, NEW v, NEW w, Good(p, c, stray, live, v),
         w.call = v.call, w.down = v.down, w.done = v.done, w.up = v.up,
         v.conn = "new", w.conn = "up", w.traffic = <<>>
  PROVE  Good(p, c, stray, TRUE, w)
<1>1. Counted(c, w)
  BY DEF Good, Counted
<1>2. Told(p, v) => Told(p, w)
  BY DEF Told, IsReply
<1>3. Len(w.traffic) = 0
  OBVIOUS
<1>4. Flowing(c, w)
  BY <1>3 DEF Flowing
<1>5. Matching(p, c, w)
  BY <1>3 DEF Matching
<1> QED
  BY <1>1, <1>2, <1>4, <1>5 DEF Good

LEMMA ConnectInv == Invariant /\ (\E c \in Clients : Connect(c)) => Invariant'
<1> SUFFICES ASSUME Invariant, NEW c \in Clients, Connect(c) PROVE Invariant'
  OBVIOUS
<1>1. Types /\ Plumbing /\ Served
  BY DEF Invariant
<1>2. /\ conn[c] = "new" /\ conn' = [conn EXCEPT ![c] = "up"] /\ backlog' = Append(backlog, c)
      /\ UNCHANGED <<protocol, pc, running, serving, buf, cache, up, down, call, executed, astray>>
  BY DEF Connect, histories
<1>3. /\ conn' \in [Clients -> {"new", "up", "closed", "left"}] /\ conn'[c] = "up"
      /\ \A d \in Clients : d # c => conn'[d] = conn[d]
  BY <1>1, <1>2 DEF Types
<1>4. /\ backlog' \in Seq(Clients) /\ Len(backlog') = Len(backlog) + 1 /\ Len(backlog) \in Nat
      /\ \A i \in 1..Len(backlog) : backlog'[i] = backlog[i]
      /\ backlog'[Len(backlog) + 1] = c
  BY <1>1, <1>2, AppendProperties, LenProperties DEF Types
<1>5. \A i \in 1..Len(backlog') : (i \in 1..Len(backlog) /\ backlog'[i] = backlog[i]) \/ (i = Len(backlog) + 1 /\ backlog'[i] = c)
  BY <1>4
<1>6. serving # c /\ c \notin Waiting /\ up[c] = <<>>
  BY <1>1, <1>2, ServerAssumption DEF Plumbing, Waiting
<1>7. Waiting' = Waiting \cup {c}
  BY <1>4, <1>5 DEF Waiting
<1>8. Types'
  BY <1>1, <1>2, <1>3, <1>4 DEF Types
<1>9. Plumbing'
  <2>1. ASSUME NEW i \in 1..Len(backlog'), NEW j \in 1..Len(backlog'), backlog'[i] = backlog'[j] PROVE i = j
    <3>1. \A k \in 1..Len(backlog) : backlog[k] # c
      BY <1>6 DEF Waiting
    <3> QED
      BY <1>1, <1>5, <2>1, <3>1 DEF Plumbing
  <2>2. ASSUME NEW i \in 1..Len(backlog') PROVE backlog'[i] # serving' /\ conn'[backlog'[i]] \in {"up", "left"}
    <3>1. CASE i \in 1..Len(backlog) /\ backlog'[i] = backlog[i]
      <4>1. backlog[i] \in Clients /\ backlog[i] # c
        BY <1>1, <1>6, <3>1, ElementOfSeq DEF Types, Waiting
      <4> QED
        BY <1>1, <1>2, <1>3, <3>1, <4>1 DEF Plumbing
    <3>2. CASE backlog'[i] = c
      BY <1>2, <1>3, <1>6, <3>2
    <3> QED
      BY <1>5, <3>1, <3>2
  <2>3. serving' # None => conn'[serving'] \in {"up", "left"}
    BY <1>1, <1>2, <1>3, <1>6 DEF Plumbing, Types
  <2>4. \A d \in Clients : conn'[d] = "new" => up'[d] = <<>>
    BY <1>1, <1>2, <1>3 DEF Plumbing
  <2> QED
    BY <1>1, <1>2, <2>1, <2>2, <2>3, <2>4 DEF Plumbing
<1>10. Served'
  <2>1. \A d \in Clients : conn'[d] = "new" => conn[d] = "new"
    BY <1>3
  <2>2. \A d \in Clients : d \in Waiting' => d \in Waiting \/ conn[d] = "new"
    BY <1>2, <1>7
  <2> QED
    BY <1>1, <1>2, <2>1, <2>2, ServedKeeps
<1>11. \A d \in Clients : Traffic(d)' = Traffic(d) /\ Done(d)' = Done(d)
  BY <1>2, DoneSame DEF Traffic
<1>12. ASSUME NEW d \in Clients, d # c PROVE Client(d)'
  <2>1. Live(d)' => Live(d)
    BY <1>2, <1>7, <1>12 DEF Live
  <2>2. Untouched(d)
    BY <1>2, <1>3, <1>11, <1>12, <2>1 DEF Untouched
  <2> QED
    BY <2>2, UntouchedClient DEF Invariant
<1>13. Client(c)'
  <2> DEFINE v == View(c)
             w == View(c)'
             s == c \in astray
             l == Live(c)
  <2>1. Good(protocol, c, s, l, v)
    BY DEF Invariant, Client
  <2>2. w.call = v.call /\ w.down = v.down /\ w.done = v.done /\ w.up = v.up
    BY <1>2, <1>11, ViewFields, ViewFieldsNext
  <2>3. Traffic(c) = <<>>
    <3>1. Traffic(c) = <<>> \o <<>>
      BY <1>6 DEF Traffic
    <3>2. <<>> \o <<>> = <<>>
      BY ConcatEmptySeq, EmptySeq
    <3> QED
      BY <3>1, <3>2
  <2>4. v.conn = "new" /\ w.conn = "up" /\ w.traffic = <<>>
    BY <1>2, <1>3, <1>11, <2>3, ViewFields, ViewFieldsNext
  <2> HIDE DEF v, w, s, l
  <2>5. Good(protocol, c, s, TRUE, w)
    BY <2>1, <2>2, <2>4, ConnectedGood
  <2>6. Good(protocol', c, (c \in astray)', Live(c)', View(c)')
    <3>1. protocol' = protocol /\ (c \in astray)' = s
      BY <1>2 DEF s
    <3>2. Live(c)' = TRUE
      BY <1>7 DEF Live
    <3> QED
      BY <2>5, <3>1, <3>2 DEF w
  <2> QED
    BY <2>6 DEF Client
<1> QED
  BY <1>8, <1>9, <1>10, <1>12, <1>13 DEF Invariant

(* Something goes on its way behind the rest of a client's traffic.        *)
LEMMA WiresIs ==
  ASSUME Types, NEW c \in Clients, NEW n \in Nat, NEW cmd \in Commands \cup {Quit},
         up' = [up EXCEPT ![c] = up[c] \o Wire(c, n, cmd)], UNCHANGED <<serving, buf>>
  PROVE  /\ up' \in [Clients -> Seq(Piece)] /\ \A d \in Clients : d # c => up'[d] = up[d]
         /\ Wires(protocol, c, View(c), View(c)', n, cmd, Wire(c, n, cmd))
<1> DEFINE wire == Wire(c, n, cmd)
           b == IF serving = c THEN buf ELSE <<>>
           u == up[c]
<1>1. wire = IF protocol = "line" THEN LineWire(c, n, cmd) ELSE HttpWire(c, n, cmd)
  BY DEF Wire
<1> HIDE DEF wire
<1>2. wire \in Seq(Piece)
  BY <1>1, WireIs
<1>3. up \in [Clients -> Seq(Piece)] /\ u \in Seq(Piece) /\ b \in Seq(Piece)
  BY EmptySeq DEF Types
<1>4. up' = [up EXCEPT ![c] = u \o wire]
  BY DEF wire
<1>5. u \o wire \in Seq(Piece)
  BY <1>2, <1>3, ConcatProperties
<1>6. /\ up' \in [Clients -> Seq(Piece)] /\ \A d \in Clients : d # c => up'[d] = up[d]
      /\ up'[c] = u \o wire
  BY <1>3, <1>4, <1>5
<1>7. Traffic(c)' = b \o (u \o wire)
  BY <1>6 DEF Traffic
<1>8. Traffic(c) = b \o u
  BY DEF Traffic
<1> HIDE DEF b, u
<1>9. (b \o u) \o wire = b \o (u \o wire)
  BY <1>2, <1>3, ThreeInARow
<1>10. View(c)'.traffic = View(c).traffic \o wire
  BY <1>7, <1>8, <1>9, ViewFields, ViewFieldsNext
<1>11. Wires(protocol, c, View(c), View(c)', n, cmd, wire)
  BY <1>1, <1>10 DEF Wires
<1> QED
  BY <1>6, <1>11 DEF wire

LEMMA CallInv == Invariant /\ (\E c \in Clients : \E cmd \in Asked[c] : Call(c, cmd)) => Invariant'
<1> SUFFICES ASSUME Invariant, NEW c \in Clients, NEW cmd \in Asked[c], Call(c, cmd) PROVE Invariant'
  OBVIOUS
<1>1. Types /\ Plumbing
  BY DEF Invariant
<1>2. cmd \in Commands
  BY ServerAssumption
<1> DEFINE n == call[c].n + 1
           x == [n |-> n, cmd |-> cmd, phase |-> "line", result |-> "none"]
<1>3. /\ conn[c] = "up" /\ call[c].phase = "idle" /\ call[c].n < MaxCalls[c]
      /\ call' = [call EXCEPT ![c] = x]
      /\ up' = [up EXCEPT ![c] = up[c] \o Wire(c, n, cmd)]
      /\ UNCHANGED <<serverVars, down, conn, executed>>
  BY DEF Call
<1>4. astray' = IF protocol = "line" /\ BreaksLines(cmd) THEN astray \union {c} ELSE astray
  BY Zenon DEF Call, BreaksLines
<1>5. call \in [Clients -> ACall] /\ call[c].n \in Nat /\ n \in Nat
  BY <1>1, SMTT(30) DEF Types, ACall
<1>6. x \in ACall /\ x.n = n /\ x.cmd = cmd /\ x.phase = "line"
  BY <1>2, <1>5 DEF ACall, Returned
<1> HIDE DEF x
<1>7. /\ call' \in [Clients -> ACall] /\ call'[c] = x
      /\ \A d \in Clients : d # c => call'[d] = call[d]
  BY <1>3, <1>5, <1>6
<1>8. UNCHANGED <<protocol, pc, running, backlog, serving, buf, cache>>
  BY <1>3 DEF serverVars
<1> HIDE DEF n
<1>9. /\ up' \in [Clients -> Seq(Piece)] /\ \A d \in Clients : d # c => up'[d] = up[d]
      /\ Wires(protocol, c, View(c), View(c)', n, cmd, Wire(c, n, cmd))
  BY <1>1, <1>2, <1>3, <1>5, <1>8, WiresIs
<1>10. /\ astray' \subseteq Clients /\ \A d \in Clients : d # c => (d \in astray' <=> d \in astray)
       /\ protocol = "http" => astray' = astray
       /\ c \in astray \/ (protocol = "line" /\ BreaksLines(cmd)) => c \in astray'
  BY <1>1, <1>4 DEF Types
<1>11. Types'
  BY <1>1, <1>3, <1>7, <1>8, <1>9, <1>10 DEF Types
<1>12. Side(c)
  BY <1>3, <1>7, <1>8, <1>9, <1>10 DEF Side
<1>13. Good(protocol, c, c \in astray', Live(c), View(c)')
  <2> DEFINE v == View(c)
             w == View(c)'
             s == c \in astray
             s2 == c \in astray'
             l == Live(c)
             wire == Wire(c, n, cmd)
  <2>1. IsClient(protocol, c) /\ IsView(v) /\ Good(protocol, c, s, l, v)
    BY <1>1, ViewsAre, ClientsAre DEF Invariant, Client
  <2>2. v.conn = "up" /\ v.call.phase = "idle" /\ v.call.n < MaxCalls[c]
    BY <1>3, ViewFields
  <2>3. w.conn = v.conn /\ w.down = v.down /\ w.done = v.done
    BY <1>3, DoneSame, ViewFields, ViewFieldsNext
  <2>4. CallsFor(v, w, cmd)
    BY <1>6, <1>7, ViewFields, ViewFieldsNext DEF CallsFor, n
  <2>5. Wires(protocol, c, v, w, v.call.n + 1, cmd, wire)
    BY <1>9, ViewFields DEF n
  <2>6. s \/ (protocol = "line" /\ BreaksLines(cmd)) => s2
    BY <1>10
  <2> HIDE DEF v, w, s, s2, l, wire
  <2>7. Good(protocol, c, s2, l, w)
    BY <1>2, <2>1, <2>2, <2>3, <2>4, <2>5, <2>6, CalledGood
  <2> QED
    BY <2>7 DEF w, s2, l
<1> QED
  BY <1>11, <1>12, <1>13, SideInv

LEMMA DisconnectInv == Invariant /\ (\E c \in Clients : Disconnect(c)) => Invariant'
<1> SUFFICES ASSUME Invariant, NEW c \in Clients, Disconnect(c) PROVE Invariant'
  OBVIOUS
<1>1. Types /\ Plumbing
  BY DEF Invariant
<1> DEFINE n == MaxCalls[c] + 1
<1>2. /\ conn[c] \in {"up", "closed"} /\ call[c].phase = "idle"
      /\ conn' = [conn EXCEPT ![c] = "left"] /\ down' = [down EXCEPT ![c] = <<>>]
      /\ up' = IF conn[c] = "up" THEN [up EXCEPT ![c] = up[c] \o Wire(c, n, Quit)] ELSE up
      /\ UNCHANGED <<serverVars, call, executed, astray>>
  BY DEF Disconnect, Quit, histories
<1>3. UNCHANGED <<protocol, pc, running, backlog, serving, buf, cache>>
  BY <1>2 DEF serverVars
<1>4. n \in Nat /\ Quit \in Commands \cup {Quit}
  BY ServerAssumption
<1> HIDE DEF n
<1>5. conn[c] = "up" => /\ up' \in [Clients -> Seq(Piece)] /\ \A d \in Clients : d # c => up'[d] = up[d]
                        /\ Wires(protocol, c, View(c), View(c)', n, Quit, Wire(c, n, Quit))
  BY <1>1, <1>2, <1>3, <1>4, WiresIs
<1>6. up' \in [Clients -> Seq(Piece)] /\ \A d \in Clients : d # c => up'[d] = up[d]
  BY <1>1, <1>2, <1>5 DEF Types
<1>7. /\ conn' \in [Clients -> {"new", "up", "closed", "left"}] /\ conn'[c] = "left"
      /\ \A d \in Clients : d # c => conn'[d] = conn[d]
      /\ down' \in [Clients -> Seq(Answer)] /\ down'[c] = <<>>
      /\ \A d \in Clients : d # c => down'[d] = down[d]
  BY <1>1, <1>2, EmptySeq DEF Types
<1>8. Types'
  BY <1>1, <1>2, <1>3, <1>6, <1>7 DEF Types
<1>9. Side(c)
  BY <1>2, <1>3, <1>6, <1>7 DEF Side
<1>10. Good(protocol, c, c \in astray', Live(c), View(c)')
  <2> DEFINE v == View(c)
             w == View(c)'
             s == c \in astray
             l == Live(c)
             wire == Wire(c, n, Quit)
  <2>1. IsClient(protocol, c) /\ IsView(v) /\ Good(protocol, c, s, l, v)
    BY <1>1, ViewsAre, ClientsAre DEF Invariant, Client
  <2>2. v.conn # "left" /\ v.call.phase = "idle"
    BY <1>2, ViewFields
  <2>3. l => v.conn = "up"
    BY <1>1, <1>2, LiveIs, ViewFields
  <2>4. w.conn = "left" /\ w.down = <<>> /\ w.done = v.done /\ w.call = v.call
    BY <1>2, <1>7, DoneSame, ViewFields, ViewFieldsNext
  <2>5. v.conn = "up" => Wires(protocol, c, v, w, MaxCalls[c] + 1, Quit, wire)
    BY <1>5, ViewFields DEF n
  <2> HIDE DEF v, w, s, l, wire
  <2>6. Good(protocol, c, s, l, w)
    BY <2>1, <2>2, <2>3, <2>4, <2>5, LeftGood
  <2>7. (c \in astray') = s
    BY <1>2 DEF s
  <2> QED
    BY <2>6, <2>7 DEF w, l
<1> QED
  BY <1>8, <1>9, <1>10, SideInv

-----------------------------------------------------------------------------
(* The theorems.                                                           *)

LEMMA InitInv == Init => Invariant
<1> SUFFICES ASSUME Init PROVE Invariant
  OBVIOUS
<1>1. Len(<<>>) = 0 /\ 1..0 = {}
  OBVIOUS
<1>2. Types
  <2>1. NoCall \in ACall
    BY DEF NoCall, ACall, Quit, Returned
  <2>2. \A S : <<>> \in Seq(S)
    BY EmptySeq
  <2> QED
    BY <2>1, <2>2 DEF Init, Types
<1>3. Plumbing
  BY <1>1, ServerAssumption DEF Init, Plumbing
<1>4. Served
  BY <1>1 DEF Init, Served, ExecutedInOrder
<1>5. ASSUME NEW c \in Clients PROVE Client(c)
  <2> DEFINE v == View(c)
  <2>1. v.conn = "new" /\ v.call = NoCall /\ v.down = <<>>
    BY ViewFields DEF Init
  <2>2. v.done = {}
    <3>1. Done(c) = {}
      BY <1>1 DEF Init, Done
    <3> QED
      BY <3>1, ViewFields
  <2>3. ~Live(c)
    BY <1>1, ServerAssumption DEF Init, Live, Waiting
  <2>4. MaxCalls[c] \in Nat
    BY ServerAssumption
  <2>5. NoCall.n = 0 /\ NoCall.phase = "idle"
    BY DEF NoCall
  <2> HIDE DEF v
  <2>6. Counted(c, v) /\ Told(protocol, v)
    BY <2>1, <2>2, <2>4, <2>5 DEF Counted, Told
  <2> QED
    BY <2>3, <2>6 DEF Client, Good, v
<1> QED
  BY <1>2, <1>3, <1>4, <1>5 DEF Invariant

LEMMA StutterInv == Invariant /\ UNCHANGED vars => Invariant'
<1> SUFFICES ASSUME Invariant, UNCHANGED vars PROVE Invariant'
  OBVIOUS
<1>1. Types /\ Plumbing
  BY DEF Invariant
<1>2. SameStreams /\ UNCHANGED <<backlog, serving, buf, cache, conn, running, pc>>
  BY DEF vars, serverVars, clientVars, histories, SameStreams
<1> QED
  BY <1>1, <1>2, MoveInv DEF Types, Plumbing

LEMMA NextInv == Invariant /\ [Next]_vars => Invariant'
<1> SUFFICES ASSUME Invariant, [Next]_vars PROVE Invariant'
  OBVIOUS
<1>1. CASE UNCHANGED vars
  BY <1>1, StutterInv
<1>2. CASE Listen \/ Stop
  BY <1>2, ListenInv, StopInv
<1>3. CASE ServerStep
  BY <1>3, PublishInv, OpenCacheInv, AcceptInv, RecvInv, RecvEndInv, LineInv, NoMoreLinesInv, HttpRecvInv,
     RefuseInv, RouteInv, CloseClientInv DEF ServerStep
<1>4. CASE \E c \in Clients : Connect(c) \/ Take(c) \/ Disconnect(c)
  BY <1>4, ConnectInv, TakeLineInv, TakeSizeInv, TakeDataInv, TakeEndInv, DisconnectInv DEF Take
<1>5. CASE \E c \in Clients : \E cmd \in Asked[c] : Call(c, cmd)
  BY <1>5, CallInv
<1> QED
  BY <1>1, <1>2, <1>3, <1>4, <1>5 DEF Next

(* Where the server's thread is, who waits, who is served and what each    *)
(* client has been told and has on its way agree in every state.           *)
THEOREM InvariantHolds == Spec => []Invariant
<1>1. Init => Invariant
  BY InitInv
<1>2. Invariant /\ [Next]_vars => Invariant'
  BY NextInv
<1> QED
  BY <1>1, <1>2, PTL DEF Spec

(* server.c and http_server.c execute the commands of one connection after *)
(* those of another, each at most once and in the order in which the       *)
(* client called, however recv cuts the stream and whoever stops or        *)
(* leaves.                                                                 *)
THEOREM CommandsInOrder == Spec => []ExecutedInOrder
<1>1. Invariant => ExecutedInOrder
  BY DEF Invariant, Served
<1> QED
  BY <1>1, InvariantHolds, PTL

(* A call of cache_client_set returns 0 exactly if the server has executed *)
(* it, also when the connection is closed, reset or stopped under it: a    *)
(* call that failed was not executed and will not be.                      *)
THEOREM ClientsKnow == Spec => []ToldTheTruth
<1>1. ASSUME Invariant PROVE ToldTheTruth
  <2> SUFFICES ASSUME NEW c \in Clients \ astray, call[c].n > 0, call[c].phase = "idle", call[c].cmd.op = "SET"
               PROVE  call[c].result = "ok" <=> [client |-> c, n |-> call[c].n] \in ToSet(executed)
    BY DEF ToldTheTruth
  <2>1. Types /\ Good(protocol, c, FALSE, Live(c), View(c))
    <3>1. (c \in astray) = FALSE
      OBVIOUS
    <3>2. Good(protocol, c, c \in astray, Live(c), View(c))
      BY <1>1 DEF Invariant, Client
    <3> QED
      BY <1>1, <3>1, <3>2 DEF Invariant
  <2>2. call[c].result = "ok" <=> call[c].n \in Done(c)
    <3>1. Told(protocol, View(c))
      BY <2>1 DEF Good
    <3> QED
      BY <3>1, ViewFields DEF Told
  <2>3. call[c].n \in Done(c) <=> [client |-> c, n |-> call[c].n] \in ToSet(executed)
    <3>1. DOMAIN executed = 1..Len(executed) /\ \A i \in 1..Len(executed) : executed[i] \in Ran
      BY <2>1, LenProperties, ElementOfSeq DEF Types
    <3>2. \A r \in Ran : \A m : (r.client = c /\ r.n = m) <=> r = [client |-> c, n |-> m]
      BY DEF Ran
    <3>3. ToSet(executed) = {executed[i] : i \in 1..Len(executed)}
      BY <3>1 DEF ToSet
    <3>4. call[c].n \in Done(c) <=> \E i \in 1..Len(executed) : executed[i].client = c /\ executed[i].n = call[c].n
      BY DEF Done
    <3>5. [client |-> c, n |-> call[c].n] \in ToSet(executed)
            <=> \E i \in 1..Len(executed) : executed[i] = [client |-> c, n |-> call[c].n]
      BY <3>3
    <3>6. \A i \in 1..Len(executed) :
            executed[i] = [client |-> c, n |-> call[c].n] <=> (executed[i].client = c /\ executed[i].n = call[c].n)
      <4> SUFFICES ASSUME NEW i \in 1..Len(executed)
                   PROVE  executed[i] = [client |-> c, n |-> call[c].n] <=> (executed[i].client = c /\ executed[i].n = call[c].n)
        OBVIOUS
      <4>1. executed[i] \in Ran
        BY <3>1
      <4> QED
        BY <3>2, <4>1
    <3> QED
      BY <3>4, <3>5, <3>6
  <2> QED
    BY <2>2, <2>3
<1> QED
  BY <1>1, InvariantHolds, PTL
=============================================================================
