----------------------------- MODULE CacheServer -----------------------------
(***************************************************************************)
(* The two servers of a cache, the line protocol of server.c with its      *)
(* client library and HTTP (http_server.c) with a client that waits for    *)
(* each answer.  Both are one thread that accepts a connection, reads it   *)
(* until it ends and only then accepts the next one.                       *)
(*                                                                         *)
(* A connection is two streams, of pieces of requests up and of reply      *)
(* lines down, and what one recv returns is any beginning of what has      *)
(* arrived.  A command line is two pieces of text, a carriage return and a *)
(* line feed, so that a recv may end at each kind of place: in the text,   *)
(* after it and inside the line end.  The rest of a text on its own may be *)
(* a command too.  An HTTP request is its headers, the blank line and,     *)
(* with a value, a body.  Requests that change nothing but return          *)
(* something else than GET are left out, and SYNC.                         *)
(***************************************************************************)
EXTENDS Integers, Sequences, FiniteSets, SequencesExt

CONSTANTS
  Clients,    \* connections, each made once
  Keys,
  Values,
  KindOf,     \* what is special about sending a value
  RestsOf,    \* the commands that a rest of the line of a call is, cut at one place or another
  None,
  MaxCalls,   \* bound on the calls of each client
  Asked       \* what each client calls for, a set of Commands

Kinds == {"plain", "line break", "quote", "over 4096", "over 65535", "says close"}

\* One call of the client library.
Commands ==
  [op : {"SET"}, key : Keys, val : Values] \union [op : {"GET", "DEL"}, key : Keys]

Quit == [op |-> "QUIT"]

ASSUME ServerAssumption ==
  /\ KindOf \in [Values -> Kinds]
  /\ RestsOf \in [Commands -> SUBSET (Commands \union {Quit})]
  /\ None \notin Values /\ None \notin Clients
  /\ MaxCalls \in [Clients -> Nat]
  /\ Asked \in [Clients -> SUBSET Commands]

VARIABLES
  protocol,   \* "line" or "http"
  pc,         \* where the server's thread is
  running,    \* g_server_running
  listening,  \* the listening socket exists
  stopped,    \* cache_server_stop has been called
  backlog,    \* connections that are not accepted yet
  serving,    \* the connection being handled, or None
  buf,        \* what is left of the last recv
  cache,      \* [val, whole] by key
  up, down,   \* the two streams of each client
  conn,       \* "new", "up", "closed" by the server, "left" by the client
  call,       \* the client's last call: [n, cmd, phase, result]
  executed,   \* history: the commands executed
  lost,       \* history: calls of which a recv cut off the end
  astray      \* history: clients with a line that was not the whole of a call and yet executed, or may be

serverVars == <<protocol, pc, running, listening, stopped, backlog, serving, buf, cache>>
clientVars == <<up, down, conn, call>>
histories  == <<executed, lost, astray>>
vars == <<serverVars, clientVars, histories>>

-----------------------------------------------------------------------------
(* Lines. *)

CR == [at |-> "cr"]
LF == [at |-> "lf"]
BlankLine == [at |-> "blank line"]
Text(part, c, n, cmd) == [at |-> part, client |-> c, n |-> n, cmd |-> cmd]

KindOfCommand(cmd) == IF cmd.op = "SET" THEN KindOf[cmd.val] ELSE "plain"

\* What a call of the client library sends: snprintf cuts the line end off a value that is too long for the
\* buffer, and nothing is done about line breaks and quotes in a value.
LineWire(c, n, cmd) ==
  LET head == Text("head", c, n, cmd)
      tail == Text("tail", c, n, cmd)
  IN  CASE KindOfCommand(cmd) = "over 65535" -> <<head, tail>>
        [] KindOfCommand(cmd) = "line break" -> <<head, CR, LF, tail, CR, LF>>
        [] OTHER -> <<head, tail, CR, LF>>

\* What an HTTP client sends; it closes the connection without a word.
HttpWire(c, n, cmd) ==
  LET head == Text("head", c, n, cmd)
  IN  CASE cmd.op = "SET" -> <<head, BlankLine, Text("tail", c, n, cmd)>>
        [] cmd.op = "QUIT" -> <<>>
        [] OTHER -> <<head, BlankLine>>

Wire(c, n, cmd) == IF protocol = "line" THEN LineWire(c, n, cmd) ELSE HttpWire(c, n, cmd)

\* Places of line ends in a buffer.
LineEnds(b) == {i \in 1..(Len(b) - 1) : b[i] = CR /\ b[i + 1] = LF}

FirstLineEnd(b) == CHOOSE i \in LineEnds(b) : \A j \in LineEnds(b) : i <= j

\* Places of texts in a buffer.
Texts(b) == {i \in DOMAIN b : b[i] \notin {CR, LF, BlankLine}}

FirstText(b) == b[CHOOSE i \in Texts(b) : \A j \in Texts(b) : i <= j]

\* Variant: the lines of the recv are looked at again.
AfterLineAgain(b) == IF Len(b) > FirstLineEnd(b) + 1 THEN b ELSE <<>>

AfterLine(b) == SubSeq(b, FirstLineEnd(b) + 2, Len(b))

\* The line is a call as it was sent, or what is before the line break in one.
IsCommand(line) ==
  /\ Texts(line) # {}
  /\ FirstText(line).at = "head"
  /\ \/ Cardinality(Texts(line)) = 2
     \/ KindOfCommand(FirstText(line).cmd) = "line break"

\* The line is the rest of a call, cut off by a recv or a line break, and its first word
\* is a command's name.
RestIs(line, cmd) ==
  /\ Texts(line) # {}
  /\ FirstText(line).at = "tail" /\ FirstText(line).cmd \in Commands
  /\ cmd \in RestsOf[FirstText(line).cmd]

-----------------------------------------------------------------------------
(* Executing a line. *)

\* parse_command ends a value at a quote; a line break ended it before.  In the body of
\* an HTTP request both are escaped.
StoredAs(v) == [val |-> v, whole |-> protocol = "http" \/ KindOf[v] \notin {"line break", "quote"}]

Stored(cmd) ==
  CASE cmd.op = "SET" -> [cache EXCEPT ![cmd.key] = StoredAs(cmd.val)]
    [] cmd.op = "DEL" -> [cache EXCEPT ![cmd.key] = None]
    [] OTHER -> cache

Reply(n, text) == [n |-> n, text |-> text]

\* The reply lines; over HTTP there is one for each request.
Replies(n, cmd) ==
  CASE cmd.op = "SET" -> <<Reply(n, "+OK")>>
    [] cmd.op = "DEL" -> <<Reply(n, IF cache[cmd.key] = None THEN ":0" ELSE ":1")>>
    [] cmd.op = "QUIT" -> <<Reply(n, "+OK")>>
    [] cmd.op = "GET" -> IF cache[cmd.key] = None THEN <<Reply(n, "$-1")>>
                         ELSE IF protocol = "http" THEN <<Reply(n, cache[cmd.key])>>
                         ELSE <<Reply(n, "$"), Reply(n, cache[cmd.key])>>

\* What is sent to a client that has left goes nowhere.
Send(c, lines) == down' = IF conn[c] = "left" THEN down ELSE [down EXCEPT ![c] = @ \o lines]

\* An empty line has no reply.
EmptyLine(line) ==
  /\ Texts(line) = {}
  /\ pc' = "lines"
  /\ UNCHANGED <<cache, down, executed, astray>>

\* Variant: nothing is said of an unknown command.
UnknownCommandIgnored(line) ==
  /\ Texts(line) # {} /\ ~IsCommand(line)
  /\ pc' = "lines"
  /\ UNCHANGED <<cache, down, executed, astray>>

UnknownCommand(line) ==
  /\ Texts(line) # {} /\ ~IsCommand(line)
  /\ Send(serving, <<Reply(FirstText(line).n, "-ERR")>>)
  /\ pc' = "lines"
  /\ UNCHANGED <<cache, executed, astray>>

\* A long command, or the end of one if that is long enough still.
IsTooLong(line) == Texts(line) # {} /\ KindOfCommand(FirstText(line).cmd) = "over 4096"

\* Variant: the command is executed all the same.
TooLongExecuted(line) ==
  LET t == FirstText(line)
  IN  /\ IsTooLong(line)
      /\ Send(serving, <<Reply(t.n, "-ERR")>>)
      /\ cache' = Stored(t.cmd)
      /\ executed' = Append(executed, [client |-> t.client, n |-> t.n])
      /\ pc' = "done"
      /\ UNCHANGED astray

\* A line of more than 4096 bytes ends the connection.
TooLong(line) ==
  /\ IsTooLong(line)
  /\ Send(serving, <<Reply(FirstText(line).n, "-ERR")>>)
  /\ pc' = "done"
  /\ UNCHANGED <<cache, executed, astray>>

\* The command of piece t is executed; cache_set may fail.
Executed(t) ==
  \/ /\ Send(serving, Replies(t.n, t.cmd))
     /\ cache' = Stored(t.cmd)
     /\ executed' = Append(executed, [client |-> t.client, n |-> t.n])
  \/ /\ t.cmd.op = "SET"
     /\ Send(serving, <<Reply(t.n, "-ERR")>>)
     /\ UNCHANGED <<cache, executed>>

\* execute_command.
Execute(line) ==
  LET t == FirstText(line)
  IN  /\ IsCommand(line) /\ ~IsTooLong(line)
      /\ Executed(t)
      /\ pc' = IF t.cmd.op = "QUIT" THEN "done" ELSE "lines"
      /\ UNCHANGED astray

\* execute_command, for a command that nobody has called for.
ExecuteRest(line, cmd) ==
  LET t == FirstText(line)
  IN  /\ RestIs(line, cmd)
      /\ \/ Send(serving, Replies(t.n, cmd)) /\ cache' = Stored(cmd)
         \/ cmd.op = "SET" /\ Send(serving, <<Reply(t.n, "-ERR")>>) /\ UNCHANGED cache
      /\ astray' = astray \union {t.client}
      /\ pc' = IF cmd.op = "QUIT" THEN "done" ELSE "lines"
      /\ UNCHANGED executed

-----------------------------------------------------------------------------

NoCall == [n |-> 0, cmd |-> Quit, phase |-> "idle", result |-> "none"]

Init ==
  /\ protocol \in {"line", "http"}
  /\ pc = "off" /\ running = FALSE /\ listening = FALSE /\ stopped = FALSE
  /\ backlog = <<>> /\ serving = None /\ buf = <<>>
  /\ cache = [k \in Keys |-> None]
  /\ up = [c \in Clients |-> <<>>] /\ down = [c \in Clients |-> <<>>]
  /\ conn = [c \in Clients |-> "new"] /\ call = [c \in Clients |-> NoCall]
  /\ executed = <<>> /\ lost = {} /\ astray = {}

-----------------------------------------------------------------------------
(* The server. *)

\* socket, bind and listen in cache_server_run.
Listen ==
  /\ pc = "off" /\ ~listening /\ ~running /\ ~stopped
  /\ pc' = "listening"
  /\ listening' = TRUE
  /\ UNCHANGED <<protocol, running, stopped, backlog, serving, buf, cache, clientVars, histories>>

\* g_server_running is set, whether or not cache_server_stop was called before.
Publish ==
  /\ pc = "listening"
  /\ pc' = "opening"
  /\ running' = TRUE
  /\ UNCHANGED <<protocol, listening, stopped, backlog, serving, buf, cache, clientVars, histories>>

\* The connections that wait are reset when the listening socket goes away.
Reset == conn' = [c \in Clients |-> IF c \in ToSet(backlog) /\ conn[c] = "up" THEN "closed" ELSE conn[c]]

\* The socket is closed (a second time after a stop) and the cache with it.
Shutdown ==
  /\ pc' = "off"
  /\ listening' = FALSE
  /\ running' = FALSE
  /\ backlog' = <<>>

\* cache_open, which may fail and leaves g_server_running set then.
OpenCache ==
  /\ pc = "opening"
  /\ \/ running /\ pc' = "accept" /\ UNCHANGED <<running, listening, backlog, conn>>
     \/ ~running /\ Shutdown /\ Reset
     \/ pc' = "off" /\ listening' = FALSE /\ backlog' = <<>> /\ Reset /\ UNCHANGED running
  /\ UNCHANGED <<protocol, stopped, serving, buf, cache, up, down, call, histories>>

\* A stopped server that was blocked in accept takes one more connection and drops it.
Accept ==
  /\ pc = "accept"
  /\ backlog # <<>>
  /\ serving' = Head(backlog)
  /\ backlog' = Tail(backlog)
  /\ pc' = IF running THEN "recv" ELSE "done"
  /\ UNCHANGED <<protocol, running, listening, stopped, buf, cache, clientVars, histories>>

\* recv returns the first k pieces of what has arrived.
Arrive(k) == up' = [up EXCEPT ![serving] = SubSeq(@, k + 1, Len(@))]

\* handle_client: into an empty buffer, without what was left of the last recv.
Recv ==
  /\ protocol = "line" /\ pc = "recv"
  /\ \E k \in 1..Len(up[serving]) : Arrive(k) /\ buf' = SubSeq(up[serving], 1, k)
  /\ pc' = "lines"
  /\ UNCHANGED <<protocol, running, listening, stopped, backlog, serving, cache, down, conn, call, histories>>

\* The headers are there and as much of the body as they announce.
IsComplete(b) == BlankLine \in ToSet(b) /\ (FirstText(b).cmd.op = "SET" => Cardinality(Texts(b)) = 2)

\* What is announced does not fit into the buffer.
IsTooLarge(b) == BlankLine \in ToSet(b) /\ KindOfCommand(FirstText(b).cmd) = "over 65535"

\* handle_http_client: behind what is there.
HttpRecv ==
  /\ protocol = "http" /\ pc = "recv" /\ ~IsComplete(buf) /\ ~IsTooLarge(buf)
  /\ \E k \in 1..Len(up[serving]) : Arrive(k) /\ buf' = buf \o SubSeq(up[serving], 1, k)
  /\ UNCHANGED <<protocol, pc, running, listening, stopped, backlog, serving, cache, down, conn, call, histories>>

\* A request that is too large is refused unread.
Refuse ==
  /\ protocol = "http" /\ pc = "recv" /\ IsTooLarge(buf)
  /\ Send(serving, <<Reply(FirstText(buf).n, "-ERR")>>)
  /\ pc' = "done"
  /\ UNCHANGED <<protocol, running, listening, stopped, backlog, serving, buf, cache, up, conn, call, histories>>

\* route_request, and whether "Connection: close" is anywhere in the request.
Route ==
  /\ protocol = "http" /\ pc = "recv" /\ IsComplete(buf) /\ ~IsTooLarge(buf)
  /\ Executed(FirstText(buf))
  /\ buf' = <<>>
  /\ pc' = IF running /\ KindOfCommand(FirstText(buf).cmd) # "says close" THEN "recv" ELSE "done"
  /\ UNCHANGED <<protocol, running, listening, stopped, backlog, serving, up, conn, call, lost, astray>>

\* Variant: only an error ends the connection.
RecvEndIgnored ==
  /\ pc = "recv"
  /\ conn[serving] = "left" /\ up[serving] = <<>>
  /\ UNCHANGED vars

\* The client has closed its end.
RecvEnd ==
  /\ pc = "recv" /\ ~IsComplete(buf) /\ ~IsTooLarge(buf)
  /\ conn[serving] = "left" /\ up[serving] = <<>>
  /\ pc' = "done"
  /\ UNCHANGED <<protocol, running, listening, stopped, backlog, serving, buf, cache, clientVars, histories>>

\* The next line of the buffer.
Line ==
  /\ pc = "lines"
  /\ LineEnds(buf) # {}
  /\ LET line == SubSeq(buf, 1, FirstLineEnd(buf) - 1)
     IN  \/ EmptyLine(line) \/ UnknownCommand(line) \/ TooLong(line) \/ Execute(line)
         \/ \E cmd \in Commands \union {Quit} : ExecuteRest(line, cmd)
  /\ buf' = AfterLine(buf)
  /\ UNCHANGED <<protocol, running, listening, stopped, backlog, serving, up, conn, call, lost>>

\* No line end in what is left: the next recv overwrites it.
NoMoreLines ==
  /\ pc = "lines"
  /\ LineEnds(buf) = {}
  /\ lost' = lost \union {[client |-> buf[i].client, n |-> buf[i].n] : i \in {j \in Texts(buf) : buf[j].at = "tail"}}
  /\ buf' = <<>>
  /\ pc' = IF running THEN "recv" ELSE "done"
  /\ UNCHANGED <<protocol, running, listening, stopped, backlog, serving, cache, clientVars, executed, astray>>

\* close(client_fd), and the loop's condition.  Closing with unread data may take the
\* replies that are on their way with it.
CloseClient ==
  /\ pc = "done"
  /\ serving' = None
  /\ buf' = <<>>
  /\ \/ UNCHANGED down
     \/ up[serving] # <<>> /\ down' = [down EXCEPT ![serving] = <<>>]
  /\ LET closed == [conn EXCEPT ![serving] = IF @ = "left" THEN @ ELSE "closed"]
     IN  IF running THEN pc' = "accept" /\ conn' = closed /\ UNCHANGED <<running, listening, backlog>>
         ELSE /\ Shutdown
              /\ conn' = [c \in Clients |-> IF c \in ToSet(backlog) /\ conn[c] = "up" THEN "closed" ELSE closed[c]]
  /\ UNCHANGED <<protocol, stopped, cache, up, call, histories>>

\* cache_server_stop.  Called by a signal handler on the server's thread it makes the
\* blocked call fail; from elsewhere it leaves it blocked, and a socket that is being
\* accepted from alive.  Before Publish a call changes nothing and is forgotten.
Stop ==
  /\ ~stopped /\ pc \notin {"off", "listening"}
  /\ stopped' = TRUE
  /\ running' = FALSE
  /\ \/ pc = "accept" /\ Shutdown /\ Reset
     \/ pc = "accept" /\ UNCHANGED <<pc, listening, backlog, conn>>
     \/ /\ pc # "accept"
        /\ pc' \in IF pc = "recv" /\ ~IsComplete(buf) /\ ~IsTooLarge(buf) THEN {"recv", "done"} ELSE {pc}
        /\ listening' = FALSE /\ backlog' = <<>> /\ Reset
  /\ UNCHANGED <<protocol, serving, buf, cache, up, down, call, histories>>

-----------------------------------------------------------------------------
(* A client. *)

\* cache_client_connect.
Connect(c) ==
  /\ conn[c] = "new" /\ listening
  /\ conn' = [conn EXCEPT ![c] = "up"]
  /\ backlog' = Append(backlog, c)
  /\ UNCHANGED <<protocol, pc, running, listening, stopped, serving, buf, cache, up, down, call, histories>>

\* send_command.
Call(c, cmd) ==
  /\ conn[c] = "up"
  /\ call[c].phase = "idle" /\ call[c].n < MaxCalls[c]
  /\ call' = [call EXCEPT ![c] = [n |-> @.n + 1, cmd |-> cmd, phase |-> "line", result |-> "none"]]
  /\ up' = [up EXCEPT ![c] = @ \o Wire(c, call[c].n + 1, cmd)]
  /\ astray' = IF protocol = "line" /\ KindOfCommand(cmd) = "line break" THEN astray \union {c} ELSE astray
  /\ UNCHANGED <<serverVars, down, conn, executed, lost>>

Returns(c, result) == call' = [call EXCEPT ![c].phase = "idle", ![c].result = result]

Outcome(cmd, text) ==
  CASE cmd.op = "SET" -> IF text = "+OK" THEN "ok" ELSE "failed"
    [] cmd.op = "DEL" -> IF text = ":1" THEN "ok" ELSE "failed"
    [] cmd.op = "GET" -> text

\* read_response for commands that are answered with a line, or an HTTP response.
TakeLine(c) ==
  /\ call[c].phase = "line" /\ (protocol = "http" \/ call[c].cmd.op # "GET")
  /\ down[c] # <<>>
  /\ down' = [down EXCEPT ![c] = Tail(@)]
  /\ Returns(c, Outcome(call[c].cmd, Head(down[c]).text))
  /\ UNCHANGED <<serverVars, up, conn, histories>>

\* The first line in read_bulk_string.
TakeSize(c) ==
  /\ protocol = "line" /\ call[c].phase = "line" /\ call[c].cmd.op = "GET"
  /\ down[c] # <<>>
  /\ down' = [down EXCEPT ![c] = Tail(@)]
  /\ IF Head(down[c]).text = "$" THEN call' = [call EXCEPT ![c].phase = "data"] ELSE Returns(c, "failed")
  /\ UNCHANGED <<serverVars, up, conn, histories>>

\* The data and the line end after it, two bytes that were sent together.
TakeData(c) ==
  /\ call[c].phase = "data"
  /\ down[c] # <<>>
  /\ Returns(c, Head(down[c]).text)
  /\ down' = [down EXCEPT ![c] = Tail(@)]
  /\ UNCHANGED <<serverVars, up, conn, histories>>

\* The connection has ended.
TakeEnd(c) ==
  /\ call[c].phase # "idle"
  /\ conn[c] = "closed" /\ down[c] = <<>>
  /\ Returns(c, "failed")
  /\ UNCHANGED <<serverVars, up, down, conn, histories>>

\* cache_client_disconnect: QUIT, and no look at the answer.
Disconnect(c) ==
  /\ conn[c] \in {"up", "closed"}
  /\ call[c].phase = "idle"
  /\ conn' = [conn EXCEPT ![c] = "left"]
  /\ down' = [down EXCEPT ![c] = <<>>]
  /\ up' = IF conn[c] = "up" THEN [up EXCEPT ![c] = @ \o Wire(c, MaxCalls[c] + 1, Quit)] ELSE up
  /\ UNCHANGED <<serverVars, call, histories>>
-----------------------------------------------------------------------------

ServerStep ==
  \/ Publish \/ OpenCache \/ Accept \/ Recv \/ RecvEnd \/ Line \/ NoMoreLines
  \/ HttpRecv \/ Refuse \/ Route \/ CloseClient

Take(c) == TakeLine(c) \/ TakeSize(c) \/ TakeData(c) \/ TakeEnd(c)

Next ==
  \/ Listen \/ Stop
  \/ ServerStep
  \/ \E c \in Clients : Connect(c) \/ Take(c) \/ Disconnect(c)
  \/ \E c \in Clients : \E cmd \in Asked[c] : Call(c, cmd)

Spec == Init /\ [][Next]_vars

\* The thread runs, blocked calls return what has arrived, and no client keeps its
\* connection for ever when it has nothing more to ask.
FairSpec ==
  /\ Spec
  /\ WF_vars(ServerStep)
  /\ \A c \in Clients : WF_vars(Take(c)) /\ WF_vars(Disconnect(c))

-----------------------------------------------------------------------------
(* Properties. *)

\* What a client is told is what happened, wherever the streams are cut, whoever else is
\* connected and whenever the server stops: cache_client_set returns 0 exactly if the
\* server has executed this call, and a call that has failed is not executed later.  This
\* is so on connections on which no value with a line break was sent, and the server has
\* not taken the rest of a line that recv had cut for a command: execute_command looks at
\* the first word only, and answers "+OK" to a SET or QUIT found there.
ToldTheTruth ==
  \A c \in Clients \ astray :
    (call[c].n > 0 /\ call[c].phase = "idle" /\ call[c].cmd.op = "SET") =>
      (call[c].result = "ok" <=> [client |-> c, n |-> call[c].n] \in ToSet(executed))

\* No command is executed twice, the commands of a connection are executed in the order
\* of its calls, and those of another one not among them.
ExecutedInOrder ==
  \A i, j \in DOMAIN executed :
    (i < j /\ executed[i].client = executed[j].client) =>
      /\ executed[i].n < executed[j].n
      /\ \A k \in i..j : executed[k].client = executed[i].client

\* The client waits for an answer to a command of which the server dropped the end.
Stranded(c) == call[c].phase # "idle" /\ [client |-> c, n |-> call[c].n] \in lost

\* Every call returns, those of clients that wait to be accepted and of a server that
\* stops too, unless it or the call of the client being served is stranded: no other
\* cut of the stream, value or order of steps makes a client wait for ever, and over
\* HTTP nothing does.
EveryCallReturns ==
  \A c \in Clients : (call[c].phase # "idle") ~> (call[c].phase = "idle" \/ \E d \in Clients : Stranded(d))

\* A server that is stopped while it serves a client closes the cache: it does not
\* go on with that client's commands for ever nor wait in accept, unless the client is
\* stranded.
StopsInTheEnd ==
  (stopped /\ ~running /\ pc \in {"opening", "recv", "lines", "done"}) ~> (pc = "off" \/ \E d \in Clients : Stranded(d))

=============================================================================
