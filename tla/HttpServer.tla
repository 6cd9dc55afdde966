----------------------------- MODULE HttpServer -----------------------------
(***************************************************************************)
(* The HTTP server of one camera (src/src/net/HttpServer.cpp and           *)
(* HttpTypes.cpp): keep-alive connections that take one request at a time, *)
(* the exchange a handler may answer at once, much later, as a stream or   *)
(* never, the replies quirks delay, send in pieces or drop, the idle       *)
(* timer, and outages that close the server, sometimes from inside one of  *)
(* its own handlers.                                                       *)
(*                                                                         *)
(* A step is one callback of the event loop, except that processBuffer()   *)
(* takes a step for each request it handles: busy names the connection     *)
(* whose processBuffer() is on the stack, and nothing else moves then.     *)
(* Handlers keep their exchange and may call it at any later time, also    *)
(* when the connection is long gone.                                       *)
(***************************************************************************)
EXTENDS Integers, Sequences, FiniteSets, FiniteSetsExt

CONSTANTS
  Conns,      \* connections clients open
  None,       \* no connection
  Loads,      \* bound: how many requests each connection may send, to choose from
  Pieces      \* bound: pieces of a slow reply, chunks of a stream

ASSUME HttpServerAssumption ==
  /\ None \notin Conns
  /\ Loads # {} /\ Loads \subseteq [Conns -> Nat]
  /\ Pieces \in Nat \ {0}

VARIABLES
  conn,       \* the state of each HttpConnection, its socket and exchanges
  busy,       \* the connection inside processBuffer()
  listening,  \* QTcpServer::isListening
  suspended   \* Private::suspended

vars == <<conn, busy, listening, suspended>>

-----------------------------------------------------------------------------
(* What arrives, what a handler may do, and what goes out.                 *)

\* A request without a body, one that asks to close, one whose body follows
\* (and waits for 100 Continue), that body, and one the parser refuses.
Input == {"get", "last", "post", "body", "junk"}

\* How a reply is sent: whole, with the connection closed behind it (forceClose,
\* rawOverride), in pieces, in pieces of which the first finds the connection
\* broken; after a delay, in one of these ways; or not at all.
Sending == {"plain", "close", "slow", "cut"}
Reply == Sending \cup {"late", "drop"}

\* How a stream opens: at once, or with a head that finds the connection broken,
\* after a delay, or not at all.
Opening == {"head", "lostHead", "lateHead", "noHead"}

\* What the handler of a request does before it returns; "keep" holds on to the
\* exchange, "offline" takes the camera down.
Handling == Reply \cup Opening \cup {"keep", "offline"}

\* Bytes on the wire: part -1 is 100 Continue, 0 the head of a stream, k the
\* k-th piece; end marks the last byte of a response.
Bytes(n, part, end) == [req |-> n, part |-> part, end |-> end]

\* An exchange: live (its callbacks into the connection are set), responded and
\* streaming are the fields of HttpExchange::Private; the rest is history: born
\* (a handler was given it), told (aborted() was emitted), sent (the reply was
\* handed to the connection), chunks (accepted), ok (the last chunk was).
NoExchange == [live |-> FALSE, responded |-> FALSE, streaming |-> FALSE, born |-> FALSE,
               told |-> FALSE, sent |-> FALSE, chunks |-> 0, ok |-> TRUE]
Exchange == [live : BOOLEAN, responded : BOOLEAN, streaming : BOOLEAN, born : BOOLEAN,
             told : BOOLEAN, sent : BOOLEAN, chunks : Nat, ok : BOOLEAN]

\* A connection before it is accepted, of a client with so many requests.
Fresh(requests) ==
  [sock |-> "none",        \* none, open, draining (disconnectFromHost), gone
   listed |-> FALSE,       \* in HttpServer::Private::connections
   buffer |-> <<>>,        \* m_buffer
   owes |-> FALSE,         \* the client has a body still to send
   arrived |-> 0,          \* requests the client has begun to send
   count |-> 0,            \* requests parsed; m_request is the last of them
   parsed |-> FALSE,       \* m_haveHeaders, its body not yet here
   keep |-> TRUE,          \* m_request.wantsKeepAlive()
   await |-> FALSE,        \* m_awaitingResponse
   closing |-> FALSE,      \* m_closing
   last |-> FALSE,         \* m_closeAfterSend
   cur |-> 0,              \* m_exchange, 0 when it is null
   streaming |-> FALSE,    \* m_streaming
   headSent |-> FALSE,     \* m_streamHeadSent
   queued |-> 0,           \* chunks in m_streamQueued
   idle |-> FALSE,         \* m_idleTimer runs
   again |-> FALSE,        \* a posted processBuffer()
   late |-> FALSE,         \* the timer of a delayed reply
   lateHead |-> FALSE,     \* the timer of a delayed stream head
   left |-> 0,             \* pieces m_slowTimer has still to send
   x |-> [n \in 1..requests |-> NoExchange],
   wire |-> <<>>]          \* history: what went out

-----------------------------------------------------------------------------
(* The member functions of HttpConnection: from a state to the next.       *)

Put(s, bytes) == [s EXCEPT !.wire = Append(@, bytes)]

ArmIdle(s) == [s EXCEPT !.idle = ~s.await /\ ~s.streaming]

\* detach() and aborted() of an exchange: the callbacks go first, then the handler is
\* told, if it did not answer.
Severed(e) == [e EXCEPT !.live = FALSE, !.told = @ \/ ~e.responded]

\* abortExchange().
\* Mutant: the callbacks into the connection stay set.
AbortExchange_StaysLive(s) ==
  IF s.cur = 0 THEN s
  ELSE [s EXCEPT !.cur = 0, !.x[s.cur] = [@ EXCEPT !.told = @ \/ ~s.x[s.cur].responded]]
AbortExchange(s) ==
  IF s.cur = 0 THEN s ELSE [s EXCEPT !.cur = 0, !.x[s.cur] = Severed(@)]

\* deleteLater(): the object goes, and its timers and posted calls with it.
Retire(s) == [s EXCEPT !.idle = FALSE, !.again = FALSE, !.late = FALSE,
                       !.lateHead = FALSE, !.left = 0, !.queued = 0,
                       !.buffer = <<>>]

OnDisconnected(s) ==
  Retire([AbortExchange([s EXCEPT !.closing = TRUE, !.sock = "gone"])
            EXCEPT !.listed = FALSE])

\* abort() emits disconnected() before it returns.
DropNow(s) ==
  OnDisconnected(AbortExchange([s EXCEPT !.closing = TRUE, !.streaming = FALSE]))

\* HttpServer::close() on one of its connections.
Shutdown(s) ==
  IF ~s.listed THEN s
  ELSE Retire([AbortExchange([s EXCEPT !.closing = TRUE])
                 EXCEPT !.sock = "gone", !.listed = FALSE])

\* m_closing and disconnectFromHost(): queued bytes still go out.
Drain(s) == [s EXCEPT !.closing = TRUE, !.sock = IF @ = "open" THEN "draining" ELSE @]

\* releaseExchangeLater()
Release(s) == [s EXCEPT !.cur = 0]

\* Mutant: the idle timer is not armed again.
FinishResponse_NoIdle(s) ==
  LET r == Release([s EXCEPT !.await = FALSE])
  IN IF r.last THEN Drain(r) ELSE [r EXCEPT !.parsed = FALSE, !.again = TRUE]
FinishResponse(s) ==
  LET r == Release([s EXCEPT !.await = FALSE])
  IN IF r.last THEN Drain(r)
     ELSE ArmIdle([r EXCEPT !.parsed = FALSE, !.again = TRUE])

\* flush() finds the connection broken or not; if it does, disconnected() is
\* emitted before the call returns.
Flush(s, broken) == IF broken THEN OnDisconnected(s) ELSE s

\* sendChunk(): a piece of a slow reply, by the timer or at once.
\* Mutant: the timer fires only once.
SendPiece_OneShot(s, broken) ==
  IF s.closing \/ s.sock # "open" THEN [s EXCEPT !.left = 0]
  ELSE LET r == Put([s EXCEPT !.left = @ - 1],
                    Bytes(s.count, Pieces - s.left + 1, s.left = 1))
       IN Flush(IF r.left = 0 THEN FinishResponse(r) ELSE [r EXCEPT !.left = 0], broken)
SendPiece(s, broken) ==
  IF s.closing \/ s.sock # "open" THEN [s EXCEPT !.left = 0]
  ELSE LET r == Put([s EXCEPT !.left = @ - 1],
                    Bytes(s.count, Pieces - s.left + 1, s.left = 1))
       IN Flush(IF r.left = 0 THEN FinishResponse(r) ELSE r, broken)

\* Mutant: the connection is free for the next request while pieces still go.
SendNow_SlowIsFree(s, how) ==
  IF s.sock # "open" THEN [s EXCEPT !.closing = TRUE]
  ELSE LET r == [s EXCEPT !.last = ~s.keep \/ how = "close"]
       IN IF how \in {"slow", "cut"}
            THEN LET q == SendPiece([r EXCEPT !.left = Pieces], how = "cut")
                 IN IF q.left = 0 THEN q
                    ELSE [q EXCEPT !.await = FALSE, !.parsed = FALSE, !.cur = 0, !.again = TRUE]
          ELSE FinishResponse(Put(r, Bytes(s.count, 1, TRUE)))
SendNow(s, how) ==
  IF s.sock # "open" THEN [s EXCEPT !.closing = TRUE]
  ELSE LET r == [s EXCEPT !.last = ~s.keep \/ how = "close"]
       IN IF how \in {"slow", "cut"} THEN SendPiece([r EXCEPT !.left = Pieces], how = "cut")
          ELSE FinishResponse(Put(r, Bytes(s.count, 1, TRUE)))

Deliver(s, how) ==
  IF s.closing THEN s
  ELSE CASE how = "drop" -> DropNow(s)
         [] how = "late" -> [s EXCEPT !.late = TRUE]
         [] OTHER -> SendNow(s, how)

FailAndClose(s) == SendNow(AbortExchange([s EXCEPT !.await = FALSE]), "close")

-----------------------------------------------------------------------------
(* HttpExchange: what handlers call.                                       *)

\* respond(): only the first call counts, and none on a stream.
Respond(s, n, how) ==
  IF s.x[n].responded \/ s.x[n].streaming THEN s
  ELSE IF ~s.x[n].live THEN [s EXCEPT !.x[n].responded = TRUE]
  ELSE Deliver([s EXCEPT !.x[n] = [@ EXCEPT !.responded = TRUE, !.live = FALSE,
                                            !.sent = TRUE]], how)

\* flushStreamHead(): the head, then the chunks that waited for it.
FlushHead(s, broken) ==
  IF s.closing \/ s.headSent \/ ~s.streaming \/ s.sock # "open" THEN s
  ELSE Flush([s EXCEPT !.headSent = TRUE, !.queued = 0,
                       !.wire = Append(@, Bytes(s.count, 0, FALSE))
                                  \o [k \in 1..s.queued |-> Bytes(s.count, k, FALSE)]],
             broken)

BeginStream(s, n, how) ==
  IF s.x[n].responded \/ s.x[n].streaming THEN s
  ELSE LET r == [s EXCEPT !.x[n].streaming = TRUE]
       IN CASE ~s.x[n].live -> r
            [] s.x[n].live /\ (s.closing \/ s.sock # "open") -> [r EXCEPT !.closing = TRUE]
            [] s.x[n].live /\ ~s.closing /\ s.sock = "open" /\ how = "noHead" -> DropNow(r)
            [] OTHER ->
                 LET q == [r EXCEPT !.streaming = TRUE, !.headSent = FALSE, !.await = TRUE,
                                    !.idle = FALSE, !.lateHead = how = "lateHead"]
                 IN IF how = "lateHead" THEN q ELSE FlushHead(q, how = "lostHead")

\* What may become of a chunk: written or queued; the client has too much to
\* read yet, or the write fails; the write finds the connection broken.
Fate == {"ok", "refused", "broken"}

WriteChunk(s, n, fate) ==
  IF ~s.x[n].streaming THEN s
  ELSE IF ~s.x[n].live \/ s.closing \/ ~s.streaming \/ s.sock # "open"
    THEN [s EXCEPT !.x[n].ok = FALSE]
  ELSE LET k == s.x[n].chunks + 1
           r == [s EXCEPT !.x[n].chunks = k]
       IN IF ~s.headSent THEN [r EXCEPT !.queued = @ + 1]
          ELSE CASE fate = "refused" -> [DropNow(s) EXCEPT !.x[n].ok = FALSE]
                 [] fate = "ok" -> Put(r, Bytes(s.count, k, FALSE))
                 [] OTHER -> [OnDisconnected(Put(r, Bytes(s.count, k, FALSE)))
                                EXCEPT !.x[n].ok = FALSE]

\* endStream(): sends what is held back and closes the connection.
EndStream(s, n, broken) ==
  IF ~s.x[n].streaming THEN s
  ELSE LET r == [s EXCEPT !.x[n] = [@ EXCEPT !.streaming = FALSE, !.responded = TRUE,
                                             !.live = FALSE]]
       IN IF ~s.x[n].live \/ ~s.streaming THEN r
          ELSE Drain(Release([FlushHead(r, broken) EXCEPT !.streaming = FALSE, !.await = FALSE,
                                                          !.queued = 0]))

-----------------------------------------------------------------------------
(* processBuffer(), one request at a time.                                 *)

\* A turn of its loop would do something.
Ready(s) == ~s.closing /\ ~s.await /\ s.buffer # <<>>

Handled(s, n, how) ==
  CASE how \in Reply -> Respond(s, n, how)
    [] how \in Opening -> BeginStream(s, n, how)
    [] how = "offline" -> Shutdown(s)
    [] OTHER -> s

\* dispatch(): a fresh exchange, and the handler runs.
Dispatch(s, how) ==
  LET r == [s EXCEPT !.await = TRUE, !.idle = FALSE, !.cur = s.count,
                     !.x[s.count] = [NoExchange EXCEPT !.live = TRUE, !.born = TRUE]]
  IN Handled(r, s.count, how)

\* The next input, with the handler doing how.
Take(s, how) ==
  LET piece == Head(s.buffer)
      rest == [s EXCEPT !.buffer = Tail(@)]
      head == [rest EXCEPT !.count = @ + 1, !.parsed = TRUE, !.keep = piece # "last"]
  IN CASE s.parsed -> Dispatch(rest, how)
       [] ~s.parsed /\ piece = "junk" ->
            FailAndClose([rest EXCEPT !.count = @ + 1])
       [] ~s.parsed /\ piece = "post" -> Put(head, Bytes(head.count, -1, FALSE))
       [] OTHER -> Dispatch(head, how)

\* Leave c in state s, with processBuffer() still on the stack if it has more to do.
Running(c, s) == busy' = IF Ready(s) THEN c ELSE None

Close == [c \in Conns |-> Shutdown(conn[c])]

Turn(c) ==
  /\ busy = c
  /\ \E how \in Handling :
       LET s == Take(conn[c], how)
           gone == how = "offline" /\ ~s.listed
       IN    /\ conn' = [IF gone THEN Close ELSE conn EXCEPT ![c] = s]
             /\ listening' = (listening /\ ~gone)
             /\ suspended' = (suspended \/ gone)
             /\ Running(c, s)

-----------------------------------------------------------------------------
(* The callbacks of the event loop.                                        *)

Idle == busy = None   \* the event loop is free

Step(c, s) == conn' = [conn EXCEPT ![c] = s] /\ UNCHANGED <<busy, listening, suspended>>

\* newConnection
Accept(c) ==
  /\ Idle /\ listening /\ conn[c].sock = "none" /\ conn[c].x # <<>>
  /\ Step(c, ArmIdle([conn[c] EXCEPT !.sock = "open", !.listed = TRUE]))

\* onReadyRead(): a client sends the next input.  On a stream it is thrown away;
\* on a draining connection processBuffer() leaves it alone.
ReadyRead(c, piece) ==
  /\ Idle /\ conn[c].sock = "open"
  /\ conn[c].owes <=> piece = "body"
  /\ piece # "body" => conn[c].arrived < Len(conn[c].x)
  /\ LET s == [conn[c] EXCEPT !.owes = piece = "post",
                              !.arrived = IF piece = "body" THEN @ ELSE @ + 1]
         r == IF s.streaming THEN s ELSE ArmIdle([s EXCEPT !.buffer = Append(@, piece)])
     IN /\ conn' = [conn EXCEPT ![c] = r]
        /\ Running(c, r)
  /\ UNCHANGED <<listening, suspended>>

\* The posted processBuffer() after a response.
Rescan(c) ==
  /\ Idle /\ conn[c].again
  /\ LET s == [conn[c] EXCEPT !.again = FALSE]
     IN conn' = [conn EXCEPT ![c] = s] /\ Running(c, s)
  /\ UNCHANGED <<listening, suspended>>

\* The idle timer: a connection that waits for an answer is not idle.
IdleFires(c) ==
  /\ Idle /\ conn[c].idle
  /\ LET s == [conn[c] EXCEPT !.idle = FALSE]
     IN Step(c, IF s.await THEN s ELSE Drain(s))

\* The timers of a delayed reply, a delayed head, the next piece.
LateFires(c) ==
  /\ Idle /\ conn[c].late
  /\ LET s == [conn[c] EXCEPT !.late = FALSE]
     IN \E how \in Sending : Step(c, IF s.closing THEN s ELSE SendNow(s, how))
LateHeadFires(c) ==
  /\ Idle /\ conn[c].lateHead
  /\ \E broken \in BOOLEAN : Step(c, FlushHead([conn[c] EXCEPT !.lateHead = FALSE], broken))
SlowFires(c) ==
  /\ Idle /\ conn[c].left > 0
  /\ \E broken \in BOOLEAN : Step(c, SendPiece(conn[c], broken))

\* The client goes, or has read everything a closing connection had to send.
Disconnected(c) ==
  /\ Idle /\ conn[c].sock \in {"open", "draining"}
  /\ Step(c, OnDisconnected(conn[c]))

\* Handlers that kept an exchange.
Kept(c) == {n \in 1..conn[c].count : conn[c].x[n].born}
Answer(c) ==
  /\ Idle
  /\ \E n \in Kept(c), how \in Reply : Step(c, Respond(conn[c], n, how))
StartStream(c) ==
  /\ Idle
  /\ \E n \in Kept(c), how \in Opening : Step(c, BeginStream(conn[c], n, how))
Push(c) ==
  /\ Idle
  /\ \E n \in Kept(c), fate \in Fate :
       conn[c].x[n].chunks < Pieces /\ Step(c, WriteChunk(conn[c], n, fate))
FinishStream(c) ==
  /\ Idle
  /\ \E n \in Kept(c), broken \in BOOLEAN : Step(c, EndStream(conn[c], n, broken))

\* suspend() from a timer or another server, resume(), and the listen() of a
\* rebinding, which leaves the connections alone and may fail.
Suspend ==
  /\ Idle /\ ~suspended
  /\ suspended' = TRUE /\ listening' = FALSE
  /\ conn' = Close
  /\ UNCHANGED busy
Listen(ok) ==
  /\ Idle
  /\ listening' = ok
  /\ suspended' = (suspended /\ ~ok)
  /\ UNCHANGED <<conn, busy>>

Init ==
  /\ \E load \in Loads : conn = [c \in Conns |-> Fresh(load[c])]
  /\ busy = None
  /\ listening = FALSE /\ suspended = FALSE

Next ==
  \/ \E c \in Conns :
       \/ Turn(c) \/ Accept(c) \/ Rescan(c) \/ IdleFires(c)
       \/ LateFires(c) \/ LateHeadFires(c) \/ SlowFires(c) \/ Disconnected(c)
       \/ Answer(c) \/ StartStream(c) \/ Push(c) \/ FinishStream(c)
       \/ \E piece \in Input : ReadyRead(c, piece)
  \/ Suspend
  \/ \E ok \in BOOLEAN : Listen(ok)

Spec == Init /\ [][Next]_vars

\* Timers fire, posted calls run, and processBuffer() returns.
FairSpec ==
  /\ Spec
  /\ \A c \in Conns :
       /\ WF_vars(Turn(c)) /\ WF_vars(Rescan(c)) /\ WF_vars(IdleFires(c))
       /\ WF_vars(LateFires(c)) /\ WF_vars(SlowFires(c)) /\ WF_vars(LateHeadFires(c))

-----------------------------------------------------------------------------
\* The types, and that the server's list holds exactly the connections with a
\* live socket: HttpServer::connectionCount() and close() rely on the list.
TypeOK ==
  /\ \A c \in Conns :
       LET s == conn[c]
       IN /\ s.sock \in {"none", "open", "draining", "gone"}
          /\ s.buffer \in Seq(Input)
          /\ s.arrived \in 0..Len(s.x) /\ s.count \in 0..s.arrived
          /\ s.cur \in 0..s.count
          /\ {s.listed, s.owes, s.parsed, s.keep, s.await, s.closing, s.last, s.idle,
              s.streaming, s.headSent, s.again, s.late, s.lateHead} \subseteq BOOLEAN
          /\ s.queued \in 0..Pieces /\ s.left \in 0..Pieces
          /\ s.x \in Seq(Exchange)
          /\ s.listed <=> s.sock \in {"open", "draining"}
  /\ busy \in Conns \cup {None}
  /\ listening \in BOOLEAN /\ suspended \in BOOLEAN

\* Whoever pipelines gets the answers in the order of the requests, each complete
\* before the next begins, whatever is delayed, sent in pieces or answered out of
\* a handler's order; and a stream begins with its head.
Follows(s, t, u) ==
  \/ /\ u.req = t.req /\ ~t.end
     /\ \/ u.part = t.part + 1
        \/ t.part = -1 /\ u.part = 1 /\ ~s.x[u.req].streaming
  \/ /\ u.req = t.req + 1 /\ t.end
     /\ u.part < 2 /\ (u.part = 1 => ~s.x[u.req].streaming)
ResponsesInOrder ==
  \A c \in Conns :
    LET s == conn[c]
    IN \A i \in 1..Len(s.wire) :
         Follows(s, IF i = 1 THEN Bytes(0, 0, TRUE) ELSE s.wire[i - 1], s.wire[i])

\* The callbacks of an exchange point into its connection (they capture this):
\* they are set only while the connection lives and serves that very request, so
\* a handler that answers late calls into nothing that is gone.
NoDanglingCallback ==
  \A c \in Conns : \A n \in DOMAIN conn[c].x :
    conn[c].x[n].live => conn[c].listed /\ conn[c].cur = n

\* A handler that holds a request either answered it or is told that nobody waits
\* any more, and never both: the long polls and event streams release what they
\* keep for a client on aborted() and on nothing else.
ToldOrAnswered ==
  \A c \in Conns : \A n \in DOMAIN conn[c].x :
    LET e == conn[c].x[n]
    IN /\ e.born => e.live \/ e.told \/ e.responded
       /\ e.told => ~e.sent

\* A request that is complete in the buffer of a connection free to serve it has
\* processBuffer() coming: a pipelined request is not forgotten when the answer
\* before it went out late.
NoneStranded == \A c \in Conns : Ready(conn[c]) => conn[c].again \/ busy = c

\* Chunks a stream accepted are on the wire or queued behind the delayed head, and
\* all of them are out when it was ended; one that was not accepted means that the
\* stream is over, so that its producer may stop (HttpTypes.h).
ChunksKept ==
  \A c \in Conns : \A n \in DOMAIN conn[c].x :
    LET e == conn[c].x[n]
        out == Cardinality({i \in 1..Len(conn[c].wire) :
                              conn[c].wire[i].req = n /\ conn[c].wire[i].part > 0})
    IN /\ e.streaming /\ e.live => e.ok /\ e.chunks = out + conn[c].queued
       /\ e.born /\ e.responded /\ ~e.told /\ ~e.sent => e.chunks = out

\* An outage leaves no connection behind, whether a timer begins it or a handler
\* on one of these connections.
SuspendedIsSilent == suspended => \A c \in Conns : conn[c].sock \in {"none", "gone"}

\* The idle timer leaves alone a connection with m_awaitingResponse, and that is set
\* as long as a handler may still answer, the answer is delayed or goes out in
\* pieces, or a stream is open: none of these is reaped for being idle, whatever
\* the client sends meanwhile.
AnsweredNotReaped ==
  \A c \in Conns :
    LET s == conn[c]
        Owed == s.late \/ s.left > 0 \/ \E n \in DOMAIN s.x : s.x[n].live
    IN Owed /\ ~s.closing => s.await

\* The server's list, the sockets, the outage flag and the callbacks handed out
\* agree, no chunk is lost between them, and every handler has answered or is told,
\* also when a handler takes the server down from inside its own request; and no
\* connection counts as idle before its answer is out.
ExchangesConsistent ==
  /\ TypeOK /\ NoDanglingCallback /\ NoneStranded /\ SuspendedIsSilent
  /\ ChunksKept /\ ToldOrAnswered /\ AnsweredNotReaped

\* A connection that is not waiting for an answer is reaped by the idle timer or
\* gets a request to wait for.
IdleReaped ==
  \A c \in Conns : (conn[c].sock = "open" /\ ~conn[c].await)
                     ~> (conn[c].sock # "open" \/ conn[c].await)

Longest == Max({load[c] : load \in Loads, c \in Conns})

\* What a handler answered goes out, to its last byte, unless the connection
\* closes first; so does the head of a stream.
AnswersGoOut ==
  \A c \in Conns : \A n \in 1..Longest :
    /\ conn[c].count >= n /\ conn[c].x[n].sent
         ~> (conn[c].closing \/ \E i \in 1..Len(conn[c].wire) :
                                  conn[c].wire[i].req = n /\ conn[c].wire[i].end)
    /\ conn[c].count >= n /\ conn[c].x[n].streaming /\ conn[c].x[n].live
         ~> conn[c].headSent \/ conn[c].closing
=============================================================================
