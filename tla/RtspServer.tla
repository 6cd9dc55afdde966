----------------------------- MODULE RtspServer -----------------------------
(***************************************************************************)
(* The RTSP server of one camera (src/src/rtsp/RtspServer.cpp) and the     *)
(* control part of its sessions (RtspSession.cpp): who gets a session, a   *)
(* talkback track and the stream, when sessions end, and the quirks that   *)
(* limit them (rtsp.max_sessions), keep the talkback slot busy after use   *)
(* (rtsp.talkback_busy_slot), stop reading from a talking client           *)
(* (rtsp.talkback_stop_draining) and hang up (rtsp.periodic_teardown),     *)
(* each of which may be switched at any moment.                            *)
(*                                                                         *)
(* A step is one callback of the event loop, with every request it finds   *)
(* in the buffer.  Tick is one second, with the sweep that it brings.      *)
(***************************************************************************)
EXTENDS Integers, Sequences, FiniteSets, FiniteSetsExt

CONSTANTS
  Sessions,  \* TCP connections clients may hold at a time
  Sends,     \* the requests the client of each may send
  Switched,  \* the quirks that are switched while the camera runs
  Slots,     \* rtsp.max_sessions: max
  Busy,      \* rtsp.talkback_busy_slot: seconds
  Timeout,   \* Private::sessionTimeout, in seconds
  Unread     \* bound: requests in the socket of a session that stopped reading

Quirk == {"max", "busy", "drain", "periodic"}

\* What a client may send: a request that only keeps the session alive (OPTIONS,
\* GET_PARAMETER and every request answered with 401, 454, 501, 505 or 551),
\* DESCRIBE without and with talkback, SETUP of a track or with a transport that
\* fails, PLAY, PAUSE, TEARDOWN, and bytes that parse as nothing.
Request == {"options", "describe", "describeTalk", "setupVideo", "setupTalk", "setupBad",
            "play", "pause", "teardown", "junk"}

ASSUME RtspServerAssumption ==
  /\ IsFiniteSet(Sessions)
  /\ Sends \in [Sessions -> SUBSET Request]
  /\ Switched \subseteq Quirk
  /\ {Slots, Busy, Timeout, Unread} \subseteq Nat \ {0}

VARIABLES
  session,    \* the state of each RtspSession
  quirks,     \* the quirks that are on
  busy,       \* seconds until backchannelBusyUntil
  listening,  \* the listener is open, and sweepTimer runs
  talked,     \* history: seconds since a talkback slot was freed, Busy at most,
              \* and Busy if rtsp.talkback_busy_slot was off at that moment
  early       \* history: a DESCRIBE for talkback was granted too early after that

vars == <<session, quirks, busy, listening, talked, early>>

-----------------------------------------------------------------------------
Gone == [live |-> FALSE,      \* in Private::sessions; false again once ended
         alive |-> FALSE,     \* the client is there
         layout |-> {},       \* tracks of the profile prepared
         tracks |-> {},       \* tracks set up
         flowing |-> {},      \* tracks playing, their senders running
         playing |-> FALSE,
         pump |-> FALSE,      \* the pump timer runs
         limited |-> FALSE,   \* setReadBufferSize(kStopDrainingBufferBytes)
         drainTimer |-> FALSE,
         deaf |-> FALSE,      \* stopDraining
         unread |-> <<>>,     \* requests waiting in the socket meanwhile
         bye |-> FALSE,       \* the teardown a TEARDOWN has posted
         quiet |-> 0]         \* seconds since lastActivity, Timeout + 1 at most

Live == {c \in Sessions : session[c].live}

\* What a callback works on: the sessions, the busy slot and the history.
World == [s |-> session, busy |-> busy, talked |-> talked, early |-> early]

Become(w) ==
  /\ session' = w.s /\ busy' = w.busy
  /\ talked' = w.talked /\ early' = w.early

\* teardownAll(), here for some of the sessions: finish() of each.  It marks the
\* slot of a session with a talkback track busy (markBackchannelBusy).
TeardownAll(w, some, on) ==
  LET talkers == {c \in some : "talk" \in w.s[c].tracks}
  IN [s |-> [c \in Sessions |-> IF c \in some THEN Gone ELSE w.s[c]],
      busy |-> IF "busy" \in on /\ talkers # {} THEN Busy ELSE w.busy,
      talked |-> IF talkers = {} THEN w.talked ELSE IF "busy" \in on THEN 0 ELSE Busy,
      early |-> w.early]

\* finish(): because of the peer, a TEARDOWN, the sweep, junk or the server.
Finish(w, c, on) == TeardownAll(w, {c}, on)

-----------------------------------------------------------------------------
(* Requests: c asks in world w while the quirks in on are on.              *)

\* prepareProfile()
Layout(talk) == IF talk THEN {"video", "talk"} ELSE {"video"}

BackchannelBusy(w, on) == "busy" \in on /\ w.busy > 0

\* maxSessionsReached(): sessions that have not set up a track hold no slot.
\* Mutant: the limit counts the sessions that play.
SlotsTaken_Players(w, c) == {d \in Sessions \ {c} : w.s[d].playing}
SlotsTaken(w, c) == {d \in Sessions \ {c} : w.s[d].tracks # {}}

MaxReached(w, c, on) == "max" \in on /\ Cardinality(SlotsTaken(w, c)) >= Slots

\* handleDescribe()
Describe(w, c, request, on) ==
  IF request = "describe" THEN [w EXCEPT !.s[c].layout = Layout(FALSE)]
  ELSE IF BackchannelBusy(w, on) THEN w
  ELSE [w EXCEPT !.s[c].layout = Layout(TRUE),
                    !.early = @ \/ ("busy" \in on /\ w.talked < Busy)]

\* The track a SETUP means: the one it names, or, if the layout has none of that
\* kind, one that is still free.
Meant(s, layout, track) ==
  IF track \in layout THEN {track} \ s.tracks ELSE layout \ s.tracks

\* handleSetup(); without a DESCRIBE before it the layout is made up for now.  A
\* talkback receiver that was made before its UDP socket could not be bound is
\* without a track, and nobody sees or uses it: "setupBad" stands for that as well.
Setup(w, c, request, on) ==
  LET s == w.s[c]
      track == IF request = "setupTalk" THEN "talk" ELSE "video"
      layout == IF s.layout = {} THEN Layout(track = "talk") ELSE s.layout
      refused == (s.tracks = {} /\ MaxReached(w, c, on)) \/ request = "setupBad"
  IN [w EXCEPT !.s[c].layout = layout,
               !.s[c].tracks = IF refused THEN @ ELSE @ \cup Meant(s, layout, track)]

\* handlePlay()
Play(w, c, on) ==
  LET s == w.s[c]
      r == [s EXCEPT !.flowing = s.tracks, !.pump = TRUE, !.playing = TRUE]
  IN IF s.tracks = {} THEN w
     ELSE [w EXCEPT !.s[c] = IF "talk" \in s.tracks /\ "drain" \in on
                               THEN [r EXCEPT !.limited = TRUE, !.drainTimer = TRUE]
                               ELSE r]

\* handlePause()
\* Mutant: the senders run on.
Pause_SendersRun(w, c) ==
  [w EXCEPT !.s[c] = [@ EXCEPT !.pump = FALSE, !.playing = FALSE]]
Pause(w, c) ==
  [w EXCEPT !.s[c] = [@ EXCEPT !.pump = FALSE, !.flowing = {}, !.playing = FALSE]]

\* handleRequest(); nothing is handled any more once the session has ended.
Handle(w, c, request, on) ==
  LET r == [w EXCEPT !.s[c].quiet = 0]
  IN CASE ~w.s[c].live -> w
       [] request \in {"describe", "describeTalk"} /\ w.s[c].live -> Describe(r, c, request, on)
       [] request \in {"setupVideo", "setupTalk", "setupBad"} /\ w.s[c].live ->
            Setup(r, c, request, on)
       [] request = "play" /\ w.s[c].live -> Play(r, c, on)
       [] request = "pause" /\ w.s[c].live -> Pause(r, c)
       [] request = "teardown" /\ w.s[c].live -> [r EXCEPT !.s[c].bye = TRUE]
       [] request = "junk" /\ w.s[c].live -> Finish(r, c, on)
       [] OTHER -> r

-----------------------------------------------------------------------------
(* Callbacks.                                                              *)

\* newConnection: adopt().
Adopt(c) ==
  /\ listening /\ ~session[c].live
  /\ Become([World EXCEPT !.s[c] = [Gone EXCEPT !.live = TRUE, !.alive = TRUE]])
  /\ UNCHANGED <<quirks, listening>>

\* onReadyRead(): a session that stopped draining leaves the request in the socket.
Receive(c, request) ==
  /\ session[c].live /\ session[c].alive
  /\ \/ /\ session[c].deaf
        /\ Len(session[c].unread) < Unread
        /\ Become([World EXCEPT !.s[c].unread = Append(@, request)])
     \/ /\ ~session[c].deaf
        /\ Become(Handle(World, c, request, quirks))
  /\ UNCHANGED <<quirks, listening>>

\* The client is gone, which shows at once, with delay, or, if its host went down,
\* never; a session that stopped draining does not see it either.
ClientGone(c) ==
  /\ session[c].live
  /\ \/ ~session[c].deaf /\ Become(Finish(World, c, quirks))
     \/ session[c].alive /\ Become([World EXCEPT !.s[c].alive = FALSE])
  /\ UNCHANGED <<quirks, listening>>

\* The teardown posted behind the answer to TEARDOWN.
ByeRuns(c) ==
  /\ session[c].bye
  /\ Become(Finish(World, c, quirks))
  /\ UNCHANGED <<quirks, listening>>

\* after_ms have passed since PLAY.
StopDraining(c) ==
  /\ session[c].drainTimer
  /\ Become([World EXCEPT !.s[c] = [@ EXCEPT !.drainTimer = FALSE, !.deaf = TRUE]])
  /\ UNCHANGED <<quirks, listening>>

\* resumeDraining(): the buffer grows again, whether or not the timer has fired,
\* and what waited in the socket is handled.
HandleAll(w, c, waiting, on) ==
  LET after[n \in 0..Len(waiting)] ==
        IF n = 0 THEN w ELSE Handle(after[n - 1], c, waiting[n], on)
  IN after[Len(waiting)]

ResumeDraining(w, c, on) ==
  LET s == w.s[c]
      r == [s EXCEPT !.limited = FALSE, !.drainTimer = FALSE, !.deaf = FALSE, !.unread = <<>>]
  IN HandleAll([w EXCEPT !.s[c] = r], c, s.unread, on)

\* The orders in which a signal may reach some sessions: the one in which they came.
Orders(some) ==
  {order \in [1..Cardinality(some) -> some] : \A c \in some : \E n \in DOMAIN order : order[n] = c}

\* ... of one session after the other.
ResumeAll(w, order, on) ==
  LET after[n \in 0..Len(order)] ==
        IF n = 0 THEN w ELSE ResumeDraining(after[n - 1], order[n], on)
  IN after[Len(order)]

\* The user switches a quirk; quirksChanged reaches every session.
SetQuirk(q) ==
  LET on == IF q \in quirks THEN quirks \ {q} ELSE quirks \cup {q}
  IN /\ quirks' = on
     /\ \E order \in Orders(Live) :
          Become(IF "drain" \in on THEN World ELSE ResumeAll(World, order, on))
     /\ UNCHANGED listening

\* sweep(), a second after the last: sessions that timed out, then, in some of the
\* sweeps (which, is left open), the periodic teardown.
Overdue(s) == s.live /\ s.quiet > Timeout

Aged == [World EXCEPT
  !.s = [c \in Sessions |-> IF session[c].live
                              THEN [session[c] EXCEPT !.quiet = Min({@ + 1, Timeout + 1})]
                              ELSE session[c]],
  !.busy = Max({@ - 1, 0}),
  !.talked = Min({@ + 1, Busy})]

Tick ==
  /\ LET silent == {c \in Sessions : Overdue(Aged.s[c])}
     IN \/ Become(IF listening THEN TeardownAll(Aged, silent, quirks) ELSE Aged)
        \/ /\ listening /\ "periodic" \in quirks
           /\ Become(TeardownAll(Aged, Live, quirks))
  /\ UNCHANGED <<quirks, listening>>

\* listen(), which closes first, suspend(), and resume().
Suspend ==
  /\ listening
  /\ listening' = FALSE
  /\ Become(TeardownAll(World, Live, quirks))
  /\ UNCHANGED quirks
Listen(ok) ==
  /\ listening' = ok
  /\ Become(TeardownAll(World, Live, quirks))
  /\ UNCHANGED quirks

\* teardownSession() and the talkback end of the control surface.
TeardownSession(c) ==
  /\ session[c].live
  /\ Become(Finish(World, c, quirks))
  /\ UNCHANGED <<quirks, listening>>

Init ==
  /\ session = [c \in Sessions |-> Gone]
  /\ quirks \in {Quirk, Quirk \ Switched}
  /\ busy = 0 /\ talked = Busy /\ early = FALSE
  /\ listening = FALSE

Next ==
  \/ \E c \in Sessions :
       \/ Adopt(c) \/ ClientGone(c) \/ ByeRuns(c) \/ StopDraining(c) \/ TeardownSession(c)
       \/ \E request \in Sends[c] : Receive(c, request)
  \/ \E q \in Switched : SetQuirk(q)
  \/ Tick \/ Suspend
  \/ \E ok \in BOOLEAN : Listen(ok)

Spec == Init /\ [][Next]_vars

-----------------------------------------------------------------------------
Holders == {c \in Sessions : session[c].tracks # {}}   \* sessions that hold a slot

\* The types; an ended session holds nothing, and nobody plays without a track.
TypeOK ==
  /\ \A c \in Sessions :
       LET s == session[c]
       IN /\ {s.live, s.alive, s.playing, s.pump, s.limited, s.drainTimer, s.deaf,
              s.bye} \subseteq BOOLEAN
          /\ {s.layout, s.tracks, s.flowing} \subseteq SUBSET {"video", "talk"}
          /\ s.unread \in Seq(Request) /\ s.quiet \in 0..Timeout + 1
          /\ s.playing => s.tracks # {}
          /\ ~s.live => s = Gone
  /\ quirks \subseteq Quirk
  /\ busy \in 0..Busy /\ talked \in 0..Busy
  /\ {listening, early} \subseteq BOOLEAN

\* While rtsp.max_sessions is on nobody gets a first track that would make the
\* sessions with tracks more than the limit, in whatever order sessions describe,
\* set up, end, time out or have their waiting requests handled all at once.
SlotLimit ==
  [][("max" \in quirks' /\ ~(Holders' \subseteq Holders))
       => Cardinality(Holders') <= Slots]_vars

\* For so many seconds after a session with a talkback track has ended, for
\* whatever reason, no DESCRIBE that asks for talkback is granted while
\* rtsp.talkback_busy_slot is on (docs/quirks.md).
BusyAfterTalk == ~early

\* Once rtsp.talkback_stop_draining is off every session reads again, with a
\* buffer of the normal size, also one whose timer had not fired yet: otherwise
\* it could not even see its client leave and would hold its slot.
DrainOffIsNormal ==
  "drain" \notin quirks => \A c \in Sessions : LET s == session[c]
                             IN ~s.limited /\ ~s.drainTimer /\ ~s.deaf /\ s.unread = <<>>

\* The pump runs and senders send exactly while the session plays, and only for
\* tracks that were set up; so after PAUSE and after any end nothing is sent.
QuietUnlessPlaying ==
  \A c \in Sessions : LET s == session[c]
    IN /\ s.pump = s.playing
       /\ s.flowing # {} <=> s.playing
       /\ s.flowing \subseteq s.tracks

\* A server that does not listen has no session: an outage or a rebinding that
\* failed leaves no stream running.
DownIsEmpty == ~listening => Live = {}

\* A session that no byte was read from for the session timeout is gone with the
\* next sweep: also one whose client vanished without a word, one that plays or
\* talks, and one that stopped reading, whatever waits in its socket.
SilentReclaimed == \A c \in Live : session[c].quiet <= Timeout

\* Sessions, their tracks, pumps and senders agree, a server that is down has none
\* of them, the talkback slot stays busy as long as documented, and a session that
\* nobody speaks in is taken back.
SessionsConsistent ==
  /\ TypeOK /\ DrainOffIsNormal /\ QuietUnlessPlaying /\ DownIsEmpty
  /\ BusyAfterTalk /\ SilentReclaimed
=============================================================================
