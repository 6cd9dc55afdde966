----------------------------- MODULE MediaPump -----------------------------
(***************************************************************************)
(* The sending side of one RTSP session: the pump of                       *)
(* src/src/rtsp/RtspSession.cpp, which makes the frames and audio packets  *)
(* that are due by the clock, and the sender of each track (RtpSender.cpp) *)
(* with its sequence numbers, its losses (rtsp.rtp_packet_loss), its rate  *)
(* limit (transport.rtp_rate_limit) and its TCP backlog.                   *)
(*                                                                         *)
(* Time advances in units, several of them when the event loop is late;    *)
(* the timers that are due then fire one by one, in any order, before it   *)
(* advances again.  One packet stands for each frame.  Timestamps do not   *)
(* wrap: within the hours before 2^32 their order is the order of time.    *)
(***************************************************************************)
EXTENDS Integers, Sequences, FiniteSets, SequencesExt

CONSTANTS
  Tracks,      \* "video" and "audio", or one of them
  Rate,        \* packets of a track in Span units of time
  QuirkRate,   \* frames in Span units while rtsp.video_fps_change is on
  Span,
  Size,        \* bytes of the packet with a given number
  MaxCatchup,  \* kMaxCatchupFrames, kMaxCatchupAudioPackets
  MaxQueue,    \* kMaxQueuedPackets
  Bandwidth,   \* transport.rtp_rate_limit: bytes per unit of time
  Window,      \* the units of time a full bucket is worth (100 ms)
  SeqSpace,    \* 2^16
  FirstSeq,    \* the random first sequence number
  AtStart,     \* the sets of quirks that may be on when the session begins
  Late,        \* bound: units by which time advances at once
  MaxTime,     \* bound: units of time in all
  Switches     \* bound: how often quirks are switched

PumpQuirk == {"fps", "loss", "limit"}

ASSUME MediaPumpAssumption ==
  /\ Tracks \subseteq {"video", "audio"}
  /\ Rate \in [Tracks -> Nat \ {0}]
  /\ {QuirkRate, Span, MaxCatchup, MaxQueue, Bandwidth, Window, SeqSpace, Late, MaxTime}
       \subseteq Nat \ {0}
  /\ {FirstSeq, Switches} \subseteq Nat
  /\ FirstSeq < SeqSpace
  /\ AtStart \subseteq SUBSET PumpQuirk
  /\ \A n \in 0..10 : Size[n % 2] \in Nat \ {0}

VARIABLES
  setup,     \* tracks set up
  up,        \* tracks with playing = true
  pump,      \* the pump timer is active
  elapsed,   \* clock of the pump
  count,     \* videoFrames, audioPackets
  base,      \* videoFrameBase, audioPacketBase
  sender,    \* the RtpSender of each track
  pumpQuirks,\* the quirks that are on
  choked,    \* the backlog of the TCP connection is over kTcpBacklogLimit
  due,       \* timers that are due: "pump", or the rate timer of a track
  time,      \* units of time so far
  switches,  \* times a quirk was switched
  steady,    \* history: rtsp.video_fps_change was never switched
  spilled    \* history: tracks with a queue when the rate limit was switched off

pumpVars == <<setup, up, pump, elapsed, count, base, sender, pumpQuirks, choked, due, time,
          switches, steady, spilled>>

-----------------------------------------------------------------------------
(* The sender.                                                             *)

Sender == [running |-> FALSE,
           seq |-> FirstSeq,  \* the next sequence number
           queue |-> <<>>,
           timer |-> FALSE,   \* rateTimer
           tokens |-> 0,
           refill |-> 0,      \* lastRefillMs
           clock |-> 0,
           sent |-> 0,        \* stats.packetsSent
           dropped |-> 0,     \* stats.packetsDropped
           stamp |-> -1,      \* stats.lastTimestamp
           last |-> -1,       \* history: the packet written last
           cleared |-> 0,     \* history: packets that stop() threw away
           debt |-> 0,        \* history: metered bytes, drained at Bandwidth
           starving |-> 0]    \* history: units since the queue last moved

Least(a, b) == IF a < b THEN a ELSE b
Most(a, b) == IF a > b THEN a ELSE b

\* Packets made since the sender exists; a packet is known by its place k among them.
Made(s) == s.sent + s.dropped + s.cleared + Len(s.queue)

\* writeRtp() of packets in their order.  It returns without counting when there is
\* nowhere to send to, which no running sender meets: a track plays only after SETUP
\* gave it a socket, and a TCP connection that is lost runs finish(), which stops the
\* senders, in the callback that finds it lost.
WriteRtp(s, packets) ==
  IF packets = <<>> THEN s
  ELSE IF choked THEN [s EXCEPT !.dropped = @ + Len(packets), !.starving = 0]
  ELSE [s EXCEPT !.sent = @ + Len(packets), !.last = Last(packets).k, !.starving = 0]

\* The bytes of the first n packets of a queue, for each n.
Bytes(queue) ==
  LET bytes[n \in 0..Len(queue)] == IF n = 0 THEN 0 ELSE bytes[n - 1] + queue[n].size
  IN bytes

\* drainQueue(): the bucket is refilled, and what it pays for is written.
DrainQueue(s) ==
  LET from == IF s.refill = 0 THEN s.clock ELSE s.refill
      tokens == Least(s.tokens + (s.clock - from) * Bandwidth, Bandwidth * Window)
      bytes == Bytes(s.queue)
      m == CHOOSE m \in 0..Len(s.queue) :
             bytes[m] <= tokens /\ (m < Len(s.queue) => bytes[m + 1] > tokens)
  IN IF s.queue = <<>> THEN s
     ELSE WriteRtp([s EXCEPT !.refill = s.clock, !.tokens = tokens - bytes[m],
                             !.queue = SubSeq(@, m + 1, Len(@)), !.debt = @ + bytes[m]],
                   SubSeq(s.queue, 1, m))

\* enqueue(): a full queue loses its oldest packet.
\* Mutant: the packet it loses is not counted.
Enqueue_Uncounted(s, p) ==
  LET full == Len(s.queue) >= MaxQueue
      r == DrainQueue([s EXCEPT !.queue = Append(IF full THEN Tail(@) ELSE @, p)])
  IN [r EXCEPT !.timer = @ \/ r.queue # <<>>]
Enqueue(s, p) ==
  LET full == Len(s.queue) >= MaxQueue
      r == DrainQueue([s EXCEPT !.queue = Append(IF full THEN Tail(@) ELSE @, p),
                                !.dropped = IF full THEN @ + 1 ELSE @])
  IN [r EXCEPT !.timer = @ \/ r.queue # <<>>]

\* sendPacket(); a lost packet uses up its sequence number.
SendPacket(s, size, stamp, lost) ==
  LET p == [k |-> Made(s), size |-> size]
      r == [s EXCEPT !.seq = (@ + 1) % SeqSpace]
  IN IF ~s.running THEN s
     ELSE IF lost THEN [r EXCEPT !.dropped = @ + 1]
     ELSE IF "limit" \in pumpQuirks THEN Enqueue([r EXCEPT !.stamp = stamp], p)
     ELSE WriteRtp([r EXCEPT !.stamp = stamp], <<p>>)

\* start()
Start(s) ==
  IF s.running THEN s
  ELSE [s EXCEPT !.running = TRUE, !.clock = 0, !.refill = 0, !.tokens = 0]

\* stop()
Stop(s) ==
  IF ~s.running THEN s
  ELSE [s EXCEPT !.running = FALSE, !.timer = FALSE, !.starving = 0,
                 !.cleared = @ + Len(s.queue), !.queue = <<>>]

-----------------------------------------------------------------------------
(* The pump.                                                               *)

\* effectiveFps(), and the audio packets of packetDurationUs() each.
EffectiveRate(t) == IF t = "video" /\ "fps" \in pumpQuirks THEN QuirkRate ELSE Rate[t]

\* The number of the first packet that is not due yet.
Target(t) == base[t] + (elapsed * EffectiveRate(t)) \div Span + 1

\* The first packet of this tick: who is too far behind skips what was due before.
FirstDue(t) == IF Target(t) - count[t] > MaxCatchup THEN Target(t) - 1 ELSE count[t]

\* pumpVideo() and pumpAudio().  Timestamps are in Span-th parts of a unit, times
\* all rates, so that none of them has to be rounded.
Stamp(t, n) == IF t = "video" THEN (n * QuirkRate * Rate[t]) \div EffectiveRate(t) ELSE n

Pumped(t, lost) ==
  LET first == FirstDue(t)
      n == Most(Target(t) - first, 0)
      s[i \in 0..n] ==
        IF i = 0 THEN sender[t]
        ELSE SendPacket(s[i - 1], Size[(first + i - 1) % 2], Stamp(t, first + i - 1), lost)
  IN s[n]

\* onPumpTick(); a track that plays has a sender.  In a tick all packets of the
\* lossy tracks are lost or none.
PumpTick ==
  /\ "pump" \in due
  /\ \E lossy \in SUBSET (IF "loss" \in pumpQuirks THEN up ELSE {}) :
       sender' = [t \in Tracks |-> IF t \in up THEN Pumped(t, t \in lossy) ELSE sender[t]]
  /\ count' = [t \in Tracks |-> IF t \in up THEN Most(count[t], Target(t)) ELSE count[t]]
  /\ due' = due \ {"pump"}
  /\ UNCHANGED <<setup, up, pump, elapsed, base, pumpQuirks, choked, time, switches, steady,
                 spilled>>

\* The rate timer of a track fires.
RateTick(t) ==
  /\ t \in due
  /\ due' = due \ {t}
  /\ sender' = [sender EXCEPT ![t] =
       LET s == DrainQueue(@) IN [s EXCEPT !.timer = s.queue # <<>>]]
  /\ UNCHANGED <<setup, up, pump, elapsed, count, base, pumpQuirks, choked, time, switches,
                 steady, spilled>>

\* Time passes; the timers that are active become due.
Advance(d) ==
  /\ due = {} /\ time + d <= MaxTime
  /\ time' = time + d
  /\ elapsed' = IF pump THEN elapsed + d ELSE elapsed
  /\ sender' = [t \in Tracks |-> LET s == sender[t] IN
       IF ~s.running THEN s
       ELSE [s EXCEPT !.clock = @ + d, !.debt = Most(0, @ - d * Bandwidth),
                      !.starving = IF s.queue = <<>> THEN 0 ELSE @ + d]]
  /\ due' = (IF pump THEN {"pump"} ELSE {}) \cup {t \in Tracks : sender[t].timer}
  /\ UNCHANGED <<setup, up, pump, count, base, pumpQuirks, choked, switches, steady, spilled>>

-----------------------------------------------------------------------------
(* Requests and the surroundings.                                          *)

\* handleSetup()
SetupTrack(t) ==
  /\ t \notin setup
  /\ setup' = setup \cup {t}
  /\ UNCHANGED <<up, pump, elapsed, count, base, sender, pumpQuirks, choked, due, time,
                 switches, steady, spilled>>

\* startPump(), from handlePlay()
\* Mutant: the counters start again with the clock.
StartPump_FromZero ==
  IF pump THEN UNCHANGED <<pump, elapsed, count, base>>
  ELSE /\ pump' = TRUE /\ elapsed' = 0
       /\ count' = [t \in Tracks |-> 0] /\ base' = [t \in Tracks |-> 0]
StartPump ==
  IF pump THEN UNCHANGED <<pump, elapsed, count, base>>
  ELSE /\ pump' = TRUE /\ elapsed' = 0
       /\ base' = count /\ UNCHANGED count

\* handlePlay()
PlayTracks ==
  /\ setup # {}
  /\ up' = setup
  /\ sender' = [t \in Tracks |-> IF t \in setup THEN Start(sender[t]) ELSE sender[t]]
  /\ StartPump
  /\ UNCHANGED <<setup, pumpQuirks, choked, due, time, switches, steady, spilled>>

\* handlePause() and finish()
PauseTracks ==
  /\ up' = {} /\ pump' = FALSE
  /\ sender' = [t \in Tracks |-> Stop(sender[t])]
  /\ due' = {}
  /\ UNCHANGED <<setup, elapsed, count, base, pumpQuirks, choked, time, switches, steady,
                 spilled>>

\* The user switches a quirk; the senders read it when they need it.
ToggleQuirk(q) ==
  /\ switches < Switches
  /\ switches' = switches + 1
  /\ pumpQuirks' = IF q \in pumpQuirks THEN pumpQuirks \ {q} ELSE pumpQuirks \cup {q}
  /\ steady' = (steady /\ q # "fps")
  /\ spilled' = IF q = "limit" /\ q \in pumpQuirks
                  THEN spilled \cup {t \in Tracks : sender[t].queue # <<>>} ELSE spilled
  /\ UNCHANGED <<setup, up, pump, elapsed, count, base, sender, choked, due, time>>

\* The client stops reading, or reads on.
Choke ==
  /\ switches < Switches
  /\ switches' = switches + 1
  /\ choked' = ~choked
  /\ UNCHANGED <<setup, up, pump, elapsed, count, base, sender, pumpQuirks, due, time, steady,
                 spilled>>

PumpInit ==
  /\ setup = {} /\ up = {} /\ pump = FALSE /\ elapsed = 0
  /\ count = [t \in Tracks |-> 0] /\ base = [t \in Tracks |-> 0]
  /\ sender = [t \in Tracks |-> Sender]
  /\ pumpQuirks \in AtStart /\ choked = FALSE
  /\ due = {} /\ time = 0 /\ switches = 0 /\ steady = TRUE /\ spilled = {}

PumpNext ==
  \/ PumpTick \/ PlayTracks \/ PauseTracks \/ Choke
  \/ \E t \in Tracks : RateTick(t) \/ SetupTrack(t)
  \/ \E d \in 1..Late : Advance(d)
  \/ \E q \in PumpQuirk : ToggleQuirk(q)

PumpSpec == PumpInit /\ [][PumpNext]_pumpVars

-----------------------------------------------------------------------------
Biggest == Most(Size[0], Size[1])

\* The types; the queue never holds more than kMaxQueuedPackets.
PumpTypeOK ==
  /\ setup \subseteq Tracks /\ up \subseteq setup
  /\ pump = (up # {})
  /\ \A t \in Tracks : LET s == sender[t]
       IN /\ {count[t], base[t], s.tokens, s.refill, s.clock, s.sent, s.dropped} \subseteq Nat
          /\ s.seq \in 0..SeqSpace - 1
          /\ Len(s.queue) <= MaxQueue
          /\ s.running = (t \in up)
          /\ s.queue # <<>> => s.timer
  /\ pumpQuirks \subseteq PumpQuirk /\ due \subseteq Tracks \cup {"pump"}

\* Every sequence number that was used up is a packet sent, dropped, queued or
\* thrown away by a PAUSE: the gaps a client sees are exactly the losses the
\* statistics report, also across the wrap of the 16 bits.
Accounted ==
  \A t \in Tracks : LET s == sender[t]
    IN s.seq = (FirstSeq + Made(s)) % SeqSpace

\* A PAUSE forgets what it had not sent: nothing waits while a track is stopped, so
\* no picture of before is sent after the next PLAY.
StoppedIsEmpty ==
  \A t \in Tracks : ~sender[t].running => sender[t].queue = <<>> /\ ~sender[t].timer

\* Packets are written in the order of their sequence numbers, whatever was queued,
\* lost or dropped between, unless the rate limit was switched off over a queue.
WireInOrder ==
  [][\A t \in Tracks : sender'[t].last >= sender[t].last \/ t \in spilled]_pumpVars

\* So do timestamps from packet to packet: they rise across PAUSE and PLAY and across the
\* frames a late tick skips ("going back to zero would make the RTP timestamps run
\* backwards", RtspSession.cpp), as long as rtsp.video_fps_change is left alone.
TimestampsRise ==
  /\ WireInOrder
  /\ [][\A t \in Tracks : steady' /\ sender'[t].stamp # sender[t].stamp
          => sender'[t].stamp > sender[t].stamp]_pumpVars

\* What the queue lets out in any stretch of time is at most the bandwidth times the
\* stretch, plus one full bucket, also over pauses and switches of the limit.
RateKept == \A t \in Tracks : sender[t].debt <= Bandwidth * Window

\* "Sends RTP at the given bandwidth" (docs/quirks.md, transport.rtp_rate_limit):
\* a queue that is not empty lets a packet go by the time the bandwidth pays for
\* the biggest, give or take the lateness of a timer and the first refill.
RateHonoured ==
  due = {} => \A t \in Tracks :
    sender[t].starving <= (Biggest + Bandwidth - 1) \div Bandwidth + Late

\* The accounts, queues and timers of the senders agree with what plays, and the
\* queues are served at the rate they were promised.
SendersConsistent ==
  PumpTypeOK /\ Accounted /\ StoppedIsEmpty /\ RateKept /\ RateHonoured
=============================================================================
