----------------------------- MODULE RtspProofs ------------------------------
(***************************************************************************)
(* Theorems about RtspServer, for any clients, requests, quirks, limits    *)
(* and switching: sessions, tracks, pumps and senders agree, and nobody    *)
(* gets a slot above the limit, also where what a session that stopped     *)
(* reading left in its socket is handled all at once; and about Talkback:  *)
(* losses, recordings and the tab tell what happened.                      *)
(***************************************************************************)
EXTENDS RtspServer, Talkback, SelectionProofs, FiniteSetTheorems

USE RtspServerAssumption

Tracks == {"video", "talk"}
SessionState ==
  [live : BOOLEAN, alive : BOOLEAN, layout : SUBSET Tracks, tracks : SUBSET Tracks,
   flowing : SUBSET Tracks, playing : BOOLEAN, pump : BOOLEAN, limited : BOOLEAN,
   drainTimer : BOOLEAN, deaf : BOOLEAN, unread : Seq(Request), bye : BOOLEAN,
   quiet : 0 .. Timeout + 1]
Worlds ==
  [s : [Sessions -> SessionState], busy : 0 .. Busy, talked : 0 .. Busy, early : BOOLEAN]

\* One session: it plays what it has, and one that has ended has nothing.
SessionSound(s) ==
  /\ s.playing => s.tracks # {}
  /\ s.pump = s.playing /\ (s.flowing # {} <=> s.playing) /\ s.flowing \subseteq s.tracks
  /\ ~s.live => s = Gone
Normal(s) == ~s.limited /\ ~s.drainTimer /\ ~s.deaf /\ s.unread = <<>>

\* What a callback works on: every session is sound, and the time since a talkback slot
\* was freed and the time it is still busy make up the whole of it.
WorldSound(w) ==
  /\ w \in Worlds /\ \A c \in Sessions : SessionSound(w.s[c])
  /\ ~w.early /\ w.talked + w.busy >= Busy

RtspInv ==
  /\ WorldSound(World)
  /\ "drain" \notin quirks => \A c \in Sessions : Normal(session[c])
  /\ quirks \subseteq Quirk /\ listening \in BOOLEAN
  /\ DownIsEmpty /\ SilentReclaimed

-----------------------------------------------------------------------------
LEMMA GoneSound ==
  /\ Gone \in SessionState /\ SessionSound(Gone) /\ Normal(Gone)
  /\ ~Gone.live /\ Gone.tracks = {} /\ Gone.quiet = 0 /\ Gone.unread = <<>>
  /\ LET g == [Gone EXCEPT !.live = TRUE, !.alive = TRUE]
     IN g \in SessionState /\ SessionSound(g) /\ Normal(g) /\ g.tracks = {} /\ g.quiet = 0
<1>1. 0 \in 0 .. Timeout + 1 /\ <<>> \in Seq(Request)
  OBVIOUS
<1>2. Gone \in SessionState
  BY <1>1 DEF Gone, SessionState
<1>3. SessionSound(Gone) /\ Normal(Gone) /\ ~Gone.live /\ Gone.tracks = {} /\ Gone.quiet = 0 /\ Gone.unread = <<>>
  BY DEF Gone, SessionSound, Normal
<1> DEFINE g == [Gone EXCEPT !.live = TRUE, !.alive = TRUE]
<1>4. g \in SessionState
  BY <1>2 DEF SessionState
<1>5. /\ g.live /\ g.playing = Gone.playing /\ g.tracks = Gone.tracks /\ g.pump = Gone.pump
      /\ g.flowing = Gone.flowing /\ g.limited = Gone.limited /\ g.drainTimer = Gone.drainTimer
      /\ g.deaf = Gone.deaf /\ g.unread = Gone.unread /\ g.quiet = Gone.quiet
  BY <1>2 DEF SessionState
<1> HIDE DEF g
<1>6. SessionSound(g) /\ Normal(g)
  BY <1>5 DEF SessionSound, Normal, Gone
<1>7. QED
  BY <1>2, <1>3, <1>4, <1>5, <1>6 DEF g

\* One session is given another state.
LEMMA Put ==
  ASSUME NEW w, WorldSound(w), NEW c \in Sessions, NEW s, s \in SessionState, SessionSound(s)
  PROVE  LET v == [w EXCEPT !.s[c] = s] IN
         /\ WorldSound(v) /\ v.s[c] = s /\ \A d \in Sessions \ {c} : v.s[d] = w.s[d]
         /\ v.busy = w.busy /\ v.talked = w.talked /\ v.early = w.early
<1> DEFINE t == [w.s EXCEPT ![c] = s]  v == [w EXCEPT !.s = t]
<1>1. w \in Worlds /\ w.s \in [Sessions -> SessionState]
  BY DEF WorldSound, Worlds
<1>2. t \in [Sessions -> SessionState] /\ t[c] = s /\ \A d \in Sessions \ {c} : t[d] = w.s[d]
  BY <1>1
<1> HIDE DEF t
<1>3. v \in Worlds /\ v.s = t /\ v.busy = w.busy /\ v.talked = w.talked /\ v.early = w.early
  BY <1>1, <1>2 DEF Worlds
<1> HIDE DEF v
<1>4. WorldSound(v)
  BY <1>2, <1>3 DEF WorldSound
<1>5. [w EXCEPT !.s[c] = s] = v
  BY DEF v, t
<1>6. QED
  BY <1>2, <1>3, <1>4, <1>5

\* What a request does to the session it comes from.
StillSound(s, q) ==
  /\ q \in SessionState /\ SessionSound(q) /\ q.live /\ q.unread = s.unread
  /\ Normal(s) => Normal(q)

LEMMA Heard ==
  ASSUME NEW s, s \in SessionState, SessionSound(s), s.live
  PROVE  LET q == [s EXCEPT !.quiet = 0]
         IN  StillSound(s, q) /\ q.quiet = 0 /\ q.tracks = s.tracks /\ q.layout = s.layout
<1> DEFINE q == [s EXCEPT !.quiet = 0]
<1>1. q \in SessionState
  BY 0 \in 0 .. Timeout + 1 DEF SessionState
<1>2. /\ q.live = s.live /\ q.quiet = 0 /\ q.tracks = s.tracks /\ q.layout = s.layout
      /\ q.unread = s.unread /\ q.flowing = s.flowing /\ q.pump = s.pump /\ q.playing = s.playing
      /\ q.limited = s.limited /\ q.drainTimer = s.drainTimer /\ q.deaf = s.deaf
  BY <1>1 DEF SessionState
<1> HIDE DEF q
<1>3. SessionSound(q)
  BY <1>2 DEF SessionSound
<1>4. Normal(s) => Normal(q)
  BY <1>2 DEF Normal
<1>5. QED
  BY <1>1, <1>2, <1>3, <1>4 DEF q, StillSound

LEMMA Described ==
  ASSUME NEW s, s \in SessionState, SessionSound(s), s.live,
         NEW layout \in SUBSET Tracks
  PROVE  LET q == [s EXCEPT !.layout = layout]
         IN  StillSound(s, q) /\ q.quiet = s.quiet /\ q.tracks = s.tracks /\ q.layout = layout
<1> DEFINE q == [s EXCEPT !.layout = layout]
<1>1. q \in SessionState
  BY 0 \in 0 .. Timeout + 1 DEF SessionState
<1>2. /\ q.live = s.live /\ q.quiet = s.quiet /\ q.tracks = s.tracks /\ q.layout = layout
      /\ q.unread = s.unread /\ q.flowing = s.flowing /\ q.pump = s.pump /\ q.playing = s.playing
      /\ q.limited = s.limited /\ q.drainTimer = s.drainTimer /\ q.deaf = s.deaf
  BY <1>1 DEF SessionState
<1> HIDE DEF q
<1>3. SessionSound(q)
  BY <1>2 DEF SessionSound
<1>4. Normal(s) => Normal(q)
  BY <1>2 DEF Normal
<1>5. QED
  BY <1>1, <1>2, <1>3, <1>4 DEF q, StillSound

LEMMA TrackAdded ==
  ASSUME NEW s, s \in SessionState, SessionSound(s), s.live,
         NEW more \in SUBSET Tracks, s.tracks \subseteq more
  PROVE  LET q == [s EXCEPT !.tracks = more]
         IN  StillSound(s, q) /\ q.quiet = s.quiet /\ q.tracks = more
<1> DEFINE q == [s EXCEPT !.tracks = more]
<1>1. q \in SessionState
  BY 0 \in 0 .. Timeout + 1 DEF SessionState
<1>2. /\ q.live = s.live /\ q.quiet = s.quiet /\ q.tracks = more /\ q.layout = s.layout
      /\ q.unread = s.unread /\ q.flowing = s.flowing /\ q.pump = s.pump /\ q.playing = s.playing
      /\ q.limited = s.limited /\ q.drainTimer = s.drainTimer /\ q.deaf = s.deaf
  BY <1>1 DEF SessionState
<1> HIDE DEF q
<1>3. SessionSound(q)
  BY <1>2 DEF SessionSound
<1>4. Normal(s) => Normal(q)
  BY <1>2 DEF Normal
<1>5. QED
  BY <1>1, <1>2, <1>3, <1>4 DEF q, StillSound

LEMMA Plays ==
  ASSUME NEW s, s \in SessionState, SessionSound(s), s.live,
         s.tracks # {}
  PROVE  LET q == [s EXCEPT !.flowing = s.tracks, !.pump = TRUE, !.playing = TRUE]
         IN  StillSound(s, q) /\ q.quiet = s.quiet /\ q.tracks = s.tracks
<1> DEFINE q == [s EXCEPT !.flowing = s.tracks, !.pump = TRUE, !.playing = TRUE]
<1>1. q \in SessionState
  BY 0 \in 0 .. Timeout + 1 DEF SessionState
<1>2. /\ q.live = s.live /\ q.quiet = s.quiet /\ q.tracks = s.tracks /\ q.layout = s.layout
      /\ q.unread = s.unread /\ q.flowing = s.tracks /\ q.pump = TRUE /\ q.playing = TRUE
      /\ q.limited = s.limited /\ q.drainTimer = s.drainTimer /\ q.deaf = s.deaf
  BY <1>1 DEF SessionState
<1> HIDE DEF q
<1>3. SessionSound(q)
  BY <1>2 DEF SessionSound
<1>4. Normal(s) => Normal(q)
  BY <1>2 DEF Normal
<1>5. QED
  BY <1>1, <1>2, <1>3, <1>4 DEF q, StillSound

LEMMA Drains ==
  ASSUME NEW s, s \in SessionState, SessionSound(s), s.live
  PROVE  LET q == [s EXCEPT !.limited = TRUE, !.drainTimer = TRUE]
         IN  q \in SessionState /\ SessionSound(q) /\ q.live /\ q.quiet = s.quiet /\ q.tracks = s.tracks
<1> DEFINE q == [s EXCEPT !.limited = TRUE, !.drainTimer = TRUE]
<1>1. q \in SessionState
  BY 0 \in 0 .. Timeout + 1 DEF SessionState
<1>2. /\ q.live = s.live /\ q.quiet = s.quiet /\ q.tracks = s.tracks /\ q.layout = s.layout
      /\ q.unread = s.unread /\ q.flowing = s.flowing /\ q.pump = s.pump /\ q.playing = s.playing
      /\ q.limited = TRUE /\ q.drainTimer = TRUE /\ q.deaf = s.deaf
  BY <1>1 DEF SessionState
<1> HIDE DEF q
<1>3. SessionSound(q)
  BY <1>2 DEF SessionSound
<1>4. QED
  BY <1>1, <1>2, <1>3 DEF q

LEMMA Pauses ==
  ASSUME NEW s, s \in SessionState, SessionSound(s), s.live
  PROVE  LET q == [s EXCEPT !.pump = FALSE, !.flowing = {}, !.playing = FALSE]
         IN  StillSound(s, q) /\ q.quiet = s.quiet /\ q.tracks = s.tracks
<1> DEFINE q == [s EXCEPT !.pump = FALSE, !.flowing = {}, !.playing = FALSE]
<1>1. q \in SessionState
  BY 0 \in 0 .. Timeout + 1 DEF SessionState
<1>2. /\ q.live = s.live /\ q.quiet = s.quiet /\ q.tracks = s.tracks /\ q.layout = s.layout
      /\ q.unread = s.unread /\ q.flowing = {} /\ q.pump = FALSE /\ q.playing = FALSE
      /\ q.limited = s.limited /\ q.drainTimer = s.drainTimer /\ q.deaf = s.deaf
  BY <1>1 DEF SessionState
<1> HIDE DEF q
<1>3. SessionSound(q)
  BY <1>2 DEF SessionSound
<1>4. Normal(s) => Normal(q)
  BY <1>2 DEF Normal
<1>5. QED
  BY <1>1, <1>2, <1>3, <1>4 DEF q, StillSound

LEMMA SaysBye ==
  ASSUME NEW s, s \in SessionState, SessionSound(s), s.live
  PROVE  LET q == [s EXCEPT !.bye = TRUE]
         IN  StillSound(s, q) /\ q.quiet = s.quiet /\ q.tracks = s.tracks
<1> DEFINE q == [s EXCEPT !.bye = TRUE]
<1>1. q \in SessionState
  BY 0 \in 0 .. Timeout + 1 DEF SessionState
<1>2. /\ q.live = s.live /\ q.quiet = s.quiet /\ q.tracks = s.tracks /\ q.layout = s.layout
      /\ q.unread = s.unread /\ q.flowing = s.flowing /\ q.pump = s.pump /\ q.playing = s.playing
      /\ q.limited = s.limited /\ q.drainTimer = s.drainTimer /\ q.deaf = s.deaf
  BY <1>1 DEF SessionState
<1> HIDE DEF q
<1>3. SessionSound(q)
  BY <1>2 DEF SessionSound
<1>4. Normal(s) => Normal(q)
  BY <1>2 DEF Normal
<1>5. QED
  BY <1>1, <1>2, <1>3, <1>4 DEF q, StillSound

\* Sessions end, whoever ends them.
LEMMA TeardownEnds ==
  ASSUME NEW w, NEW some, NEW on, NEW c \in Sessions
  PROVE  TeardownAll(w, some, on).s[c] = IF c \in some THEN Gone ELSE w.s[c]
BY DEF TeardownAll

LEMMA TeardownSound ==
  ASSUME NEW w, WorldSound(w), NEW some, some \in SUBSET Sessions, NEW on
  PROVE  WorldSound(TeardownAll(w, some, on))
<1> DEFINE v == TeardownAll(w, some, on)
           talkers == {c \in some : "talk" \in w.s[c].tracks}
           t == [c \in Sessions |-> IF c \in some THEN Gone ELSE w.s[c]]
           b == IF "busy" \in on /\ talkers # {} THEN Busy ELSE w.busy
           k == IF talkers = {} THEN w.talked ELSE IF "busy" \in on THEN 0 ELSE Busy
<1>1. /\ w.s \in [Sessions -> SessionState] /\ w.busy \in 0 .. Busy /\ w.talked \in 0 .. Busy
      /\ w.early = FALSE /\ w.talked + w.busy >= Busy /\ \A c \in Sessions : SessionSound(w.s[c])
  BY DEF WorldSound, Worlds
<1>2. v = [s |-> t, busy |-> b, talked |-> k, early |-> w.early]
  BY DEF TeardownAll
<1>3. b \in 0 .. Busy /\ k \in 0 .. Busy /\ k + b >= Busy
  BY <1>1
<1>4. t \in [Sessions -> SessionState] /\ \A c \in Sessions : SessionSound(t[c])
  BY <1>1, GoneSound
<1> HIDE DEF b, k
<1>5. WorldSound(v)
  <2> HIDE DEF t, v
  <2>1. v \in Worlds
    BY <1>1, <1>2, <1>3, <1>4 DEF Worlds
  <2>2. QED
    BY <1>1, <1>2, <1>3, <1>4, <2>1 DEF WorldSound
<1>6. QED
  BY <1>2, <1>5

-----------------------------------------------------------------------------
(* Requests.                                                               *)

HoldersIn(w) == {d \in Sessions : w.s[d].tracks # {}}

\* From w to v one session was worked on, which neither revived it nor made it older nor
\* had it stop reading by itself.
Worked(w, v, c, on) ==
  /\ WorldSound(v)
  /\ \A d \in Sessions \ {c} : v.s[d] = w.s[d]
  /\ v.s[c].live => w.s[c].live
  /\ v.s[c].quiet <= w.s[c].quiet
  /\ "drain" \notin on /\ Normal(w.s[c]) => Normal(v.s[c])

\* No slot was given to anybody above the limit.
Within(w, v, on) ==
  "max" \in on => HoldersIn(v) \subseteq HoldersIn(w) \/ Cardinality(HoldersIn(v)) <= Slots

LEMMA SameTracks ==
  ASSUME NEW w, NEW v, NEW c \in Sessions, NEW on,
         \A d \in Sessions \ {c} : v.s[d] = w.s[d],
         v.s[c].tracks = {} \/ v.s[c].tracks = w.s[c].tracks
  PROVE  Within(w, v, on)
BY DEF Within, HoldersIn

LEMMA Unworked ==
  ASSUME NEW w, WorldSound(w), NEW c \in Sessions, NEW on
  PROVE  Worked(w, w, c, on) /\ Within(w, w, on)
<1>1. w.s[c].quiet <= w.s[c].quiet
  BY DEF WorldSound, Worlds, SessionState
<1>2. QED
  BY <1>1 DEF Worked, Within

\* The session is given another state.
LEMMA PutWorks ==
  ASSUME NEW w, WorldSound(w), NEW c \in Sessions, NEW on, w.s[c].live,
         NEW s, s \in SessionState, SessionSound(s), s.quiet <= w.s[c].quiet,
         "drain" \notin on /\ Normal(w.s[c]) => Normal(s)
  PROVE  LET v == [w EXCEPT !.s[c] = s] IN
         /\ Worked(w, v, c, on)
         /\ s.tracks = w.s[c].tracks => Within(w, v, on)
<1> DEFINE v == [w EXCEPT !.s[c] = s]
<1>1. WorldSound(v) /\ v.s[c] = s /\ \A d \in Sessions \ {c} : v.s[d] = w.s[d]
  BY Put
<1> HIDE DEF v
<1>2. Worked(w, v, c, on)
  BY <1>1 DEF Worked
<1>3. s.tracks = w.s[c].tracks => Within(w, v, on)
  BY <1>1, SameTracks
<1>4. QED
  BY <1>2, <1>3 DEF v

LEMMA WorkedTwice ==
  ASSUME NEW u, NEW w, NEW v, WorldSound(u), NEW c \in Sessions, NEW on,
         Worked(u, w, c, on), Worked(w, v, c, on)
  PROVE  Worked(u, v, c, on)
<1>1. u.s[c].quiet \in Nat /\ w.s[c].quiet \in Nat /\ v.s[c].quiet \in Nat
  BY DEF Worked, WorldSound, Worlds, SessionState
<1>2. v.s[c].quiet <= u.s[c].quiet
  BY <1>1 DEF Worked
<1>3. QED
  BY <1>2 DEF Worked

LEMMA DescribeWorks ==
  ASSUME NEW w, WorldSound(w), NEW c \in Sessions, w.s[c].live, NEW request, NEW on
  PROVE  Worked(w, Describe(w, c, request, on), c, on) /\ Within(w, Describe(w, c, request, on), on)
<1> DEFINE s == w.s[c]  q(l) == [s EXCEPT !.layout = l]  u(l) == [w EXCEPT !.s[c] = q(l)]
<1>1. /\ s \in SessionState /\ SessionSound(s) /\ s.live /\ s.quiet \in Nat
      /\ w.talked \in 0 .. Busy /\ w.busy \in 0 .. Busy /\ w.talked + w.busy >= Busy /\ w.early = FALSE
  BY DEF WorldSound, Worlds, SessionState
<1>2. ASSUME NEW l \in SUBSET Tracks
      PROVE  /\ Worked(w, u(l), c, on) /\ Within(w, u(l), on)
             /\ WorldSound(u(l)) /\ u(l).early = FALSE /\ u(l).s[c].tracks = s.tracks
  <2>1. /\ q(l) \in SessionState /\ SessionSound(q(l)) /\ q(l).quiet = s.quiet /\ q(l).tracks = s.tracks
        /\ Normal(s) => Normal(q(l))
    BY <1>1, Described DEF StillSound
  <2> HIDE DEF q
  <2>2. q(l).quiet <= s.quiet
    BY <1>1, <2>1
  <2>3. Worked(w, u(l), c, on) /\ Within(w, u(l), on)
    BY <2>1, <2>2, PutWorks
  <2>4. WorldSound(u(l)) /\ u(l).early = FALSE /\ u(l).s[c].tracks = s.tracks
    BY <1>1, <2>1, Put
  <2>5. QED
    BY <2>3, <2>4
<1>3. Layout(TRUE) \in SUBSET Tracks /\ Layout(FALSE) \in SUBSET Tracks
  BY DEF Layout, Tracks
<1>4. CASE request = "describe"
  <2>1. Describe(w, c, request, on) = u(Layout(FALSE))
    BY <1>4 DEF Describe
  <2> HIDE DEF u
  <2>2. QED
    BY <1>2, <1>3, <2>1
<1>5. CASE request # "describe" /\ BackchannelBusy(w, on)
  <2>1. Describe(w, c, request, on) = w
    BY <1>5 DEF Describe
  <2>2. QED
    BY <2>1, Unworked
<1>6. CASE request # "describe" /\ ~BackchannelBusy(w, on)
  <2> DEFINE x == u(Layout(TRUE))
  <2>1. Describe(w, c, request, on) = [x EXCEPT !.early = @ \/ ("busy" \in on /\ w.talked < Busy)]
    BY <1>6 DEF Describe
  <2>2. ~("busy" \in on /\ w.talked < Busy)
    BY <1>1, <1>6 DEF BackchannelBusy
  <2>3. WorldSound(x) /\ x.early = FALSE /\ Worked(w, x, c, on) /\ Within(w, x, on)
    BY <1>2, <1>3
  <2> HIDE DEF x
  <2>4. [x EXCEPT !.early = @ \/ ("busy" \in on /\ w.talked < Busy)] = x
    BY <2>2, <2>3 DEF WorldSound, Worlds
  <2>5. QED
    BY <2>1, <2>3, <2>4
<1>7. QED
  BY <1>4, <1>5, <1>6

LEMMA SetupWorks ==
  ASSUME NEW w, WorldSound(w), NEW c \in Sessions, w.s[c].live, NEW request, NEW on
  PROVE  Worked(w, Setup(w, c, request, on), c, on) /\ Within(w, Setup(w, c, request, on), on)
<1> DEFINE s == w.s[c]
           track == IF request = "setupTalk" THEN "talk" ELSE "video"
           layout == IF s.layout = {} THEN Layout(track = "talk") ELSE s.layout
           refused == (s.tracks = {} /\ MaxReached(w, c, on)) \/ request = "setupBad"
           q == [s EXCEPT !.layout = layout]
           u == [w EXCEPT !.s[c] = q]
           more == IF refused THEN q.tracks ELSE q.tracks \cup Meant(s, layout, track)
           r == [q EXCEPT !.tracks = more]
           v == [u EXCEPT !.s[c] = r]
<1>1. s \in SessionState /\ SessionSound(s) /\ s.live /\ s.quiet \in Nat
  BY DEF WorldSound, Worlds, SessionState
<1>2. track \in Tracks /\ layout \in SUBSET Tracks
  BY <1>1 DEF Layout, Tracks, SessionState
<1>3. StillSound(s, q) /\ q.quiet = s.quiet /\ q.tracks = s.tracks
  BY <1>1, <1>2, Described
<1>4. Meant(s, layout, track) \in SUBSET Tracks
  BY <1>2 DEF Meant
<1> HIDE DEF q
<1>5. more \in SUBSET Tracks /\ q.tracks \subseteq more
  BY <1>3, <1>4 DEF StillSound, SessionState
<1>6. Setup(w, c, request, on) = v
  <2>1. w \in Worlds /\ w.s \in [Sessions -> SessionState]
    BY DEF WorldSound, Worlds
  <2>2. u.s[c] = q
    BY <2>1 DEF Worlds
  <2>3. u.s[c].tracks = q.tracks
    BY <2>2
  <2>4. Setup(w, c, request, on) =
          [u EXCEPT !.s[c].tracks = IF refused THEN @ ELSE @ \cup Meant(s, layout, track)]
    BY DEF Setup, q
  <2>5. QED
    BY <2>2, <2>3, <2>4
<1> HIDE DEF more, refused
<1>7. StillSound(q, r) /\ r.quiet = q.quiet /\ r.tracks = more
  BY <1>3, <1>5, TrackAdded DEF StillSound
<1> HIDE DEF r, u
<1>8. s.quiet <= s.quiet /\ q.quiet <= s.quiet /\ (Normal(s) => Normal(q)) /\ (Normal(q) => Normal(r))
  BY <1>1, <1>3, <1>7 DEF StillSound
<1>9. Worked(w, u, c, on) /\ WorldSound(u) /\ u.s[c] = q /\ \A d \in Sessions \ {c} : u.s[d] = w.s[d]
  <2>1. q \in SessionState /\ SessionSound(q)
    BY <1>3 DEF StillSound
  <2>2. Worked(w, u, c, on)
    BY <1>1, <1>8, <2>1, PutWorks DEF u
  <2>3. WorldSound(u) /\ u.s[c] = q /\ \A d \in Sessions \ {c} : u.s[d] = w.s[d]
    BY <2>1, Put DEF u
  <2>4. QED
    BY <2>2, <2>3
<1>10. /\ Worked(u, v, c, on) /\ WorldSound(v) /\ v.s[c] = r
       /\ \A d \in Sessions \ {c} : v.s[d] = u.s[d]
  <2>1. r.quiet <= q.quiet
    BY <1>1, <1>3, <1>7
  <2>2. r \in SessionState /\ SessionSound(r) /\ u.s[c].live
    BY <1>3, <1>7, <1>9 DEF StillSound
  <2>3. Worked(u, v, c, on)
    BY <1>8, <1>9, <2>1, <2>2, PutWorks
  <2>4. WorldSound(v) /\ v.s[c] = r /\ \A d \in Sessions \ {c} : v.s[d] = u.s[d]
    BY <1>9, <2>2, Put
  <2>5. QED
    BY <2>3, <2>4
<1> HIDE DEF v
<1>11. Worked(w, v, c, on)
  BY <1>9, <1>10, WorkedTwice
<1>12. Within(w, v, on)
  <2>1. CASE s.tracks # {}
    BY <1>9, <1>10, <2>1 DEF Within, HoldersIn
  <2>2. CASE refused
    <3>1. v.s[c].tracks = w.s[c].tracks
      BY <1>3, <1>7, <1>10, <2>2 DEF more
    <3>2. \A d \in Sessions \ {c} : v.s[d] = w.s[d]
      BY <1>9, <1>10
    <3>3. v.s[c].tracks = {} \/ v.s[c].tracks = w.s[c].tracks
      BY <3>1
    <3> HIDE DEF s, track, layout
    <3>4. QED
      BY <3>2, <3>3, SameTracks
  <2>3. CASE s.tracks = {} /\ ~refused
    <3> SUFFICES ASSUME "max" \in on PROVE Cardinality(HoldersIn(v)) <= Slots
      BY DEF Within
    <3>1. ~(Cardinality(SlotsTaken(w, c)) >= Slots)
      BY <2>3 DEF refused, MaxReached
    <3> DEFINE T == SlotsTaken(w, c)
    <3>2. HoldersIn(v) \subseteq T \cup {c}
      BY <1>9, <1>10 DEF HoldersIn, SlotsTaken
    <3>3. IsFiniteSet(T) /\ c \notin T /\ Cardinality(T) \in Nat
      <4>1. T \subseteq Sessions /\ c \notin T
        BY DEF SlotsTaken
      <4>2. QED
        BY <4>1, FS_Subset, FS_CardinalityType
    <3>4. IsFiniteSet(T \cup {c}) /\ Cardinality(T \cup {c}) = Cardinality(T) + 1
      BY <3>3, FS_AddElement
    <3>5. IsFiniteSet(HoldersIn(v)) /\ Cardinality(HoldersIn(v)) <= Cardinality(T \cup {c})
      BY <3>2, <3>4, FS_Subset
    <3>6. Cardinality(HoldersIn(v)) \in Nat
      BY <3>5, FS_CardinalityType
    <3>7. QED
      BY <3>1, <3>3, <3>4, <3>5, <3>6
  <2>4. QED
    BY <2>1, <2>2, <2>3
<1>13. QED
  BY <1>6, <1>11, <1>12

LEMMA PlayWorks ==
  ASSUME NEW w, WorldSound(w), NEW c \in Sessions, w.s[c].live, NEW on
  PROVE  Worked(w, Play(w, c, on), c, on) /\ Within(w, Play(w, c, on), on)
<1> DEFINE s == w.s[c]
           r == [s EXCEPT !.flowing = s.tracks, !.pump = TRUE, !.playing = TRUE]
           d == [r EXCEPT !.limited = TRUE, !.drainTimer = TRUE]
           q == IF "talk" \in s.tracks /\ "drain" \in on THEN d ELSE r
<1>1. s \in SessionState /\ SessionSound(s) /\ s.live /\ s.quiet \in Nat
  BY DEF WorldSound, Worlds, SessionState
<1>2. CASE s.tracks = {}
  BY <1>2, Unworked DEF Play
<1>3. CASE s.tracks # {}
  <2>1. Play(w, c, on) = [w EXCEPT !.s[c] = q]
    BY <1>3 DEF Play
  <2>2. StillSound(s, r) /\ r.quiet = s.quiet /\ r.tracks = s.tracks
    BY <1>1, <1>3, Plays
  <2> HIDE DEF r
  <2>3. d \in SessionState /\ SessionSound(d) /\ d.live /\ d.quiet = r.quiet /\ d.tracks = r.tracks
    BY <2>2, Drains DEF StillSound
  <2> HIDE DEF d
  <2>4. /\ q \in SessionState /\ SessionSound(q) /\ q.quiet <= s.quiet /\ q.tracks = s.tracks
        /\ "drain" \notin on /\ Normal(s) => Normal(q)
    BY <1>1, <2>2, <2>3 DEF StillSound
  <2> HIDE DEF q
  <2>5. LET v == [w EXCEPT !.s[c] = q] IN Worked(w, v, c, on) /\ Within(w, v, on)
    BY <1>1, <2>4, PutWorks
  <2>6. QED
    BY <2>1, <2>5
<1>4. QED
  BY <1>2, <1>3

LEMMA PauseWorks ==
  ASSUME NEW w, WorldSound(w), NEW c \in Sessions, w.s[c].live, NEW on
  PROVE  Worked(w, Pause(w, c), c, on) /\ Within(w, Pause(w, c), on)
<1> DEFINE s == w.s[c]
           q == [s EXCEPT !.pump = FALSE, !.flowing = {}, !.playing = FALSE]
<1>1. s \in SessionState /\ SessionSound(s) /\ s.live /\ s.quiet \in Nat
  BY DEF WorldSound, Worlds, SessionState
<1>2. StillSound(s, q) /\ q.quiet = s.quiet /\ q.tracks = s.tracks
  BY <1>1, Pauses
<1>3. Pause(w, c) = [w EXCEPT !.s[c] = q]
  BY DEF Pause
<1> HIDE DEF q
<1>4. q.quiet <= s.quiet
  BY <1>1, <1>2
<1>5. q \in SessionState /\ SessionSound(q) /\ (Normal(s) => Normal(q))
  BY <1>2 DEF StillSound
<1>6. LET v == [w EXCEPT !.s[c] = q] IN Worked(w, v, c, on) /\ Within(w, v, on)
  BY <1>1, <1>2, <1>4, <1>5, PutWorks
<1>7. QED
  BY <1>3, <1>6

LEMMA FinishWorks ==
  ASSUME NEW w, WorldSound(w), NEW c \in Sessions, NEW on
  PROVE  /\ Worked(w, Finish(w, c, on), c, on) /\ Within(w, Finish(w, c, on), on)
         /\ Finish(w, c, on).s[c] = Gone
<1> DEFINE v == Finish(w, c, on)
<1>1. WorldSound(v) /\ v.s[c] = Gone /\ \A d \in Sessions \ {c} : v.s[d] = w.s[d]
  <2>1. {c} \in SUBSET Sessions
    OBVIOUS
  <2>2. /\ WorldSound(TeardownAll(w, {c}, on))
        /\ TeardownAll(w, {c}, on).s[c] = Gone
        /\ \A d \in Sessions \ {c} : TeardownAll(w, {c}, on).s[d] = w.s[d]
    BY <2>1, TeardownSound, TeardownEnds
  <2>3. v = TeardownAll(w, {c}, on)
    BY DEF Finish
  <2> HIDE DEF v
  <2>4. QED
    BY <2>2, <2>3
<1> HIDE DEF v
<1>2. w.s[c].quiet \in Nat
  BY DEF WorldSound, Worlds, SessionState
<1>3. Worked(w, v, c, on)
  BY <1>1, <1>2, GoneSound DEF Worked
<1>4. Within(w, v, on)
  BY <1>1, GoneSound, SameTracks
<1>5. QED
  BY <1>1, <1>3, <1>4 DEF v

LEMMA HandleWorks ==
  ASSUME NEW w, WorldSound(w), NEW c \in Sessions, NEW request \in Request, NEW on
  PROVE  Worked(w, Handle(w, c, request, on), c, on) /\ Within(w, Handle(w, c, request, on), on)
<1> DEFINE s == w.s[c]  q == [s EXCEPT !.quiet = 0]  r == [w EXCEPT !.s[c] = q]
           v == Handle(w, c, request, on)
<1>1. s \in SessionState /\ SessionSound(s) /\ s.quiet \in Nat /\ s.live \in BOOLEAN
  BY DEF WorldSound, Worlds, SessionState
<1>2. CASE ~s.live
  <2>1. v = w
    BY <1>2 DEF Handle
  <2> HIDE DEF v
  <2>2. Worked(w, v, c, on) /\ Within(w, v, on)
    BY <2>1, Unworked
  <2>3. QED
    BY <2>2 DEF v
<1>3. CASE s.live
  <2>1. StillSound(s, q) /\ q.quiet = 0 /\ q.tracks = s.tracks
    BY <1>1, <1>3, Heard
  <2>2. r = [w EXCEPT !.s[c].quiet = 0]
    OBVIOUS
  <2> HIDE DEF q
  <2>3. q \in SessionState /\ SessionSound(q) /\ q.live /\ q.quiet <= s.quiet /\ (Normal(s) => Normal(q))
    BY <1>1, <2>1 DEF StillSound
  <2>4. Worked(w, r, c, on) /\ WorldSound(r) /\ r.s[c] = q /\ \A d \in Sessions \ {c} : r.s[d] = w.s[d]
    <3>1. Worked(w, r, c, on)
      BY <1>1, <1>3, <2>3, PutWorks
    <3>2. QED
      BY <2>3, <3>1, Put
  <2> HIDE DEF r
  <2>5. r.s[c].live /\ HoldersIn(r) = HoldersIn(w)
    BY <2>1, <2>3, <2>4 DEF HoldersIn
  <2>6. \E x : v = x /\ Worked(r, x, c, on) /\ Within(r, x, on)
    <3>1. CASE request \in {"describe", "describeTalk"}
      <4>1. v = Describe(r, c, request, on)
        BY <1>3, <2>2, <3>1 DEF Handle
      <4>2. Worked(r, Describe(r, c, request, on), c, on) /\ Within(r, Describe(r, c, request, on), on)
        BY <2>4, <2>5, DescribeWorks
      <4>3. QED
        BY <4>1, <4>2
    <3>2. CASE request \in {"setupVideo", "setupTalk", "setupBad"}
      <4>1. v = Setup(r, c, request, on)
        BY <1>3, <2>2, <3>2 DEF Handle
      <4>2. Worked(r, Setup(r, c, request, on), c, on) /\ Within(r, Setup(r, c, request, on), on)
        BY <2>4, <2>5, SetupWorks
      <4>3. QED
        BY <4>1, <4>2
    <3>3. CASE request = "play"
      <4>1. v = Play(r, c, on)
        BY <1>3, <2>2, <3>3 DEF Handle
      <4>2. Worked(r, Play(r, c, on), c, on) /\ Within(r, Play(r, c, on), on)
        BY <2>4, <2>5, PlayWorks
      <4>3. QED
        BY <4>1, <4>2
    <3>4. CASE request = "pause"
      <4>1. v = Pause(r, c)
        BY <1>3, <2>2, <3>4 DEF Handle
      <4>2. Worked(r, Pause(r, c), c, on) /\ Within(r, Pause(r, c), on)
        BY <2>4, <2>5, PauseWorks
      <4>3. QED
        BY <4>1, <4>2
    <3>5. CASE request = "teardown"
      <4> DEFINE b == [q EXCEPT !.bye = TRUE]  x == [r EXCEPT !.s[c] = b]
      <4>1. StillSound(q, b) /\ b.quiet = q.quiet /\ b.tracks = q.tracks
        BY <2>3, SaysBye
      <4>2. v = x
        <5>1. v = [r EXCEPT !.s[c].bye = TRUE]
          BY <1>3, <2>2, <3>5 DEF Handle
        <5>2. [r EXCEPT !.s[c].bye = TRUE] = [r EXCEPT !.s[c] = [r.s[c] EXCEPT !.bye = TRUE]]
          OBVIOUS
        <5>3. QED
          BY <2>4, <5>1, <5>2
      <4> HIDE DEF b
      <4>3. b \in SessionState /\ SessionSound(b) /\ (Normal(q) => Normal(b)) /\ b.quiet <= q.quiet
        BY <2>1, <4>1 DEF StillSound
      <4>4. Worked(r, x, c, on) /\ Within(r, x, on)
        BY <2>4, <2>5, <4>1, <4>3, PutWorks
      <4>5. QED
        BY <4>2, <4>4
    <3>6. CASE request = "junk"
      <4>1. v = Finish(r, c, on)
        BY <1>3, <2>2, <3>6 DEF Handle
      <4>2. Worked(r, Finish(r, c, on), c, on) /\ Within(r, Finish(r, c, on), on)
        BY <2>4, FinishWorks
      <4>3. QED
        BY <4>1, <4>2
    <3>7. CASE request = "options"
      <4>1. v = r
        BY <1>3, <2>2, <3>7 DEF Handle
      <4>2. Worked(r, r, c, on) /\ Within(r, r, on)
        BY <2>4, Unworked
      <4>3. QED
        BY <4>1, <4>2
    <3> HIDE DEF v
    <3>8. QED
      BY <3>1, <3>2, <3>3, <3>4, <3>5, <3>6, <3>7 DEF Request
  <2>7. PICK x : v = x /\ Worked(r, x, c, on) /\ Within(r, x, on)
    BY <2>6
  <2>8. Worked(w, x, c, on)
    BY <2>4, <2>7, WorkedTwice
  <2>9. Within(w, x, on)
    BY <2>5, <2>7 DEF Within
  <2>10. QED
    BY <2>7, <2>8, <2>9
<1>4. QED
  BY <1>1, <1>2, <1>3

-----------------------------------------------------------------------------
(* What waited in the socket of a session is handled all at once, and this *)
(* is done for one session after the other.  HandleAll and ResumeAll are   *)
(* recursive functions: that they exist, and what they compute, is shown   *)
(* by looking at the least number for which it would not hold.             *)

LEMMA Smallest ==
  ASSUME NEW S, S \in SUBSET Nat, S # {}
  PROVE  \E n \in S : \A m \in S : n <= m
<1>1. PICK n \in S : \A m \in S : <<m, n>> \notin OpToRel(<, Nat)
  BY WFMin, NatLessThanWellFounded
<1>2. \A m \in S : ~(m < n)
  BY <1>1 DEF OpToRel
<1>3. QED
  BY <1>2

LEMMA WithinTwice ==
  ASSUME NEW u, NEW w, NEW v, NEW on, Within(u, w, on), Within(w, v, on)
  PROVE  Within(u, v, on)
<1> DEFINE H == HoldersIn(w)  K == HoldersIn(v)
<1>1. IsFiniteSet(H) /\ Cardinality(H) \in Nat /\ IsFiniteSet(K) /\ Cardinality(K) \in Nat
  <2>1. H \subseteq Sessions /\ K \subseteq Sessions
    BY DEF HoldersIn
  <2> HIDE DEF H, K
  <2>2. QED
    BY <2>1, FS_Subset, FS_CardinalityType
<1> HIDE DEF H, K
<1>2. K \subseteq H => Cardinality(K) <= Cardinality(H)
  BY <1>1, FS_Subset
<1>3. QED
  BY <1>1, <1>2 DEF Within, H, K

LEMMA HandleAllWorks ==
  ASSUME NEW w, WorldSound(w), NEW c \in Sessions, NEW waiting, waiting \in Seq(Request), NEW on
  PROVE  /\ Worked(w, HandleAll(w, c, waiting, on), c, on)
         /\ Within(w, HandleAll(w, c, waiting, on), on)
<1> DEFINE L == Len(waiting)
           B(f, k) == IF k = 0 THEN w ELSE Handle(f[k - 1], c, waiting[k], on)
           G == CHOOSE g : g = [n \in 0 .. L |-> IF n = 0 THEN w ELSE Handle(g[n - 1], c, waiting[n], on)]
<1>1. L \in Nat /\ \A n \in 1 .. L : waiting[n] \in Request
  BY LenProperties, ElementOfSeq
<1>2. \A n \in 0 .. L : \E f : f = [k \in 0 .. n |-> B(f, k)]
  <2> DEFINE S == {n \in 0 .. L : ~ \E f : f = [k \in 0 .. n |-> B(f, k)]}
  <2>1. SUFFICES ASSUME S # {} PROVE FALSE
    OBVIOUS
  <2>2. S \in SUBSET Nat
    BY <1>1
  <2>3. PICK n \in S : \A m \in S : n <= m
    <3> HIDE DEF S
    <3>1. QED
      BY <2>1, <2>2, Smallest
  <2>4. CASE n = 0
    <3> DEFINE f == [k \in 0 .. 0 |-> w]
    <3>1. f = [k \in 0 .. 0 |-> B(f, k)]
      OBVIOUS
    <3>2. QED
      BY <2>3, <2>4, <3>1
  <2>5. CASE n # 0
    <3>1. n \in 1 .. L /\ n - 1 \in 0 .. L /\ n - 1 \notin S
      <4>1. n \in 0 .. L
        BY <2>3
      <4> HIDE DEF S
      <4>2. QED
        BY <1>1, <2>2, <2>3, <2>5, <4>1
    <3>2. PICK f : f = [k \in 0 .. n - 1 |-> B(f, k)]
      BY <3>1
    <3> DEFINE g == [k \in 0 .. n |-> IF k = n THEN B(f, n) ELSE f[k]]
    <3>3. \A k \in 0 .. n : g[k] = B(g, k)
      <4> SUFFICES ASSUME NEW k \in 0 .. n PROVE g[k] = B(g, k)
        OBVIOUS
      <4>1. CASE k = n
        <5>1. g[k - 1] = f[k - 1]
          BY <3>1, <4>1
        <5>2. QED
          BY <3>1, <4>1, <5>1
      <4>2. CASE k # n
        <5>1. k \in 0 .. n - 1 /\ g[k] = f[k] /\ (k # 0 => g[k - 1] = f[k - 1])
          BY <3>1, <4>2
        <5>2. f[k] = B(f, k)
          BY <3>2, <5>1
        <5>3. QED
          BY <5>1, <5>2
      <4>3. QED
        BY <4>1, <4>2
    <3>4. g = [k \in 0 .. n |-> B(g, k)]
      <4>1. g = [k \in 0 .. n |-> g[k]]
        OBVIOUS
      <4> HIDE DEF g
      <4>2. QED
        BY <3>3, <4>1
    <3>5. QED
      BY <2>3, <3>4
  <2>6. QED
    BY <2>4, <2>5
<1>3. G = [k \in 0 .. L |-> B(G, k)]
  <2>1. \E g : g = [n \in 0 .. L |-> IF n = 0 THEN w ELSE Handle(g[n - 1], c, waiting[n], on)]
    BY <1>1, <1>2
  <2>2. QED
    BY <2>1
<1>4. HandleAll(w, c, waiting, on) = G[L]
  BY DEF HandleAll
<1> HIDE DEF G
<1> DEFINE Good(n) == Worked(w, G[n], c, on) /\ Within(w, G[n], on)
<1>5. Good(0)
  <2>1. G[0] = w
    BY <1>1, <1>3
  <2>2. QED
    BY <2>1, Unworked
<1>6. ASSUME NEW n \in 1 .. L, Good(n - 1) PROVE Good(n)
  <2> DEFINE u == G[n - 1]  r == waiting[n]  v == Handle(u, c, r, on)
  <2>1. G[n] = v
    BY <1>1, <1>3
  <2>2. WorldSound(u) /\ r \in Request
    BY <1>1, <1>6 DEF Worked
  <2> HIDE DEF u, r
  <2>3. Worked(u, Handle(u, c, r, on), c, on) /\ Within(u, Handle(u, c, r, on), on)
    BY <2>2, HandleWorks
  <2>4. Worked(w, u, c, on) /\ Within(w, u, on)
    BY <1>6 DEF u
  <2> HIDE DEF v
  <2>5. Worked(w, v, c, on) /\ Within(w, v, on)
    BY <2>3, <2>4, WorkedTwice, WithinTwice DEF v
  <2>6. QED
    BY <2>1, <2>5
<1> HIDE DEF Good
<1>7. \A n \in 0 .. L : Good(n)
  <2> DEFINE S == {n \in 0 .. L : ~Good(n)}
  <2>1. SUFFICES ASSUME S # {} PROVE FALSE
    OBVIOUS
  <2>2. S \in SUBSET Nat
    BY <1>1
  <2>3. PICK n \in S : \A m \in S : n <= m
    <3> HIDE DEF S
    <3>1. QED
      BY <2>1, <2>2, Smallest
  <2>4. n # 0
    BY <1>5, <2>3
  <2>5. n \in 1 .. L /\ n - 1 \in 0 .. L /\ n - 1 \notin S
    BY <1>1, <2>2, <2>3, <2>4
  <2>6. QED
    BY <1>6, <2>3, <2>5
<1>8. QED
  BY <1>1, <1>4, <1>7 DEF Good

LEMMA ResumeWorks ==
  ASSUME NEW w, WorldSound(w), NEW c \in Sessions, NEW on, "drain" \notin on
  PROVE  /\ Worked(w, ResumeDraining(w, c, on), c, on) /\ Within(w, ResumeDraining(w, c, on), on)
         /\ Normal(ResumeDraining(w, c, on).s[c])
<1> DEFINE s == w.s[c]
           r == [s EXCEPT !.limited = FALSE, !.drainTimer = FALSE, !.deaf = FALSE, !.unread = <<>>]
           u == [w EXCEPT !.s[c] = r]
           v == HandleAll(u, c, s.unread, on)
<1>1. s \in SessionState /\ SessionSound(s) /\ s.quiet \in Nat /\ s.live \in BOOLEAN /\ s.unread \in Seq(Request)
  BY DEF WorldSound, Worlds, SessionState
<1>2. r \in SessionState
  BY <1>1, <<>> \in Seq(Request) DEF SessionState
<1>3. /\ r.live = s.live /\ r.alive = s.alive /\ r.layout = s.layout /\ r.tracks = s.tracks
      /\ r.flowing = s.flowing /\ r.playing = s.playing /\ r.pump = s.pump /\ r.bye = s.bye
      /\ r.quiet = s.quiet
      /\ r.limited = FALSE /\ r.drainTimer = FALSE /\ r.deaf = FALSE /\ r.unread = <<>>
  BY <1>1 DEF SessionState
<1>4. CASE s.live
  <2> HIDE DEF r
  <2>1. SessionSound(r) /\ Normal(r) /\ r.quiet <= s.quiet
    BY <1>1, <1>3, <1>4 DEF SessionSound, Normal
  <2>2. Worked(w, u, c, on) /\ Within(w, u, on) /\ WorldSound(u) /\ u.s[c] = r
    <3>1. WorldSound(u) /\ u.s[c] = r
      BY <1>2, <2>1, Put
    <3>2. Worked(w, u, c, on) /\ Within(w, u, on)
      BY <1>2, <1>3, <1>4, <2>1, PutWorks
    <3>3. QED
      BY <3>1, <3>2
  <2> HIDE DEF u
  <2>3. Worked(u, v, c, on) /\ Within(u, v, on)
    BY <1>1, <2>2, HandleAllWorks
  <2>4. ResumeDraining(w, c, on) = v
    BY DEF ResumeDraining, u, r
  <2> HIDE DEF v
  <2>5. Worked(w, v, c, on) /\ Within(w, v, on)
    BY <2>2, <2>3, WorkedTwice, WithinTwice
  <2>6. Normal(v.s[c])
    BY <2>1, <2>2, <2>3 DEF Worked
  <2>7. QED
    BY <2>4, <2>5, <2>6
<1>5. CASE ~s.live
  <2>1. s = Gone
    BY <1>1, <1>5 DEF SessionSound
  <2>2. r = s
    <3>1. Normal(s)
      BY <2>1, GoneSound
    <3> HIDE DEF r, s
    <3>2. r = [live |-> r.live, alive |-> r.alive, layout |-> r.layout, tracks |-> r.tracks, flowing |-> r.flowing,
               playing |-> r.playing, pump |-> r.pump, limited |-> r.limited, drainTimer |-> r.drainTimer,
               deaf |-> r.deaf, unread |-> r.unread, bye |-> r.bye, quiet |-> r.quiet]
      BY <1>2 DEF SessionState
    <3>3. s = [live |-> s.live, alive |-> s.alive, layout |-> s.layout, tracks |-> s.tracks, flowing |-> s.flowing,
               playing |-> s.playing, pump |-> s.pump, limited |-> s.limited, drainTimer |-> s.drainTimer,
               deaf |-> s.deaf, unread |-> s.unread, bye |-> s.bye, quiet |-> s.quiet]
      BY <1>1 DEF SessionState
    <3>4. QED
      BY <1>1, <1>3, <3>1, <3>2, <3>3 DEF Normal, SessionState
  <2>3. u = w
    <3>1. w = [w EXCEPT !.s[c] = w.s[c]]
      BY DEF WorldSound, Worlds
    <3>2. QED
      BY <2>2, <3>1
  <2>4. s.unread = <<>>
    BY <2>1, GoneSound
  <2>5. ResumeDraining(w, c, on) = HandleAll(w, c, <<>>, on)
    BY <2>2, <2>3, <2>4 DEF ResumeDraining
  <2> DEFINE x == HandleAll(w, c, <<>>, on)
  <2>6. Worked(w, x, c, on) /\ Within(w, x, on)
    BY <<>> \in Seq(Request), HandleAllWorks
  <2> HIDE DEF x
  <2>7. Normal(x.s[c])
    BY <2>1, <2>6, GoneSound DEF Worked
  <2>8. QED
    BY <2>5, <2>6, <2>7 DEF x
<1>6. QED
  BY <1>1, <1>4, <1>5

\* The order in which sessions are taken reaches each of them.
LEMMA EachOnce ==
  ASSUME NEW some, some \in SUBSET Sessions, NEW order \in Orders(some)
  PROVE  /\ Len(order) \in Nat
         /\ \A n \in 1 .. Len(order) : order[n] \in some
         /\ \A c \in some : \E k \in 1 .. Len(order) : order[k] = c
<1> DEFINE N == Cardinality(some)
<1>1. N \in Nat
  BY FS_Subset, FS_CardinalityType
<1>2. order \in [1 .. N -> some] /\ \A c \in some : \E k \in DOMAIN order : order[k] = c
  BY DEF Orders
<1> HIDE DEF N
<1>3. Len(order) = N
  BY <1>1, <1>2
<1>4. QED
  BY <1>1, <1>2, <1>3

\* Every session of some reads again, and the others were left alone.
Resumed(w, v, done, on) ==
  /\ WorldSound(v) /\ Within(w, v, on)
  /\ \A c \in Sessions : (v.s[c].live => w.s[c].live) /\ v.s[c].quiet <= w.s[c].quiet
  /\ \A c \in Sessions : c \in done \/ Normal(w.s[c]) => Normal(v.s[c])

LEMMA QuietNat ==
  ASSUME NEW s, s \in SessionState
  PROVE  s.quiet \in Nat
BY DEF SessionState

LEMMA ResumeOneMore ==
  ASSUME NEW w, WorldSound(w), NEW u, NEW done, NEW on, "drain" \notin on,
         Resumed(w, u, done, on), NEW c \in Sessions
  PROVE  Resumed(w, ResumeDraining(u, c, on), done \cup {c}, on)
<1> DEFINE v == ResumeDraining(u, c, on)
<1>1. WorldSound(u) /\ Within(w, u, on)
  BY DEF Resumed
<1>2. Worked(u, v, c, on) /\ Within(u, v, on) /\ Normal(v.s[c])
  BY <1>1, ResumeWorks
<1> HIDE DEF v
<1>3. WorldSound(v) /\ Within(w, v, on)
  BY <1>1, <1>2, WithinTwice DEF Worked
<1>4. \A d \in Sessions : (v.s[d].live => w.s[d].live) /\ v.s[d].quiet <= w.s[d].quiet
  <2> SUFFICES ASSUME NEW d \in Sessions
               PROVE  (v.s[d].live => w.s[d].live) /\ v.s[d].quiet <= w.s[d].quiet
    OBVIOUS
  <2>1. v.s[d].quiet \in Nat /\ u.s[d].quiet \in Nat /\ w.s[d].quiet \in Nat
    <3>1. w.s[d] \in SessionState /\ u.s[d] \in SessionState /\ v.s[d] \in SessionState
      BY <1>1, <1>3 DEF WorldSound, Worlds
    <3>2. QED
      BY <3>1, QuietNat
  <2>2. (v.s[d].live => u.s[d].live) /\ v.s[d].quiet <= u.s[d].quiet
    <3>1. CASE d = c
      BY <1>2, <3>1 DEF Worked
    <3>2. CASE d # c
      BY <1>2, <2>1, <3>2 DEF Worked
    <3>3. QED
      BY <3>1, <3>2
  <2>3. (u.s[d].live => w.s[d].live) /\ u.s[d].quiet <= w.s[d].quiet
    BY DEF Resumed
  <2>4. QED
    BY <2>1, <2>2, <2>3
<1>5. \A d \in Sessions : d \in done \cup {c} \/ Normal(w.s[d]) => Normal(v.s[d])
  BY <1>2 DEF Resumed, Worked
<1>6. QED
  BY <1>3, <1>4, <1>5 DEF Resumed, v

LEMMA ResumeAllWorks ==
  ASSUME NEW w, WorldSound(w), NEW some, some \in SUBSET Sessions, NEW on, "drain" \notin on,
         NEW order \in Orders(some)
  PROVE  Resumed(w, ResumeAll(w, order, on), some, on)
<1> DEFINE L == Len(order)
           B(f, k) == IF k = 0 THEN w ELSE ResumeDraining(f[k - 1], order[k], on)
           G == CHOOSE g : g = [n \in 0 .. L |-> IF n = 0 THEN w ELSE ResumeDraining(g[n - 1], order[n], on)]
<1>1. /\ L \in Nat /\ \A n \in 1 .. L : order[n] \in Sessions
      /\ \A c \in some : \E k \in 1 .. L : order[k] = c
  BY EachOnce
<1>2. ResumeAll(w, order, on) = G[L]
  BY DEF ResumeAll
<1> HIDE DEF L
<1>3. \A n \in 0 .. L : \E f : f = [k \in 0 .. n |-> B(f, k)]
  <2> DEFINE S == {n \in 0 .. L : ~ \E f : f = [k \in 0 .. n |-> B(f, k)]}
  <2>1. SUFFICES ASSUME S # {} PROVE FALSE
    OBVIOUS
  <2>2. S \in SUBSET Nat
    BY <1>1
  <2>3. PICK n \in S : \A m \in S : n <= m
    <3> HIDE DEF S
    <3>1. QED
      BY <2>1, <2>2, Smallest
  <2>4. CASE n = 0
    <3> DEFINE f == [k \in 0 .. 0 |-> w]
    <3>1. f = [k \in 0 .. 0 |-> B(f, k)]
      OBVIOUS
    <3>2. QED
      BY <2>3, <2>4, <3>1
  <2>5. CASE n # 0
    <3>1. n \in 1 .. L /\ n - 1 \in 0 .. L /\ n - 1 \notin S
      <4>1. n \in 0 .. L
        BY <2>3
      <4> HIDE DEF S
      <4>2. QED
        BY <1>1, <2>2, <2>3, <2>5, <4>1
    <3>2. PICK f : f = [k \in 0 .. n - 1 |-> B(f, k)]
      BY <3>1
    <3> DEFINE g == [k \in 0 .. n |-> IF k = n THEN B(f, n) ELSE f[k]]
    <3>3. \A k \in 0 .. n : g[k] = B(g, k)
      <4> SUFFICES ASSUME NEW k \in 0 .. n PROVE g[k] = B(g, k)
        OBVIOUS
      <4>1. CASE k = n
        <5>1. g[k - 1] = f[k - 1]
          BY <3>1, <4>1
        <5>2. QED
          BY <3>1, <4>1, <5>1
      <4>2. CASE k # n
        <5>1. k \in 0 .. n - 1 /\ g[k] = f[k] /\ (k # 0 => g[k - 1] = f[k - 1])
          BY <3>1, <4>2
        <5>2. f[k] = B(f, k)
          BY <3>2, <5>1
        <5>3. QED
          BY <5>1, <5>2
      <4>3. QED
        BY <4>1, <4>2
    <3>4. g = [k \in 0 .. n |-> B(g, k)]
      <4>1. g = [k \in 0 .. n |-> g[k]]
        OBVIOUS
      <4> HIDE DEF g
      <4>2. QED
        BY <3>3, <4>1
    <3>5. QED
      BY <2>3, <3>4
  <2>6. QED
    BY <2>4, <2>5
<1>4. G = [k \in 0 .. L |-> B(G, k)]
  <2>1. \E g : g = [n \in 0 .. L |-> IF n = 0 THEN w ELSE ResumeDraining(g[n - 1], order[n], on)]
    BY <1>1, <1>3
  <2>2. QED
    BY <2>1
<1> HIDE DEF G
<1> DEFINE Done(n) == {order[k] : k \in 1 .. n}
           Good(n) == Resumed(w, G[n], Done(n), on)
<1>5. Good(0)
  <2>1. G[0] = w /\ Done(0) = {}
    BY <1>1, <1>4
  <2>2. \A c \in Sessions : w.s[c].quiet <= w.s[c].quiet
    BY DEF WorldSound, Worlds, SessionState
  <2>3. QED
    BY <2>1, <2>2 DEF Resumed, Within
<1>6. ASSUME NEW n \in 1 .. L, Good(n - 1) PROVE Good(n)
  <2> DEFINE u == G[n - 1]  c == order[n]  done == Done(n - 1)
  <2>1. G[n] = ResumeDraining(u, c, on) /\ c \in Sessions
    BY <1>1, <1>4
  <2>2. Done(n) = done \cup {c}
    <3>1. \A k : k \in 1 .. n <=> k \in 1 .. n - 1 \/ k = n
      BY <1>1
    <3>2. QED
      BY <3>1
  <2>3. Resumed(w, u, done, on)
    BY <1>6
  <2> HIDE DEF u, c, Done, done
  <2>4. Resumed(w, ResumeDraining(u, c, on), done \cup {c}, on)
    BY <2>1, <2>3, ResumeOneMore
  <2>5. QED
    BY <2>1, <2>2, <2>4
<1> HIDE DEF Good
<1>7. \A n \in 0 .. L : Good(n)
  <2> DEFINE S == {n \in 0 .. L : ~Good(n)}
  <2>1. SUFFICES ASSUME S # {} PROVE FALSE
    OBVIOUS
  <2>2. S \in SUBSET Nat
    BY <1>1
  <2>3. PICK n \in S : \A m \in S : n <= m
    <3> HIDE DEF S
    <3>1. QED
      BY <2>1, <2>2, Smallest
  <2>4. n # 0
    BY <1>5, <2>3
  <2>5. n \in 1 .. L /\ n - 1 \in 0 .. L /\ n - 1 \notin S
    BY <1>1, <2>2, <2>3, <2>4
  <2>6. QED
    BY <1>6, <2>3, <2>5
<1>8. some \subseteq Done(L)
  BY <1>1
<1>9. Resumed(w, G[L], Done(L), on)
  <2>1. L \in 0 .. L
    BY <1>1
  <2>2. Good(L)
    BY <1>7, <2>1
  <2> HIDE DEF Done
  <2>3. QED
    BY <2>2 DEF Good
<1> HIDE DEF Done
<1>10. QED
  BY <1>2, <1>8, <1>9 DEF Resumed

-----------------------------------------------------------------------------
(* Steps.                                                                  *)

\* No step gives a slot to anybody above the limit.
SlotStep == "max" \in quirks' /\ ~(Holders' \subseteq Holders) => Cardinality(Holders') <= Slots

LEMMA Held == Holders = HoldersIn(World) /\ Holders' = HoldersIn(World')
BY DEF Holders, HoldersIn, World

LEMMA Became ==
  ASSUME NEW w, w \in Worlds, Become(w)
  PROVE  World' = w
<1>1. w = [s |-> w.s, busy |-> w.busy, talked |-> w.talked, early |-> w.early]
  BY DEF Worlds
<1>2. World' = [s |-> w.s, busy |-> w.busy, talked |-> w.talked, early |-> w.early]
  BY DEF Become, World
<1>3. QED
  BY <1>1, <1>2

\* What the last two parts of the invariant say of the sessions.
LEMMA InSessions ==
  ASSUME RtspInv
  PROVE  /\ World \in Worlds /\ \A c \in Sessions : session[c] = World.s[c]
         /\ \A c \in Sessions : session[c].live => listening /\ session[c].quiet <= Timeout
BY DEF RtspInv, WorldSound, Worlds, World, DownIsEmpty, SilentReclaimed, Live

\* The invariant from what a step makes of the sessions.
LEMMA InvFromWorld ==
  ASSUME WorldSound(World'), quirks' \subseteq Quirk, listening' \in BOOLEAN,
         "drain" \notin quirks' => \A c \in Sessions : Normal(World'.s[c]),
         \A c \in Sessions : World'.s[c].live => listening' /\ World'.s[c].quiet <= Timeout
  PROVE  RtspInv'
<1>1. \A c \in Sessions : session'[c] = World'.s[c]
  BY DEF World
<1>2. WorldSound(World)'
  BY DEF WorldSound, World, Worlds, SessionSound, SessionState
<1>3. DownIsEmpty' /\ SilentReclaimed'
  BY <1>1 DEF DownIsEmpty, SilentReclaimed, Live
<1>4. ("drain" \notin quirks => \A c \in Sessions : Normal(session[c]))'
  BY <1>1
<1>5. QED
  BY <1>2, <1>3, <1>4 DEF RtspInv

\* A step that worked on one session.
LEMMA OneWorked ==
  ASSUME RtspInv, NEW v, NEW c \in Sessions, Become(v), UNCHANGED <<quirks, listening>>,
         Worked(World, v, c, quirks), Within(World, v, quirks)
  PROVE  RtspInv' /\ SlotStep
<1>1. WorldSound(v) /\ v \in Worlds
  BY DEF Worked, WorldSound
<1>2. World' = v
  BY <1>1, Became
<1>3. /\ "drain" \notin quirks => \A d \in Sessions : Normal(World.s[d])
      /\ \A d \in Sessions : World.s[d].live => listening /\ World.s[d].quiet <= Timeout
  BY InSessions DEF RtspInv
<1>4. "drain" \notin quirks => \A d \in Sessions : Normal(v.s[d])
  BY <1>3 DEF Worked
<1>5. \A d \in Sessions : v.s[d].live => listening /\ v.s[d].quiet <= Timeout
  <2> SUFFICES ASSUME NEW d \in Sessions, v.s[d].live PROVE listening /\ v.s[d].quiet <= Timeout
    OBVIOUS
  <2>1. CASE d # c
    BY <1>3, <2>1 DEF Worked
  <2>2. CASE d = c
    <3>1. World.s[c].live /\ v.s[c].quiet <= World.s[c].quiet
      BY <2>2 DEF Worked
    <3>2. World.s[c].quiet \in Nat /\ v.s[c].quiet \in Nat
      BY <1>1, InSessions, QuietNat DEF Worlds
    <3>3. QED
      BY <1>3, <2>2, <3>1, <3>2
  <2>3. QED
    BY <2>1, <2>2
<1>6. RtspInv'
  BY <1>1, <1>2, <1>4, <1>5, InvFromWorld DEF RtspInv
<1>7. SlotStep
  BY <1>2, Held DEF SlotStep, Within
<1>8. QED
  BY <1>6, <1>7

LEMMA AdoptStep ==
  ASSUME RtspInv, NEW c \in Sessions, Adopt(c)
  PROVE  RtspInv' /\ SlotStep
<1> DEFINE g == [Gone EXCEPT !.live = TRUE, !.alive = TRUE]  v == [World EXCEPT !.s[c] = g]
<1>1. g \in SessionState /\ SessionSound(g) /\ Normal(g) /\ g.tracks = {} /\ g.quiet = 0
  BY GoneSound
<1>2. Become(v) /\ listening /\ UNCHANGED <<quirks, listening>>
  BY DEF Adopt
<1> HIDE DEF g
<1>3. WorldSound(v) /\ v.s[c] = g /\ \A d \in Sessions \ {c} : v.s[d] = World.s[d]
  BY <1>1, Put DEF RtspInv
<1> HIDE DEF v
<1>4. World' = v
  BY <1>2, <1>3, Became DEF WorldSound
<1>5. "drain" \notin quirks => \A d \in Sessions : Normal(v.s[d])
  BY <1>1, <1>3, InSessions DEF RtspInv
<1>6. \A d \in Sessions : v.s[d].live => listening /\ v.s[d].quiet <= Timeout
  BY <1>1, <1>2, <1>3, InSessions
<1>7. RtspInv'
  BY <1>2, <1>3, <1>4, <1>5, <1>6, InvFromWorld DEF RtspInv
<1>8. HoldersIn(v) \subseteq HoldersIn(World)
  BY <1>1, <1>3 DEF HoldersIn
<1>9. QED
  BY <1>4, <1>7, <1>8, Held DEF SlotStep

LEMMA FinishStep ==
  ASSUME RtspInv, NEW c \in Sessions, Become(Finish(World, c, quirks)), UNCHANGED <<quirks, listening>>
  PROVE  RtspInv' /\ SlotStep
<1> DEFINE v == Finish(World, c, quirks)
<1>1. Worked(World, v, c, quirks) /\ Within(World, v, quirks) /\ Become(v)
  BY FinishWorks DEF RtspInv
<1> HIDE DEF v
<1>2. QED
  BY <1>1, OneWorked

\* A session that is there is given another state.
LEMMA PutStep ==
  ASSUME RtspInv, NEW c \in Sessions, session[c].live, UNCHANGED <<quirks, listening>>,
         NEW s, s \in SessionState, SessionSound(s), s.quiet = session[c].quiet,
         s.tracks = session[c].tracks, Normal(session[c]) => Normal(s),
         Become([World EXCEPT !.s[c] = s])
  PROVE  RtspInv' /\ SlotStep
<1> DEFINE v == [World EXCEPT !.s[c] = s]
<1>1. session[c] = World.s[c] /\ WorldSound(World)
  BY InSessions DEF RtspInv
<1>2. s.quiet <= World.s[c].quiet
  BY <1>1, QuietNat
<1>3. Worked(World, v, c, quirks) /\ Within(World, v, quirks) /\ Become(v)
  BY <1>1, <1>2, PutWorks
<1> HIDE DEF v
<1>4. QED
  BY <1>3, OneWorked

LEMMA ReceiveStep ==
  ASSUME RtspInv, NEW c \in Sessions, NEW request \in Request, Receive(c, request)
  PROVE  RtspInv' /\ SlotStep
<1> DEFINE s == session[c]
<1>1. s = World.s[c] /\ s \in SessionState /\ SessionSound(s) /\ s.live /\ UNCHANGED <<quirks, listening>>
  BY InSessions DEF RtspInv, WorldSound, Worlds, Receive
<1>2. CASE s.deaf /\ Become([World EXCEPT !.s[c].unread = Append(@, request)])
  <2> DEFINE q == [s EXCEPT !.unread = Append(s.unread, request)]
  <2>1. Append(s.unread, request) \in Seq(Request)
    BY <1>1, AppendProperties DEF SessionState
  <2>2. q \in SessionState
    BY <1>1, <2>1 DEF SessionState
  <2>3. /\ q.live = s.live /\ q.quiet = s.quiet /\ q.tracks = s.tracks /\ q.layout = s.layout
        /\ q.flowing = s.flowing /\ q.pump = s.pump /\ q.playing = s.playing
    BY <1>1 DEF SessionState
  <2>4. Become([World EXCEPT !.s[c] = q])
    <3>1. [World EXCEPT !.s[c].unread = Append(@, request)] = [World EXCEPT !.s[c] = [World.s[c] EXCEPT !.unread = Append(@, request)]]
      OBVIOUS
    <3>2. [World.s[c] EXCEPT !.unread = Append(@, request)] = q
      BY <1>1
    <3> HIDE DEF q
    <3>3. QED
      BY <1>2, <3>1, <3>2
  <2> HIDE DEF q
  <2>5. SessionSound(q)
    BY <1>1, <2>3 DEF SessionSound
  <2>6. ~Normal(s)
    BY <1>2 DEF Normal
  <2>7. QED
    BY <1>1, <2>2, <2>3, <2>4, <2>5, <2>6, PutStep
<1>3. CASE Become(Handle(World, c, request, quirks))
  <2> DEFINE v == Handle(World, c, request, quirks)
  <2>1. Worked(World, v, c, quirks) /\ Within(World, v, quirks) /\ Become(v)
    BY <1>3, HandleWorks DEF RtspInv
  <2> HIDE DEF v
  <2>2. QED
    BY <1>1, <2>1, OneWorked
<1>4. QED
  BY <1>2, <1>3 DEF Receive

LEMMA ClientGoneStep ==
  ASSUME RtspInv, NEW c \in Sessions, ClientGone(c)
  PROVE  RtspInv' /\ SlotStep
<1> DEFINE s == session[c]  q == [s EXCEPT !.alive = FALSE]
<1>1. s = World.s[c] /\ s \in SessionState /\ SessionSound(s) /\ s.live /\ UNCHANGED <<quirks, listening>>
  BY InSessions DEF RtspInv, WorldSound, Worlds, ClientGone
<1>2. CASE Become(Finish(World, c, quirks))
  BY <1>1, <1>2, FinishStep
<1>3. CASE Become([World EXCEPT !.s[c].alive = FALSE])
  <2>1. q \in SessionState
    BY <1>1 DEF SessionState
  <2>2. /\ q.live = s.live /\ q.quiet = s.quiet /\ q.tracks = s.tracks /\ q.layout = s.layout
        /\ q.flowing = s.flowing /\ q.pump = s.pump /\ q.playing = s.playing
        /\ q.limited = s.limited /\ q.drainTimer = s.drainTimer /\ q.deaf = s.deaf /\ q.unread = s.unread
    BY <1>1 DEF SessionState
  <2>3. Become([World EXCEPT !.s[c] = q])
    <3>1. [World EXCEPT !.s[c].alive = FALSE] = [World EXCEPT !.s[c] = [World.s[c] EXCEPT !.alive = FALSE]]
      OBVIOUS
    <3>2. [World.s[c] EXCEPT !.alive = FALSE] = q
      BY <1>1
    <3> HIDE DEF q
    <3>3. QED
      BY <1>3, <3>1, <3>2
  <2> HIDE DEF q
  <2>4. SessionSound(q) /\ (Normal(s) => Normal(q))
    BY <1>1, <2>2 DEF SessionSound, Normal
  <2>5. QED
    BY <1>1, <2>1, <2>2, <2>3, <2>4, PutStep
<1>4. QED
  BY <1>2, <1>3 DEF ClientGone

LEMMA StopDrainingStep ==
  ASSUME RtspInv, NEW c \in Sessions, StopDraining(c)
  PROVE  RtspInv' /\ SlotStep
<1> DEFINE s == session[c]  q == [s EXCEPT !.drainTimer = FALSE, !.deaf = TRUE]
<1>1. s = World.s[c] /\ s \in SessionState /\ SessionSound(s) /\ UNCHANGED <<quirks, listening>>
  BY InSessions DEF RtspInv, WorldSound, Worlds, StopDraining
<1>2. s.drainTimer /\ s.live
  <2>1. s.drainTimer
    BY DEF StopDraining
  <2>2. QED
    BY <1>1, <2>1, GoneSound DEF SessionSound, Normal, SessionState
<1>3. q \in SessionState
  BY <1>1 DEF SessionState
<1>4. /\ q.live = s.live /\ q.quiet = s.quiet /\ q.tracks = s.tracks
      /\ q.flowing = s.flowing /\ q.pump = s.pump /\ q.playing = s.playing
  BY <1>1 DEF SessionState
<1>5. Become([World EXCEPT !.s[c] = q])
  <2>1. Become([World EXCEPT !.s[c] = [World.s[c] EXCEPT !.drainTimer = FALSE, !.deaf = TRUE]])
    BY DEF StopDraining
  <2>2. [World.s[c] EXCEPT !.drainTimer = FALSE, !.deaf = TRUE] = q
    BY <1>1
  <2> HIDE DEF q
  <2>3. QED
    BY <2>1, <2>2
<1> HIDE DEF q
<1>6. SessionSound(q) /\ ~Normal(s)
  BY <1>1, <1>2, <1>4 DEF SessionSound, Normal
<1>7. QED
  BY <1>1, <1>2, <1>3, <1>4, <1>5, <1>6, PutStep

LEMMA SetQuirkStep ==
  ASSUME RtspInv, NEW q \in Switched, SetQuirk(q)
  PROVE  RtspInv' /\ SlotStep
<1> DEFINE on == IF q \in quirks THEN quirks \ {q} ELSE quirks \cup {q}
<1>1. quirks' = on /\ on \subseteq Quirk /\ listening' = listening /\ listening' \in BOOLEAN
  BY DEF SetQuirk, RtspInv
<1>2. PICK order \in Orders(Live) :
        Become(IF "drain" \in on THEN World ELSE ResumeAll(World, order, on))
  BY DEF SetQuirk
<1> HIDE DEF on
<1>3. WorldSound(World) /\ World \in Worlds
  BY DEF RtspInv, WorldSound
<1>4. CASE "drain" \in on
  <2>1. World' = World
    BY <1>2, <1>3, <1>4, Became
  <2>2. RtspInv'
    BY <1>1, <1>3, <1>4, <2>1, InSessions, InvFromWorld
  <2>3. QED
    BY <2>1, <2>2, Held DEF SlotStep
<1>5. CASE "drain" \notin on
  <2> DEFINE v == ResumeAll(World, order, on)
  <2>1. Live \in SUBSET Sessions
    BY DEF Live
  <2>2. Resumed(World, v, Live, on)
    BY <1>3, <1>5, <2>1, ResumeAllWorks
  <2> HIDE DEF v
  <2>3. World' = v
    BY <1>2, <1>5, <2>2, Became DEF Resumed, WorldSound, v
  <2>4. \A c \in Sessions : Normal(v.s[c])
    <3> SUFFICES ASSUME NEW c \in Sessions, c \notin Live PROVE Normal(World.s[c])
      BY <2>2 DEF Resumed
    <3>1. SessionSound(World.s[c]) /\ ~World.s[c].live
      BY <1>3, InSessions DEF Live, WorldSound
    <3>2. QED
      BY <3>1, GoneSound DEF SessionSound
  <2>5. \A c \in Sessions : v.s[c].live => listening' /\ v.s[c].quiet <= Timeout
    <3> SUFFICES ASSUME NEW c \in Sessions, v.s[c].live PROVE listening' /\ v.s[c].quiet <= Timeout
      OBVIOUS
    <3>1. World.s[c].live /\ v.s[c].quiet <= World.s[c].quiet
      BY <2>2 DEF Resumed
    <3>2. v.s[c].quiet \in Nat /\ World.s[c].quiet \in Nat
      BY <1>3, <2>2, QuietNat DEF Resumed, WorldSound, Worlds
    <3>3. listening /\ World.s[c].quiet <= Timeout
      BY <3>1, InSessions
    <3>4. QED
      BY <1>1, <3>1, <3>2, <3>3
  <2>6. RtspInv'
    BY <1>1, <2>2, <2>3, <2>4, <2>5, InvFromWorld DEF Resumed
  <2>7. SlotStep
    BY <1>1, <2>2, <2>3, Held DEF SlotStep, Resumed, Within
  <2>8. QED
    BY <2>6, <2>7
<1>6. QED
  BY <1>4, <1>5

\* Some of the sessions end, and what is left is allowed to be there.
LEMMA EndStep ==
  ASSUME RtspInv, NEW w, WorldSound(w), NEW some, some \in SUBSET Sessions,
         "drain" \notin quirks => \A c \in Sessions : Normal(w.s[c]),
         HoldersIn(w) \subseteq HoldersIn(World),
         Become(TeardownAll(w, some, quirks)), quirks' = quirks, listening' \in BOOLEAN,
         \A c \in Sessions \ some : w.s[c].live => listening' /\ w.s[c].quiet <= Timeout
  PROVE  RtspInv' /\ SlotStep
<1> DEFINE v == TeardownAll(w, some, quirks)
<1>1. WorldSound(v)
  BY TeardownSound
<1>2. \A c \in Sessions : v.s[c] = IF c \in some THEN Gone ELSE w.s[c]
  BY TeardownEnds
<1>3. Become(v)
  OBVIOUS
<1> HIDE DEF v
<1>4. World' = v
  BY <1>1, <1>3, Became DEF WorldSound
<1>5. "drain" \notin quirks' => \A c \in Sessions : Normal(v.s[c])
  BY <1>2, GoneSound
<1>6. \A c \in Sessions : v.s[c].live => listening' /\ v.s[c].quiet <= Timeout
  BY <1>2, GoneSound
<1>7. RtspInv'
  BY <1>1, <1>4, <1>5, <1>6, InvFromWorld DEF RtspInv
<1>8. HoldersIn(v) \subseteq HoldersIn(World)
  BY <1>2, GoneSound DEF HoldersIn
<1>9. QED
  BY <1>4, <1>7, <1>8, Held DEF SlotStep

LEMMA AllEndStep ==
  ASSUME RtspInv, Become(TeardownAll(World, Live, quirks)), quirks' = quirks, listening' \in BOOLEAN
  PROVE  RtspInv' /\ SlotStep
<1>1. Live \in SUBSET Sessions /\ \A c \in Sessions \ Live : ~World.s[c].live
  BY InSessions DEF Live
<1>2. WorldSound(World) /\ ("drain" \notin quirks => \A c \in Sessions : Normal(World.s[c]))
  BY InSessions DEF RtspInv
<1>3. QED
  BY <1>1, <1>2, EndStep

\* A second passes.
LEMMA LargerOf == ASSUME NEW a \in Int, NEW b \in Int PROVE Max({a, b}) = IF a >= b THEN a ELSE b
<1> DEFINE m == IF a >= b THEN a ELSE b
<1>1. m \in {a, b} /\ \A y \in {a, b} : m >= y
  OBVIOUS
<1>2. \A x \in {a, b} : (\A y \in {a, b} : x >= y) => x = m
  OBVIOUS
<1> HIDE DEF m
<1>3. Max({a, b}) = m
  BY <1>1, <1>2 DEF Max
<1>4. QED
  BY <1>3 DEF m

LEMMA SmallerOf == ASSUME NEW a \in Int, NEW b \in Int PROVE Min({a, b}) = IF a <= b THEN a ELSE b
<1> DEFINE m == IF a <= b THEN a ELSE b
<1>1. m \in {a, b} /\ \A y \in {a, b} : m <= y
  OBVIOUS
<1>2. \A x \in {a, b} : (\A y \in {a, b} : x <= y) => x = m
  OBVIOUS
<1> HIDE DEF m
<1>3. Min({a, b}) = m
  BY <1>1, <1>2 DEF Min
<1>4. QED
  BY <1>3 DEF m

LEMMA AgedSound ==
  ASSUME RtspInv
  PROVE  /\ WorldSound(Aged) /\ HoldersIn(Aged) = HoldersIn(World)
         /\ \A c \in Sessions : Aged.s[c].live = World.s[c].live
         /\ "drain" \notin quirks => \A c \in Sessions : Normal(Aged.s[c])
<1> DEFINE q(c) == [session[c] EXCEPT !.quiet = Min({session[c].quiet + 1, Timeout + 1})]
           t == [c \in Sessions |-> IF session[c].live THEN q(c) ELSE session[c]]
           b == Max({busy - 1, 0})
           k == Min({talked + 1, Busy})
<1>1. /\ session \in [Sessions -> SessionState] /\ busy \in 0 .. Busy /\ talked \in 0 .. Busy
      /\ early = FALSE /\ talked + busy >= Busy /\ \A c \in Sessions : SessionSound(session[c])
  BY DEF RtspInv, WorldSound, Worlds, World
<1>2. Aged = [s |-> t, busy |-> b, talked |-> k, early |-> early]
  <2>1. Aged = [World EXCEPT !.s = t, !.busy = Max({World.busy - 1, 0}), !.talked = Min({World.talked + 1, Busy})]
    BY DEF Aged
  <2>2. World.busy = busy /\ World.talked = talked
    BY DEF World
  <2>3. Aged = [World EXCEPT !.s = t, !.busy = b, !.talked = k]
    BY <2>1, <2>2
  <2> HIDE DEF t, b, k
  <2>4. QED
    BY <2>3 DEF World
<1>3. b \in 0 .. Busy /\ k \in 0 .. Busy /\ k + b >= Busy
  <2>1. b = (IF busy - 1 >= 0 THEN busy - 1 ELSE 0) /\ k = (IF talked + 1 <= Busy THEN talked + 1 ELSE Busy)
    BY <1>1, LargerOf, SmallerOf
  <2> HIDE DEF b, k
  <2>2. QED
    BY <1>1, <2>1
<1>4. ASSUME NEW c \in Sessions
      PROVE  /\ t[c] \in SessionState /\ SessionSound(t[c])
             /\ t[c].live = session[c].live /\ t[c].tracks = session[c].tracks
             /\ Normal(session[c]) => Normal(t[c])
  <2> DEFINE s == session[c]  n == Min({s.quiet + 1, Timeout + 1})  r == [s EXCEPT !.quiet = n]
  <2>1. s \in SessionState /\ SessionSound(s) /\ s.quiet \in Nat
    BY <1>1, QuietNat
  <2>2. n \in 0 .. Timeout + 1
    <3>1. n = IF s.quiet + 1 <= Timeout + 1 THEN s.quiet + 1 ELSE Timeout + 1
      BY <2>1, SmallerOf
    <3> HIDE DEF n
    <3>2. QED
      BY <2>1, <3>1
  <2>3. t[c] = IF s.live THEN r ELSE s
    OBVIOUS
  <2> HIDE DEF n, t
  <2>4. r \in SessionState
    BY <2>1, <2>2 DEF SessionState
  <2>5. /\ r.live = s.live /\ r.tracks = s.tracks /\ r.unread = s.unread
        /\ r.flowing = s.flowing /\ r.pump = s.pump /\ r.playing = s.playing
        /\ r.limited = s.limited /\ r.drainTimer = s.drainTimer /\ r.deaf = s.deaf
    BY <2>1 DEF SessionState
  <2> HIDE DEF r, s
  <2>6. /\ s.live => SessionSound(r)
        /\ Normal(s) => Normal(r)
    BY <2>1, <2>5 DEF SessionSound, Normal
  <2>7. t[c] \in SessionState /\ SessionSound(t[c])
    BY <2>1, <2>3, <2>4, <2>6
  <2>8. t[c].live = s.live /\ t[c].tracks = s.tracks /\ (Normal(s) => Normal(t[c]))
    BY <2>3, <2>5, <2>6
  <2>9. QED
    BY <2>7, <2>8 DEF s
<1>5. t \in [Sessions -> SessionState]
  <2>1. t = [c \in Sessions |-> t[c]]
    OBVIOUS
  <2> HIDE DEF t
  <2>2. QED
    BY <1>4, <2>1
<1> HIDE DEF t, b, k
<1>6. WorldSound(Aged)
  <2>1. Aged \in Worlds
    BY <1>1, <1>2, <1>3, <1>5 DEF Worlds
  <2>2. QED
    BY <1>1, <1>2, <1>3, <1>4, <2>1 DEF WorldSound
<1>7. \A c \in Sessions : Aged.s[c] = t[c] /\ World.s[c] = session[c]
  BY <1>2 DEF World
<1>8. HoldersIn(Aged) = HoldersIn(World)
  BY <1>4, <1>7 DEF HoldersIn
<1>9. \A c \in Sessions : Aged.s[c].live = World.s[c].live
  BY <1>4, <1>7
<1>10. "drain" \notin quirks => \A c \in Sessions : Normal(Aged.s[c])
  BY <1>4, <1>7 DEF RtspInv
<1>11. QED
  BY <1>6, <1>8, <1>9, <1>10

LEMMA TickStep ==
  ASSUME RtspInv, Tick
  PROVE  RtspInv' /\ SlotStep
<1> DEFINE w == Aged  silent == {c \in Sessions : Overdue(w.s[c])}
<1>1. /\ WorldSound(w) /\ HoldersIn(w) = HoldersIn(World)
      /\ \A c \in Sessions : w.s[c].live = World.s[c].live
      /\ "drain" \notin quirks => \A c \in Sessions : Normal(w.s[c])
  BY AgedSound
<1>2. quirks' = quirks /\ listening' = listening /\ listening' \in BOOLEAN
  BY DEF Tick, RtspInv
<1>3. \/ Become(IF listening THEN TeardownAll(w, silent, quirks) ELSE w)
      \/ listening /\ Become(TeardownAll(w, Live, quirks))
  BY DEF Tick
<1>4. \A c \in Sessions : w.s[c].live => c \in Live /\ listening
  BY <1>1, InSessions DEF Live
<1>5. \A c \in Sessions : w.s[c].quiet \in Nat
  BY <1>1, QuietNat DEF WorldSound, Worlds
<1> HIDE DEF w
<1>6. CASE listening /\ Become(TeardownAll(w, silent, quirks))
  <2>1. silent \in SUBSET Sessions
    OBVIOUS
  <2>2. \A c \in Sessions \ silent : w.s[c].live => listening' /\ w.s[c].quiet <= Timeout
    BY <1>2, <1>5, <1>6 DEF Overdue
  <2> HIDE DEF silent
  <2>3. QED
    BY <1>1, <1>2, <1>6, <2>1, <2>2, EndStep
<1>7. CASE ~listening /\ Become(w)
  <2>1. World' = w
    BY <1>1, <1>7, Became DEF WorldSound
  <2>2. RtspInv'
    BY <1>1, <1>2, <1>4, <1>7, <2>1, InvFromWorld DEF RtspInv
  <2>3. QED
    BY <1>1, <2>1, <2>2, Held DEF SlotStep
<1>8. CASE Become(TeardownAll(w, Live, quirks))
  <2>1. Live \in SUBSET Sessions
    BY DEF Live
  <2>2. \A c \in Sessions \ Live : w.s[c].live => listening' /\ w.s[c].quiet <= Timeout
    BY <1>4
  <2>3. QED
    BY <1>1, <1>2, <1>8, <2>1, <2>2, EndStep
<1>9. QED
  BY <1>3, <1>6, <1>7, <1>8 DEF RtspInv

LEMMA RtspStarts ==
  ASSUME Init
  PROVE  RtspInv
<1>1. World = [s |-> [c \in Sessions |-> Gone], busy |-> 0, talked |-> Busy, early |-> FALSE]
  BY DEF Init, World
<1>2. World \in Worlds
  BY <1>1, GoneSound DEF Worlds
<1>3. WorldSound(World)
  BY <1>1, <1>2, GoneSound DEF WorldSound
<1>4. QED
  BY <1>3, GoneSound DEF Init, RtspInv, DownIsEmpty, SilentReclaimed, Live

LEMMA RtspStep ==
  ASSUME RtspInv, Next
  PROVE  RtspInv' /\ SlotStep
<1>1. ASSUME NEW c \in Sessions, Adopt(c) PROVE RtspInv' /\ SlotStep
  BY <1>1, AdoptStep
<1>2. ASSUME NEW c \in Sessions, ClientGone(c) PROVE RtspInv' /\ SlotStep
  BY <1>2, ClientGoneStep
<1>3. ASSUME NEW c \in Sessions, ByeRuns(c) PROVE RtspInv' /\ SlotStep
  BY <1>3, FinishStep DEF ByeRuns
<1>4. ASSUME NEW c \in Sessions, StopDraining(c) PROVE RtspInv' /\ SlotStep
  BY <1>4, StopDrainingStep
<1>5. ASSUME NEW c \in Sessions, TeardownSession(c) PROVE RtspInv' /\ SlotStep
  BY <1>5, FinishStep DEF TeardownSession
<1>6. ASSUME NEW c \in Sessions, NEW request \in Sends[c], Receive(c, request)
      PROVE  RtspInv' /\ SlotStep
  <2>1. request \in Request
    OBVIOUS
  <2>2. QED
    BY <1>6, <2>1, ReceiveStep
<1>7. ASSUME NEW q \in Switched, SetQuirk(q) PROVE RtspInv' /\ SlotStep
  BY <1>7, SetQuirkStep
<1>8. CASE Tick
  BY <1>8, TickStep
<1>9. CASE Suspend
  BY <1>9, AllEndStep DEF Suspend
<1>10. ASSUME NEW ok \in BOOLEAN, Listen(ok) PROVE RtspInv' /\ SlotStep
  BY <1>10, AllEndStep DEF Listen
<1>11. QED
  BY <1>1, <1>2, <1>3, <1>4, <1>5, <1>6, <1>7, <1>8, <1>9, <1>10 DEF Next

-----------------------------------------------------------------------------
\* At any moment and for any clients: a session that ended holds nothing, nobody
\* plays without a track, pumps and senders run exactly while their session plays, a
\* server that is down has no session, the talkback slot stays busy as long as
\* documented, a session nobody speaks in is taken back, and without
\* rtsp.talkback_stop_draining every session reads.
THEOREM SessionsStayConsistent == Spec => []SessionsConsistent
<1>1. Init => RtspInv
  BY RtspStarts
<1>2. RtspInv /\ [Next]_vars => RtspInv'
  <2>1. ASSUME RtspInv, UNCHANGED vars PROVE RtspInv'
    <3>1. World' = World /\ quirks' = quirks /\ listening' = listening
      BY <2>1 DEF vars, World
    <3>2. QED
      BY <2>1, <3>1, InSessions, InvFromWorld DEF RtspInv
  <2>2. QED
    BY <2>1, RtspStep
<1>3. RtspInv => SessionsConsistent
  <2> SUFFICES ASSUME RtspInv PROVE SessionsConsistent
    OBVIOUS
  <2>1. /\ session \in [Sessions -> SessionState] /\ busy \in 0 .. Busy /\ talked \in 0 .. Busy
        /\ early = FALSE /\ \A c \in Sessions : SessionSound(session[c])
    BY DEF RtspInv, WorldSound, Worlds, World
  <2>2. TypeOK
    <3>1. ASSUME NEW c \in Sessions
          PROVE  LET s == session[c]
                 IN /\ {s.live, s.alive, s.playing, s.pump, s.limited, s.drainTimer, s.deaf,
                        s.bye} \subseteq BOOLEAN
                    /\ {s.layout, s.tracks, s.flowing} \subseteq SUBSET {"video", "talk"}
                    /\ s.unread \in Seq(Request) /\ s.quiet \in 0..Timeout + 1
                    /\ s.playing => s.tracks # {}
                    /\ ~s.live => s = Gone
      <4>1. session[c] \in SessionState /\ SessionSound(session[c])
        BY <2>1
      <4>2. QED
        BY <4>1 DEF SessionState, SessionSound, Tracks
    <3>2. QED
      BY <2>1, <3>1 DEF TypeOK, RtspInv
  <2>3. DrainOffIsNormal
    BY DEF DrainOffIsNormal, RtspInv, Normal
  <2>4. QuietUnlessPlaying
    BY <2>1 DEF QuietUnlessPlaying, SessionSound
  <2>5. QED
    BY <2>1, <2>2, <2>3, <2>4 DEF SessionsConsistent, BusyAfterTalk, RtspInv
<1>4. QED
  BY <1>1, <1>2, <1>3, PTL DEF Spec

\* With rtsp.max_sessions on nobody gets a first track above the limit, in whatever
\* order sessions describe, set up, end, time out or have their waiting requests
\* handled all at once.
THEOREM SlotsStayWithin == Spec => SlotLimit
<1>1. Init => RtspInv
  BY RtspStarts
<1>2. RtspInv /\ [Next]_vars => RtspInv'
  <2>1. ASSUME RtspInv, UNCHANGED vars PROVE RtspInv'
    <3>1. World' = World /\ quirks' = quirks /\ listening' = listening
      BY <2>1 DEF vars, World
    <3>2. QED
      BY <2>1, <3>1, InSessions, InvFromWorld DEF RtspInv
  <2>2. QED
    BY <2>1, RtspStep
<1>3. RtspInv /\ [Next]_vars
        => [("max" \in quirks' /\ ~(Holders' \subseteq Holders)) => Cardinality(Holders') <= Slots]_vars
  BY RtspStep DEF SlotStep
<1>4. QED
  BY <1>1, <1>2, <1>3, PTL DEF Spec, SlotLimit

-----------------------------------------------------------------------------

(* Talkback.                                                               *)
HIDE RtspServerAssumption

\* Sequence numbers go round.
LEMMA Remainder ==
  ASSUME NEW S \in Nat \ {0}, NEW x \in Int
  PROVE  x % S \in 0 .. S - 1 /\ x \div S \in Int /\ x = S * (x \div S) + (x % S)
<1>1. x % S \in 0 .. S - 1
  OBVIOUS
<1>2. x \div S \in Int
  OBVIOUS
<1>3. (x % S) = x - S * (x \div S)
  OBVIOUS
<1> DEFINE r == x % S  p == S * (x \div S)
<1>4. r \in Int /\ p \in Int /\ r = x - p
  BY <1>1, <1>2, <1>3
<1> HIDE DEF r, p
<1>5. x = p + r
  BY <1>4
<1>6. x = S * (x \div S) + (x % S)
  BY <1>5 DEF p, r
<1>7. QED
  BY <1>1, <1>2, <1>6

LEMMA SameRemainder ==
  ASSUME NEW S \in Nat \ {0}, NEW q \in Int, NEW k \in Int, NEW a \in 0 .. S - 1, NEW b \in 0 .. S - 1,
         S * q + a = S * k + b
  PROVE  a = b
<1>1. CASE q = k
  BY <1>1
<1>2. CASE q >= k + 1
  <2>1. S * q >= S * (k + 1)
    BY <1>2
  <2>2. S * (k + 1) = S * k + S
    OBVIOUS
  <2>3. S * q \in Int /\ S * k \in Int
    OBVIOUS
  <2>4. QED
    BY <2>1, <2>2, <2>3
<1>3. CASE k >= q + 1
  <2>1. S * k >= S * (q + 1)
    BY <1>3
  <2>2. S * (q + 1) = S * q + S
    OBVIOUS
  <2>3. S * q \in Int /\ S * k \in Int
    OBVIOUS
  <2>4. QED
    BY <2>1, <2>2, <2>3
<1>4. QED
  BY <1>1, <1>2, <1>3

LEMMA RemainderIs ==
  ASSUME NEW S \in Nat \ {0}, NEW x, NEW k \in Int, NEW g \in 0 .. S - 1, x = S * k + g
  PROVE  x % S = g
<1>1. x \in Int
  OBVIOUS
<1>2. x % S \in 0 .. S - 1 /\ x \div S \in Int /\ x = S * (x \div S) + (x % S)
  BY <1>1, Remainder
<1> DEFINE q == x \div S  r == x % S
<1>3. q \in Int /\ r \in 0 .. S - 1 /\ S * q + r = S * k + g
  BY <1>2
<1> HIDE DEF q, r
<1>4. r = g
  BY <1>3, SameRemainder
<1>5. QED
  BY <1>4 DEF r

\* The gap between two numbers is the gap between the packets, when it is small enough.
LEMMA GapOfPackets ==
  ASSUME NEW S \in Nat \ {0}, NEW u \in Int, NEW v \in Int, NEW g \in 0 .. S - 1, u = v + 1 + g
  PROVE  ((u % S) - (((v % S) + 1) % S)) % S = g
<1> DEFINE a == u % S  b == v % S  e == (b + 1) % S
           p == u \div S  q == v \div S  t == (b + 1) \div S
<1>1. a \in Int /\ p \in Int /\ u = S * p + a
  BY Remainder
<1>2. b \in Int /\ q \in Int /\ v = S * q + b
  BY Remainder
<1>3. e \in Int /\ t \in Int /\ b + 1 = S * t + e
  <2>1. b + 1 \in Int
    BY <1>2
  <2> DEFINE c == b + 1
  <2>2. c \in Int
    BY <2>1
  <2> HIDE DEF b, c
  <2>3. (c % S) \in 0 .. S - 1 /\ c \div S \in Int /\ c = S * (c \div S) + (c % S)
    BY <2>2, Remainder
  <2>4. QED
    BY <2>3 DEF c
<1> HIDE DEF a, b, e, p, q, t
<1> DEFINE k == q + t - p
<1>4. k \in Int
  BY <1>1, <1>2, <1>3
<1>5. S * k = S * q + S * t - S * p
  BY <1>1, <1>2, <1>3
<1>6. S * p \in Int /\ S * q \in Int /\ S * t \in Int
  BY <1>1, <1>2, <1>3
<1> DEFINE P == S * p  Q == S * q  T == S * t  K == S * k
<1>7. /\ u = P + a /\ v = Q + b /\ b + 1 = T + e /\ K = Q + T - P
      /\ P \in Int /\ Q \in Int /\ T \in Int
  BY <1>1, <1>2, <1>3, <1>5, <1>6
<1> HIDE DEF P, Q, T, K, k
<1>8. a - e = K + g
  BY <1>1, <1>2, <1>3, <1>7
<1>9. a - e = S * k + g
  BY <1>8 DEF K
<1>10. (a - e) % S = g
  BY <1>4, <1>9, RemainderIs
<1>11. QED
  BY <1>10 DEF a, e, b

-----------------------------------------------------------------------------
Once(s) == \A i, j \in 1 .. Len(s) : s[i] = s[j] => i = j
In(c, s) == \E i \in 1 .. Len(s) : s[i] = c
Levels == {Silence, Sound}
Receivers ==
  [made : BOOLEAN, have : BOOLEAN, expected : Int, muted : BOOLEAN, spoken : BOOLEAN,
   recent : BOOLEAN, dropped : Nat, level : Levels]
Tapes == [open : BOOLEAN, data : Nat, header : Nat, heard : Nat, warned : BOOLEAN]
Arrivals ==
  [first : Nat, newest : Nat, came : SUBSET Nat, rising : BOOLEAN, leapt : BOOLEAN]
Tabs ==
  [items : Seq(Talkers), chosen : Talkers \cup {NoTalker}, wired : Talkers \cup {NoTalker},
   meter : Levels, drops : Nat, stops : BOOLEAN]

\* A list of sessions, each there once; the sessions of all receivers are in it.
SessionsApart(ss) == ss \in Seq(Talkers) /\ Once(ss)
Attended(ss, rs) ==
  rs \in [Talkers -> Receivers] /\ \A c \in Talkers : rs[c].made => In(c, ss)

\* Of the packets up to the newest, those that did not come.
Absent(a) ==
  {n \in a.first .. a.first + MaxFed * SeqRange : n \notin a.came /\ \E k \in a.came : n < k}

\* One receiver and what came of its client's packets, the k-th of all by now: what
\* is expected follows the newest packet, and what was dropped is what is missing.
Counted(r, a, k) ==
  IF a.came = {} THEN ~r.have /\ r.dropped = 0
  ELSE /\ r.have /\ a.first \in a.came /\ a.newest \in a.came
       /\ r.expected = (((StartSeq + a.newest) % SeqRange) + 1) % SeqRange
       /\ ~a.leapt => r.dropped >= Cardinality(Absent(a))
       /\ ~a.leapt /\ a.rising =>
            /\ r.dropped = Cardinality(Absent(a))
            /\ \A n \in a.came : n <= a.newest
            /\ a.first <= a.newest /\ a.newest <= a.first + k * SeqRange
Accounts(rs, as, k) ==
  /\ as \in [Talkers -> Arrivals]
  /\ \A c \in Talkers : rs[c].made => Counted(rs[c], as[c], k)
  /\ \A c \in Talkers : rs[c].muted => rs[c].level = Silence

\* A recording that runs holds all that was heard.
TapeOk(t) ==
  /\ t.open => t.data = t.heard
  /\ ~t.open => (t.header = t.data /\ t.data = t.heard) \/ t.warned
Taped(ts) == ts \in [Talkers -> Tapes] /\ \A c \in Talkers : TapeOk(ts[c])

\* The list of the tab, the one selected in it, and what is shown of that.
ItemsOk(t, rs) ==
  /\ t \in Tabs /\ Once(t.items)
  /\ \A i \in 1 .. Len(t.items) : rs[t.items[i]].made
  /\ IF Len(t.items) = 0 THEN t.chosen = NoTalker ELSE In(t.chosen, t.items)
  /\ t.wired = t.chosen
Complete(t, rs) == \A c \in Talkers : rs[c].made /\ rs[c].spoken => In(c, t.items)
Shows(t, rs, ts) ==
  IF t.chosen = NoTalker THEN t.meter = Silence /\ t.drops = 0 /\ ~t.stops
  ELSE /\ t.meter = rs[t.chosen].level
       /\ t.drops = rs[t.chosen].dropped
       /\ t.stops = ts[t.chosen].open
TabOk(t, rs, ts) == ItemsOk(t, rs) /\ Complete(t, rs) /\ Shows(t, rs, ts)

TalkInv ==
  /\ SessionsApart(joined) /\ Attended(joined, receiver) /\ Taped(tape)
  /\ Accounts(receiver, sent, fed) /\ TabOk(tab, receiver, tape)
  /\ asked \in Talkers \cup {NoTalker, Destroyed} /\ fed \in 0 .. MaxFed

USE TalkbackAssumption

-----------------------------------------------------------------------------
\* Lists.
LEMMA OnceCounts ==
  ASSUME NEW s \in Seq(Talkers), Once(s)
  PROVE  /\ IsFiniteSet({s[i] : i \in 1 .. Len(s)})
         /\ Cardinality({s[i] : i \in 1 .. Len(s)}) = Len(s)
<1> DEFINE f == [i \in 1 .. Len(s) |-> s[i]]
           A == {s[i] : i \in 1 .. Len(s)}
<1>1. Len(s) \in Nat
  OBVIOUS
<1>2. f \in Bijection(1 .. Len(s), A)
  <2>1. f \in [1 .. Len(s) -> A]
    OBVIOUS
  <2>2. \A i, j \in 1 .. Len(s) : f[i] = f[j] => i = j
    BY DEF Once
  <2>3. \A n \in A : \E i \in 1 .. Len(s) : f[i] = n
    OBVIOUS
  <2>4. QED
    BY <2>1, <2>2, <2>3 DEF Bijection, Injection, Surjection, IsInjective
<1>3. ExistsBijection(1 .. Len(s), A)
  BY <1>2 DEF ExistsBijection
<1> HIDE DEF A, f
<1>4. IsFiniteSet(A) /\ Cardinality(A) = Len(s)
  BY <1>1, <1>3, FS_CountingElements, FS_NatBijection
<1>5. QED
  BY <1>4 DEF A

\* A list inside another that is as long holds the same.
LEMMA SameLength ==
  ASSUME NEW s \in Seq(Talkers), NEW t \in Seq(Talkers), Once(s), Once(t), Len(s) = Len(t),
         \A i \in 1 .. Len(s) : In(s[i], t)
  PROVE  \A i \in 1 .. Len(t) : In(t[i], s)
<1> DEFINE A == {s[i] : i \in 1 .. Len(s)}  B == {t[i] : i \in 1 .. Len(t)}
<1>1. IsFiniteSet(A) /\ Cardinality(A) = Len(s) /\ IsFiniteSet(B) /\ Cardinality(B) = Len(t)
  BY OnceCounts
<1>2. A \in SUBSET B
  BY DEF In
<1> HIDE DEF A, B
<1>3. A = B
  BY <1>1, <1>2, FS_Subset
<1>4. \A i \in 1 .. Len(t) : t[i] \in A
  BY <1>3 DEF B
<1>5. QED
  BY <1>4 DEF A, In

\* The list the tab is filled with.
LEMMA ListedIs ==
  ASSUME NEW ss, NEW rs, SessionsApart(ss), Attended(ss, rs)
  PROVE  /\ Listed(ss, rs) \in Seq(Talkers) /\ Once(Listed(ss, rs))
         /\ \A i \in 1 .. Len(Listed(ss, rs)) : rs[Listed(ss, rs)[i]].made
         /\ \A c \in Talkers : rs[c].made => In(c, Listed(ss, rs))
<1> DEFINE S == {c \in Talkers : rs[c].made}
<1>1. ss \in Seq(Talkers) /\ \A i, j \in 1 .. Len(ss) : ss[i] = ss[j] => i = j
  BY DEF SessionsApart, Once
<1>2. \A c \in Talkers : rs[c].made => \E i \in 1 .. Len(ss) : ss[i] = c
  BY DEF Attended, In
<1>3. Listed(ss, rs) = Sifted(ss, S)
  BY DEF Listed
<1>4. \A c \in S : c \in Talkers /\ rs[c].made
  OBVIOUS
<1>5. \A c \in Talkers : rs[c].made => c \in S
  OBVIOUS
<1> HIDE DEF S
<1>6. Sifted(ss, S) \in Seq(Talkers)
  BY <1>1, SiftedType
<1>7. Once(Sifted(ss, S))
  BY <1>1, SiftedOnce DEF Once
<1>8. /\ \A i \in 1 .. Len(Sifted(ss, S)) : Sifted(ss, S)[i] \in S
      /\ \A k \in 1 .. Len(ss) :
           ss[k] \in S => \E i \in 1 .. Len(Sifted(ss, S)) : Sifted(ss, S)[i] = ss[k]
  BY <1>1, SiftedElements
<1>9. \A c \in Talkers : rs[c].made => In(c, Sifted(ss, S))
  BY <1>2, <1>5, <1>8 DEF In
<1>10. QED
  BY <1>3, <1>4, <1>6, <1>7, <1>8, <1>9

-----------------------------------------------------------------------------
\* The tab.  Filling it in leaves its list alone.
LEMMA FilledShows ==
  ASSUME NEW t, NEW rs, NEW ts, t \in Tabs, rs \in [Talkers -> Receivers],
         ts \in [Talkers -> Tapes]
  PROVE  /\ Filled(t, rs, ts) \in Tabs /\ Shows(Filled(t, rs, ts), rs, ts)
         /\ Filled(t, rs, ts).items = t.items /\ Filled(t, rs, ts).chosen = t.chosen
         /\ Filled(t, rs, ts).wired = t.wired
<1>1. CASE t.chosen = NoTalker
  <2>1. Filled(t, rs, ts) = [t EXCEPT !.meter = Silence, !.drops = 0, !.stops = FALSE]
    BY <1>1 DEF Filled
  <2> DEFINE f == Filled(t, rs, ts)
  <2> HIDE DEF f
  <2>2. f = [t EXCEPT !.meter = Silence, !.drops = 0, !.stops = FALSE]
    BY <2>1 DEF f
  <2>3. Silence \in Levels
    BY DEF Levels
  <2>4. /\ f \in Tabs /\ f.items = t.items /\ f.chosen = t.chosen /\ f.wired = t.wired
        /\ f.meter = Silence /\ f.drops = 0 /\ f.stops = FALSE
    BY <2>2, <2>3 DEF Tabs
  <2>5. Shows(f, rs, ts)
    BY <1>1, <2>4 DEF Shows
  <2>6. QED
    BY <2>4, <2>5 DEF f
<1>2. CASE t.chosen # NoTalker
  <2> DEFINE r == rs[t.chosen]  p == ts[t.chosen]
  <2>1. t.chosen \in Talkers
    BY <1>2 DEF Tabs
  <2>2. r.level \in Levels /\ r.dropped \in Nat /\ p.open \in BOOLEAN
    BY <2>1 DEF Receivers, Tapes
  <2>3. Filled(t, rs, ts) = [t EXCEPT !.meter = r.level, !.drops = r.dropped, !.stops = p.open]
    BY <1>2 DEF Filled
  <2> HIDE DEF r, p
  <2> DEFINE f == Filled(t, rs, ts)
  <2>4. /\ f \in Tabs /\ f.items = t.items /\ f.chosen = t.chosen /\ f.wired = t.wired
        /\ f.meter = r.level /\ f.drops = r.dropped /\ f.stops = p.open
    BY <2>2, <2>3 DEF Tabs
  <2> HIDE DEF f
  <2>5. Shows(f, rs, ts)
    BY <1>2, <2>4 DEF Shows, r, p
  <2>6. QED
    BY <2>4, <2>5 DEF f
<1>3. QED
  BY <1>1, <1>2

LEMMA FilledItems ==
  ASSUME NEW t, NEW rs, NEW ts, ItemsOk(t, rs), rs \in [Talkers -> Receivers],
         ts \in [Talkers -> Tapes]
  PROVE  /\ ItemsOk(Filled(t, rs, ts), rs) /\ Shows(Filled(t, rs, ts), rs, ts)
         /\ Filled(t, rs, ts).items = t.items
<1> DEFINE f == Filled(t, rs, ts)
<1>1. /\ f \in Tabs /\ Shows(f, rs, ts) /\ f.items = t.items /\ f.chosen = t.chosen
      /\ f.wired = t.wired
  BY FilledShows DEF ItemsOk
<1> HIDE DEF f
<1>2. ItemsOk(f, rs)
  BY <1>1 DEF ItemsOk
<1>3. QED
  BY <1>1, <1>2 DEF f

LEMMA ReloadedOk ==
  ASSUME NEW t, NEW ss, NEW rs, NEW ts, t \in Tabs, SessionsApart(ss), Attended(ss, rs),
         ts \in [Talkers -> Tapes]
  PROVE  TabOk(Reloaded(t, ss, rs, ts), rs, ts)
<1> DEFINE items == Listed(ss, rs)
           now == IF \E i \in DOMAIN items : items[i] = t.chosen THEN t.chosen
                  ELSE IF items = <<>> THEN NoTalker ELSE items[1]
           n == [t EXCEPT !.items = items, !.chosen = now, !.wired = now]
<1>1. /\ items \in Seq(Talkers) /\ Once(items)
      /\ \A i \in 1 .. Len(items) : rs[items[i]].made
      /\ \A c \in Talkers : rs[c].made => In(c, items)
  BY ListedIs
<1>2. Reloaded(t, ss, rs, ts) = Filled(n, rs, ts)
  BY DEF Reloaded
<1> HIDE DEF items
<1>3. Len(items) \in Nat /\ DOMAIN items = 1 .. Len(items)
  BY <1>1
<1>4. now \in Talkers \cup {NoTalker} /\ IF Len(items) = 0 THEN now = NoTalker ELSE In(now, items)
  <2>1. CASE \E i \in DOMAIN items : items[i] = t.chosen
    BY <1>1, <1>3, <2>1 DEF In
  <2>2. CASE ~\E i \in DOMAIN items : items[i] = t.chosen
    <3>1. CASE items = <<>>
      <4>1. Len(items) = 0
        BY <3>1
      <4>2. QED
        BY <2>2, <3>1, <4>1
    <3>2. CASE items # <<>>
      <4>1. Len(items) # 0
        BY <1>1, <3>2, EmptySeq
      <4>2. 1 \in 1 .. Len(items) /\ items[1] \in Talkers
        BY <1>1, <1>3, <4>1
      <4>3. now = items[1]
        BY <2>2, <3>2
      <4>4. QED
        BY <4>1, <4>2, <4>3 DEF In
    <3>3. QED
      BY <3>1, <3>2
  <2>3. QED
    BY <2>1, <2>2
<1> HIDE DEF now
<1>5. n \in Tabs /\ n.items = items /\ n.chosen = now /\ n.wired = now
  BY <1>1, <1>4 DEF Tabs
<1> HIDE DEF n
<1>6. ItemsOk(n, rs)
  BY <1>1, <1>4, <1>5 DEF ItemsOk
<1>7. rs \in [Talkers -> Receivers]
  BY DEF Attended
<1> DEFINE f == Filled(n, rs, ts)
<1>8. ItemsOk(f, rs) /\ Shows(f, rs, ts) /\ f.items = items
  BY <1>5, <1>6, <1>7, FilledItems
<1> HIDE DEF f
<1>9. Complete(f, rs)
  BY <1>1, <1>8 DEF Complete
<1>10. TabOk(f, rs, ts)
  BY <1>8, <1>9 DEF TabOk
<1>11. QED
  BY <1>2, <1>10 DEF f

\* A list that is as long as it should be is complete, for nobody who was in it has
\* stopped talking to a receiver.
LEMMA RefreshedOk ==
  ASSUME NEW t, NEW ss, NEW rs, NEW ts, ItemsOk(t, rs), SessionsApart(ss), Attended(ss, rs),
         ts \in [Talkers -> Tapes]
  PROVE  TabOk(Refreshed(t, ss, rs, ts), rs, ts)
<1>1. CASE Len(t.items) # Len(Listed(ss, rs))
  <2>1. t \in Tabs
    BY DEF ItemsOk
  <2>2. TabOk(Reloaded(t, ss, rs, ts), rs, ts)
    BY <2>1, ReloadedOk
  <2>3. QED
    BY <1>1, <2>2 DEF Refreshed
<1>2. CASE Len(t.items) = Len(Listed(ss, rs))
  <2> DEFINE L == Listed(ss, rs)  f == Filled(t, rs, ts)
  <2>1. /\ L \in Seq(Talkers) /\ Once(L)
        /\ \A c \in Talkers : rs[c].made => In(c, L)
    BY ListedIs
  <2>2. Len(t.items) = Len(L)
    BY <1>2
  <2>3. Refreshed(t, ss, rs, ts) = f
    BY <1>2 DEF Refreshed
  <2> HIDE DEF L
  <2>4. /\ t.items \in Seq(Talkers) /\ Once(t.items)
        /\ \A i \in 1 .. Len(t.items) : t.items[i] \in Talkers /\ rs[t.items[i]].made
    BY DEF ItemsOk, Tabs
  <2>5. \A i \in 1 .. Len(L) : In(L[i], t.items)
    BY <2>1, <2>2, <2>4, SameLength
  <2>6. rs \in [Talkers -> Receivers]
    BY DEF Attended
  <2>7. ItemsOk(f, rs) /\ Shows(f, rs, ts) /\ f.items = t.items
    BY <2>6, FilledItems
  <2> HIDE DEF f
  <2>8. Complete(f, rs)
    <3> SUFFICES ASSUME NEW c \in Talkers, rs[c].made PROVE In(c, t.items)
      BY <2>7 DEF Complete
    <3>1. PICK i \in 1 .. Len(L) : L[i] = c
      BY <2>1 DEF In
    <3>2. QED
      BY <2>5, <3>1
  <2>9. QED
    BY <2>3, <2>7, <2>8 DEF TabOk
<1>3. QED
  BY <1>1, <1>2

-----------------------------------------------------------------------------
\* Recordings.
LEMMA ClosedOk ==
  ASSUME NEW t \in Tapes, TapeOk(t), NEW patches \in BOOLEAN
  PROVE  Closed(t, patches) \in Tapes /\ TapeOk(Closed(t, patches)) /\ ~Closed(t, patches).open
<1>1. CASE ~t.open
  BY <1>1 DEF Closed
<1>2. CASE t.open
  <2> DEFINE c == Closed(t, patches)
  <2>1. c = [t EXCEPT !.open = FALSE, !.header = IF patches THEN t.data ELSE @,
                      !.warned = @ \/ ~patches]
    BY <1>2 DEF Closed
  <2> HIDE DEF c
  <2>2. /\ c \in Tapes /\ c.open = FALSE /\ c.data = t.data /\ c.heard = t.heard
        /\ c.header = IF patches THEN t.data ELSE t.header
        /\ c.warned = (t.warned \/ ~patches)
    BY <2>1 DEF Tapes
  <2>3. t.data = t.heard
    BY <1>2 DEF TapeOk
  <2>4. TapeOk(c)
    BY <2>2, <2>3 DEF TapeOk
  <2>5. QED
    BY <2>2, <2>4 DEF c
<1>3. QED
  BY <1>1, <1>2

-----------------------------------------------------------------------------
\* Packets.
LEMMA GoneFinite ==
  ASSUME NEW a \in Arrivals
  PROVE  IsFiniteSet(Absent(a)) /\ Cardinality(Absent(a)) \in Nat
<1> DEFINE top == a.first + MaxFed * SeqRange
<1>1. a.first \in Int /\ top \in Int
  <2>1. MaxFed * SeqRange \in Int
    OBVIOUS
  <2>2. QED
    BY <2>1 DEF Arrivals
<1>2. Absent(a) \in SUBSET (a.first .. top)
  BY DEF Absent
<1> HIDE DEF top
<1>3. IsFiniteSet(a.first .. top)
  BY <1>1, FS_Interval
<1>4. IsFiniteSet(Absent(a))
  BY <1>2, <1>3, FS_Subset
<1>5. QED
  BY <1>4, FS_CardinalityType

\* A packet that comes after others.
LEMMA ArrivalIs ==
  ASSUME NEW a \in Arrivals, a.came # {}, NEW n \in Nat
  PROVE  /\ Arrival(a, n) \in Arrivals
         /\ Arrival(a, n).first = a.first /\ Arrival(a, n).newest = n
         /\ Arrival(a, n).came = a.came \cup {n}
         /\ Arrival(a, n).rising = (a.rising /\ n > a.newest)
         /\ Arrival(a, n).leapt = (a.leapt \/ n - (a.newest + 1) >= SeqRange \div 2)
<1> DEFINE b == Arrival(a, n)
<1>1. b = [a EXCEPT !.newest = n, !.came = @ \union {n}, !.rising = @ /\ n > a.newest,
                    !.leapt = @ \/ n - (a.newest + 1) >= SeqRange \div 2]
  BY DEF Arrival
<1> HIDE DEF b
<1>2. b \in Arrivals
  <2>1. (a.rising /\ n > a.newest) \in BOOLEAN
    OBVIOUS
  <2>2. (a.leapt \/ n - (a.newest + 1) >= SeqRange \div 2) \in BOOLEAN
    OBVIOUS
  <2>3. a.came \cup {n} \in SUBSET Nat
    BY DEF Arrivals
  <2>4. QED
    BY <1>1, <2>1, <2>2, <2>3 DEF Arrivals
<1>3. /\ b.first = a.first /\ b.newest = n /\ b.came = a.came \cup {n}
      /\ b.rising = (a.rising /\ n > a.newest)
      /\ b.leapt = (a.leapt \/ n - (a.newest + 1) >= SeqRange \div 2)
  BY <1>1 DEF Arrivals
<1>4. QED
  BY <1>2, <1>3 DEF b

\* A late packet adds nothing to what is missing.
LEMMA LateAdds ==
  ASSUME NEW a \in Arrivals, a.newest \in a.came, NEW n \in Nat, n <= a.newest
  PROVE  Absent(Arrival(a, n)) \subseteq Absent(a)
<1> DEFINE b == Arrival(a, n)
<1>1. b.first = a.first /\ b.came = a.came \cup {n}
  BY ArrivalIs
<1>2. a.newest \in Nat /\ a.first \in Nat
  BY DEF Arrivals
<1> HIDE DEF b
<1>3. Absent(b) \subseteq Absent(a)
  <2> SUFFICES ASSUME NEW m \in Absent(b) PROVE m \in Absent(a)
    OBVIOUS
  <2>1. /\ m \in a.first .. a.first + MaxFed * SeqRange /\ m \notin a.came
        /\ \E k \in a.came \cup {n} : m < k
    BY <1>1 DEF Absent
  <2>2. PICK k \in a.came \cup {n} : m < k
    BY <2>1
  <2>3. m \in Int
    BY <1>2, <2>1
  <2>4. \E j \in a.came : m < j
    <3>1. CASE k \in a.came
      BY <2>2, <3>1
    <3>2. CASE k = n
      <4>1. m < a.newest
        BY <1>2, <2>2, <2>3, <3>2
      <4>2. QED
        BY <4>1
    <3>3. QED
      BY <3>1, <3>2
  <2>5. QED
    BY <2>1, <2>4 DEF Absent
<1>4. QED
  BY <1>3 DEF b

\* A packet ahead adds those it skips, and no others.
LEMMA AheadAdds ==
  ASSUME NEW a \in Arrivals, a.newest \in a.came, NEW n \in Nat, n > a.newest
  PROVE  /\ Absent(Arrival(a, n)) \subseteq Absent(a) \cup (a.newest + 1 .. n - 1)
         /\ /\ \A k \in a.came : k <= a.newest
            /\ a.first <= a.newest /\ n - 1 <= a.first + MaxFed * SeqRange
            => /\ Absent(Arrival(a, n)) = Absent(a) \cup (a.newest + 1 .. n - 1)
               /\ Absent(a) \cap (a.newest + 1 .. n - 1) = {}
<1> DEFINE b == Arrival(a, n)  skipped == a.newest + 1 .. n - 1
           top == a.first + MaxFed * SeqRange
<1>1. b.first = a.first /\ b.came = a.came \cup {n}
  BY ArrivalIs
<1>2. a.newest \in Nat /\ a.first \in Nat /\ a.came \subseteq Nat /\ top \in Int
  <2>1. MaxFed * SeqRange \in Int
    OBVIOUS
  <2>2. QED
    BY <2>1 DEF Arrivals
<1>3. /\ Absent(a) = {m \in a.first .. top : m \notin a.came /\ \E k \in a.came : m < k}
      /\ Absent(b) = {m \in a.first .. top :
                      m \notin a.came \cup {n} /\ \E k \in a.came \cup {n} : m < k}
  BY <1>1 DEF Absent
<1> HIDE DEF b, top
<1>4. Absent(b) \subseteq Absent(a) \cup skipped
  <2> SUFFICES ASSUME NEW m \in Absent(b), m \notin Absent(a) PROVE m \in skipped
    OBVIOUS
  <2>1. /\ m \in a.first .. top /\ m \notin a.came /\ m # n
        /\ \E k \in a.came \cup {n} : m < k
    BY <1>3
  <2>2. ~\E k \in a.came : m < k
    BY <1>3, <2>1
  <2>3. m < n /\ ~(m < a.newest) /\ m # a.newest
    BY <2>1, <2>2
  <2>4. m \in Int
    BY <1>2, <2>1
  <2>5. QED
    BY <1>2, <2>3, <2>4
<1>5. ASSUME \A k \in a.came : k <= a.newest, a.first <= a.newest, n - 1 <= top
      PROVE  Absent(b) = Absent(a) \cup skipped /\ Absent(a) \cap skipped = {}
  <2>1. ASSUME NEW m \in skipped PROVE m \in Absent(b) /\ m \notin Absent(a)
    <3>1. m \in Int /\ a.newest < m /\ m < n
      BY <1>2, <2>1
    <3>2. m \in a.first .. top
      BY <1>2, <1>5, <3>1
    <3>3. \A k \in a.came : k < m
      BY <1>2, <1>5, <3>1
    <3>4. m \notin a.came /\ ~\E k \in a.came : m < k
      <4>1. \A k \in a.came : k \in Nat /\ k < m
        BY <1>2, <3>3
      <4>2. QED
        BY <3>1, <4>1
    <3>5. QED
      BY <1>3, <3>1, <3>2, <3>4
  <2>2. ASSUME NEW m \in Absent(a) PROVE m \in Absent(b)
    <3>1. m \in a.first .. top /\ m \notin a.came /\ \E k \in a.came : m < k
      BY <1>3, <2>2
    <3>2. PICK k \in a.came : m < k
      BY <3>1
    <3>3. m \in Int /\ k \in Nat /\ k <= a.newest
      BY <1>2, <1>5, <3>1
    <3>4. m < n
      BY <1>2, <3>2, <3>3
    <3>5. m # n
      BY <3>3, <3>4
    <3>6. QED
      BY <1>3, <3>1, <3>5
  <2>3. QED
    BY <1>4, <2>1, <2>2
<1>6. QED
  BY <1>4, <1>5 DEF b, top

\* The receiver after a packet.
LEMMA TakenIs ==
  ASSUME NEW r \in Receivers, NEW seq \in Int, NEW marker \in BOOLEAN, Gap(r, seq) \in Nat
  PROVE  /\ Taken(r, seq, marker) \in Receivers /\ Taken(r, seq, marker).made = r.made
         /\ Taken(r, seq, marker).have /\ Taken(r, seq, marker).expected = (seq + 1) % SeqRange
         /\ Taken(r, seq, marker).dropped = r.dropped + Gap(r, seq)
         /\ Taken(r, seq, marker).muted => Taken(r, seq, marker).level = Silence
<1> DEFINE q == Taken(r, seq, marker)  m == Muted(r, marker)  g == Gap(r, seq)
           e == (seq + 1) % SeqRange
<1>1. q = [r EXCEPT !.have = TRUE, !.expected = e, !.dropped = @ + g, !.muted = m,
                    !.spoken = TRUE, !.recent = TRUE,
                    !.level = IF m THEN Silence ELSE Sound]
  BY DEF Taken
<1>2. m \in BOOLEAN
  BY DEF Muted
<1>3. e \in Int /\ g \in Nat
  OBVIOUS
<1> HIDE DEF q, m, g, e
<1>4. (IF m THEN Silence ELSE Sound) \in Levels
  BY DEF Levels
<1>5. r.dropped + g \in Nat
  BY <1>3 DEF Receivers
<1>6. q \in Receivers
  BY <1>1, <1>2, <1>3, <1>4, <1>5 DEF Receivers
<1>7. /\ q.made = r.made /\ q.have = TRUE /\ q.expected = e /\ q.dropped = r.dropped + g
      /\ q.muted = m /\ q.level = IF m THEN Silence ELSE Sound
  BY <1>1 DEF Receivers
<1>8. q.muted => q.level = Silence
  BY <1>7
<1>9. QED
  BY <1>6, <1>7, <1>8 DEF q, g, e

\* What the gap is worth: nothing before the first packet, and the packets skipped by
\* one that is less than half of the numbers ahead.
LEMMA GapIs ==
  ASSUME NEW r \in Receivers, NEW seq \in Int
  PROVE  Gap(r, seq) \in Nat /\ (~r.have => Gap(r, seq) = 0)
<1> DEFINE delta == (seq - r.expected) % SeqRange
<1>1. seq - r.expected \in Int
  BY DEF Receivers
<1>2. delta \in 0 .. SeqRange - 1
  <2> DEFINE d == seq - r.expected
  <2>1. d \in Int
    BY <1>1
  <2> HIDE DEF d
  <2>2. d % SeqRange \in 0 .. SeqRange - 1
    BY <2>1, Remainder
  <2>3. QED
    BY <2>2 DEF d
<1>3. Gap(r, seq) = IF r.have /\ delta < SeqRange \div 2 THEN delta ELSE 0
  BY DEF Gap
<1> HIDE DEF delta
<1>4. QED
  BY <1>2, <1>3

LEMMA Half ==
  ASSUME NEW S \in Nat \ {0} PROVE S \div 2 \in Nat /\ S \div 2 < S
OBVIOUS

LEMMA GapAhead ==
  ASSUME NEW r \in Receivers, r.have, NEW v \in Nat, NEW n \in Nat, n > v,
         r.expected = (((StartSeq + v) % SeqRange) + 1) % SeqRange,
         n - (v + 1) < SeqRange \div 2
  PROVE  Gap(r, (StartSeq + n) % SeqRange) = n - (v + 1)
<1> DEFINE g == n - (v + 1)  x == StartSeq + n  y == StartSeq + v
<1>1. g \in Nat /\ x \in Int /\ y \in Int /\ x = y + 1 + g
  OBVIOUS
<1>2. g \in 0 .. SeqRange - 1 /\ g < SeqRange \div 2
  <2>1. SeqRange \div 2 \in Nat /\ SeqRange \div 2 < SeqRange
    BY Half
  <2>2. g < SeqRange \div 2
    OBVIOUS
  <2> HIDE DEF g
  <2>3. QED
    BY <1>1, <2>1, <2>2
<1> HIDE DEF g, x, y
<1>3. ((x % SeqRange) - (((y % SeqRange) + 1) % SeqRange)) % SeqRange = g
  BY <1>1, <1>2, GapOfPackets
<1>4. ((x % SeqRange) - r.expected) % SeqRange = g
  BY <1>3 DEF y
<1>5. Gap(r, x % SeqRange) = g
  BY <1>2, <1>4 DEF Gap
<1>6. QED
  BY <1>5 DEF x, g

\* Losses are counted when a packet comes.
LEMMA CountedStep ==
  ASSUME NEW r \in Receivers, NEW a \in Arrivals, NEW k \in 0 .. MaxFed - 1, Counted(r, a, k),
         NEW n \in Nat, NEW marker \in BOOLEAN
  PROVE  /\ Taken(r, (StartSeq + n) % SeqRange, marker) \in Receivers
         /\ Taken(r, (StartSeq + n) % SeqRange, marker).made = r.made
         /\ Taken(r, (StartSeq + n) % SeqRange, marker).muted
              => Taken(r, (StartSeq + n) % SeqRange, marker).level = Silence
         /\ Arrival(a, n) \in Arrivals
         /\ Counted(Taken(r, (StartSeq + n) % SeqRange, marker), Arrival(a, n), k + 1)
<1> DEFINE seq == (StartSeq + n) % SeqRange
           q == Taken(r, seq, marker)  b == Arrival(a, n)  g == Gap(r, seq)
<1>1. seq \in Int
  <2> DEFINE x == StartSeq + n
  <2>1. x \in Int
    OBVIOUS
  <2> HIDE DEF x
  <2>2. x % SeqRange \in Int
    BY <2>1, Remainder
  <2>3. QED
    BY <2>2 DEF x
<1>2. seq = (StartSeq + n) % SeqRange
  OBVIOUS
<1> HIDE DEF seq
<1>3. g \in Nat /\ (~r.have => g = 0)
  BY <1>1, GapIs
<1>4. /\ q \in Receivers /\ q.made = r.made /\ q.have /\ q.expected = (seq + 1) % SeqRange
      /\ q.dropped = r.dropped + g /\ (q.muted => q.level = Silence)
  BY <1>1, <1>3, TakenIs
<1>5. r.dropped \in Nat /\ k \in Nat /\ k + 1 \in Nat /\ k + 1 <= MaxFed
  BY DEF Receivers
<1>6. /\ k * SeqRange \in Nat /\ (k + 1) * SeqRange = k * SeqRange + SeqRange
      /\ (k + 1) * SeqRange <= MaxFed * SeqRange /\ MaxFed * SeqRange \in Nat
  <2>1. k * SeqRange \in Nat /\ MaxFed * SeqRange \in Nat
    BY <1>5
  <2>2. (k + 1) * SeqRange = k * SeqRange + SeqRange
    BY <1>5
  <2>3. (k + 1) * SeqRange <= MaxFed * SeqRange
    BY <1>5
  <2>4. QED
    BY <2>1, <2>2, <2>3
<1> HIDE DEF q, g, b
<1>7. CASE a.came = {}
  <2>1. /\ b \in Arrivals /\ b.first = n /\ b.newest = n /\ b.came = {n}
        /\ b.rising = TRUE /\ b.leapt = FALSE
    <3>1. b = [first |-> n, newest |-> n, came |-> {n}, rising |-> TRUE, leapt |-> FALSE]
      BY <1>7 DEF b, Arrival
    <3>2. QED
      BY <3>1 DEF Arrivals
  <2>2. ~r.have /\ r.dropped = 0
    BY <1>7 DEF Counted
  <2>3. q.dropped = 0
    BY <1>3, <1>4, <2>2
  <2>4. Absent(b) = {}
    <3> SUFFICES ASSUME NEW m \in Absent(b) PROVE FALSE
      OBVIOUS
    <3>1. m \in n .. n + MaxFed * SeqRange /\ m # n /\ m < n
      BY <2>1 DEF Absent
    <3>2. QED
      BY <1>6, <3>1
  <2>5. Cardinality(Absent(b)) = 0
    BY <2>4, FS_EmptySet
  <2>6. n <= n + (k + 1) * SeqRange
    BY <1>6
  <2>7. Counted(q, b, k + 1)
    BY <1>2, <1>4, <2>1, <2>3, <2>5, <2>6 DEF Counted
  <2>8. QED
    BY <1>2, <1>4, <2>1, <2>7 DEF q, b
<1>8. CASE a.came # {}
  <2>1. /\ b \in Arrivals /\ b.first = a.first /\ b.newest = n /\ b.came = a.came \cup {n}
        /\ b.rising = (a.rising /\ n > a.newest)
        /\ b.leapt = (a.leapt \/ n - (a.newest + 1) >= SeqRange \div 2)
    BY <1>8, ArrivalIs DEF b
  <2>2. /\ r.have /\ a.first \in a.came /\ a.newest \in a.came
        /\ r.expected = (((StartSeq + a.newest) % SeqRange) + 1) % SeqRange
        /\ ~a.leapt => r.dropped >= Cardinality(Absent(a))
        /\ ~a.leapt /\ a.rising =>
             /\ r.dropped = Cardinality(Absent(a))
             /\ \A m \in a.came : m <= a.newest
             /\ a.first <= a.newest /\ a.newest <= a.first + k * SeqRange
    BY <1>8 DEF Counted
  <2>3. a.first \in Nat /\ a.newest \in Nat /\ a.came \subseteq Nat
    BY DEF Arrivals
  <2>4. /\ IsFiniteSet(Absent(a)) /\ Cardinality(Absent(a)) \in Nat
        /\ IsFiniteSet(Absent(b)) /\ Cardinality(Absent(b)) \in Nat
    BY <2>1, GoneFinite
  <2> DEFINE skipped == a.newest + 1 .. n - 1
  <2>5. ASSUME ~b.leapt, n > a.newest
        PROVE  /\ ~a.leapt /\ g = n - (a.newest + 1) /\ n <= a.newest + SeqRange
               /\ IsFiniteSet(skipped) /\ Cardinality(skipped) = g
    <3>1. SeqRange \div 2 \in Nat /\ SeqRange \div 2 < SeqRange
      BY Half
    <3>2. ~a.leapt /\ n - (a.newest + 1) < SeqRange \div 2
      <4>1. ~a.leapt /\ ~(n - (a.newest + 1) >= SeqRange \div 2)
        BY <2>1, <2>5
      <4> DEFINE h == SeqRange \div 2  g0 == n - (a.newest + 1)
      <4>2. h \in Int /\ g0 \in Int /\ ~(g0 >= h)
        BY <2>3, <3>1, <4>1
      <4> HIDE DEF h, g0
      <4>3. g0 < h
        BY <4>2
      <4>4. QED
        BY <4>1, <4>3 DEF h, g0
    <3>3. g = n - (a.newest + 1)
      BY <1>2, <2>2, <2>3, <2>5, <3>2, GapAhead DEF g
    <3>4. n <= a.newest + SeqRange
      BY <2>3, <3>1, <3>2
    <3>5. a.newest + 1 \in Int /\ n - 1 \in Int
      BY <2>3
    <3>6. IsFiniteSet(skipped)
      BY <3>5, FS_Interval
    <3>7. Cardinality(skipped) = IF a.newest + 1 > n - 1 THEN 0 ELSE (n - 1) - (a.newest + 1) + 1
      BY <3>5, FS_Interval
    <3>8. Cardinality(skipped) = g
      BY <2>3, <2>5, <3>3, <3>7
    <3>9. QED
      BY <3>2, <3>3, <3>4, <3>6, <3>8
  <2> HIDE DEF skipped
  <2>6. ~b.leapt => q.dropped >= Cardinality(Absent(b))
    <3> SUFFICES ASSUME ~b.leapt PROVE q.dropped >= Cardinality(Absent(b))
      OBVIOUS
    <3>1. r.dropped >= Cardinality(Absent(a))
      BY <2>1, <2>2
    <3>2. CASE n <= a.newest
      <4>1. Absent(b) \in SUBSET Absent(a)
        BY <2>2, <3>2, LateAdds DEF b
      <4>2. Cardinality(Absent(b)) <= Cardinality(Absent(a))
        BY <2>4, <4>1, FS_Subset
      <4>3. QED
        BY <1>3, <1>4, <1>5, <2>4, <3>1, <4>2
    <3>3. CASE n > a.newest
      <4>1. IsFiniteSet(skipped) /\ Cardinality(skipped) = g
        BY <2>5, <3>3
      <4>2. Absent(b) \in SUBSET (Absent(a) \cup skipped)
        BY <2>2, <3>3, AheadAdds DEF b, skipped
      <4>3. /\ IsFiniteSet(Absent(a) \cup skipped)
            /\ Cardinality(Absent(a) \cup skipped)
                 = Cardinality(Absent(a)) + Cardinality(skipped) - Cardinality(Absent(a) \cap skipped)
        BY <2>4, <4>1, FS_Union
      <4>4. Cardinality(Absent(a) \cap skipped) \in Nat
        <5>1. Absent(a) \cap skipped \in SUBSET Absent(a)
          OBVIOUS
        <5>2. IsFiniteSet(Absent(a) \cap skipped)
          BY <2>4, <5>1, FS_Subset
        <5>3. QED
          BY <5>2, FS_CardinalityType
      <4>5. Cardinality(Absent(b)) <= Cardinality(Absent(a) \cup skipped)
        BY <4>2, <4>3, FS_Subset
      <4>6. QED
        BY <1>3, <1>4, <1>5, <2>4, <3>1, <4>1, <4>3, <4>4, <4>5
    <3>4. QED
      BY <2>3, <3>2, <3>3
  <2>7. ~b.leapt /\ b.rising =>
          /\ q.dropped = Cardinality(Absent(b))
          /\ \A m \in b.came : m <= b.newest
          /\ b.first <= b.newest /\ b.newest <= b.first + (k + 1) * SeqRange
    <3> SUFFICES ASSUME ~b.leapt, b.rising
                 PROVE  /\ q.dropped = Cardinality(Absent(b))
                        /\ \A m \in b.came : m <= b.newest
                        /\ b.first <= b.newest /\ b.newest <= b.first + (k + 1) * SeqRange
      OBVIOUS
    <3>1. a.rising /\ n > a.newest
      BY <2>1
    <3>2. /\ ~a.leapt /\ g = n - (a.newest + 1) /\ n <= a.newest + SeqRange
          /\ IsFiniteSet(skipped) /\ Cardinality(skipped) = g
      BY <2>5, <3>1
    <3>3. /\ r.dropped = Cardinality(Absent(a)) /\ \A m \in a.came : m <= a.newest
          /\ a.first <= a.newest /\ a.newest <= a.first + k * SeqRange
      BY <2>2, <3>1, <3>2
    <3>4. n <= a.first + (k + 1) * SeqRange
      BY <1>6, <2>3, <3>2, <3>3
    <3>5. n - 1 <= a.first + MaxFed * SeqRange
      <4> DEFINE K == (k + 1) * SeqRange  M == MaxFed * SeqRange
      <4>1. K \in Int /\ M \in Int /\ K <= M /\ n <= a.first + K
        BY <1>6, <3>4
      <4> HIDE DEF K, M
      <4>2. n - 1 <= a.first + M
        BY <2>3, <4>1
      <4>3. QED
        BY <4>2 DEF M
    <3>6. Absent(b) = Absent(a) \cup skipped /\ Absent(a) \cap skipped = {}
      BY <2>2, <3>1, <3>3, <3>5, AheadAdds DEF b, skipped
    <3>7. Cardinality(Absent(a) \cup skipped)
            = Cardinality(Absent(a)) + Cardinality(skipped) - Cardinality(Absent(a) \cap skipped)
      BY <2>4, <3>2, FS_Union
    <3>8. Cardinality(Absent(a) \cap skipped) = 0
      BY <3>6, FS_EmptySet
    <3>9. q.dropped = Cardinality(Absent(b))
      BY <1>3, <1>4, <1>5, <2>4, <3>2, <3>3, <3>6, <3>7, <3>8
    <3>10. \A m \in b.came : m <= b.newest
      BY <2>1, <2>3, <3>1, <3>3
    <3>11. b.first <= b.newest
      BY <2>1, <2>3, <3>1, <3>3
    <3>12. QED
      BY <2>1, <3>4, <3>9, <3>10, <3>11
  <2>8. /\ b.came # {} /\ b.first \in b.came /\ b.newest \in b.came
        /\ q.expected = (((StartSeq + b.newest) % SeqRange) + 1) % SeqRange
    BY <1>2, <1>4, <2>1, <2>2
  <2>9. Counted(q, b, k + 1)
    BY <1>4, <2>6, <2>7, <2>8 DEF Counted
  <2>10. QED
    BY <1>2, <1>4, <2>1, <2>9 DEF q, b
<1>9. QED
  BY <1>7, <1>8

-----------------------------------------------------------------------------
\* One receiver changes, and the account of its client's packets.
LEMMA OneAttended ==
  ASSUME NEW ss, NEW rs, Attended(ss, rs), NEW c \in Talkers, NEW r \in Receivers,
         r.made => In(c, ss)
  PROVE  Attended(ss, [rs EXCEPT ![c] = r])
BY DEF Attended

LEMMA OneCounted ==
  ASSUME NEW rs, NEW as, NEW k, rs \in [Talkers -> Receivers], Accounts(rs, as, k),
         NEW c \in Talkers, NEW r \in Receivers, NEW a \in Arrivals,
         r.made => Counted(r, a, k), r.muted => r.level = Silence
  PROVE  Accounts([rs EXCEPT ![c] = r], [as EXCEPT ![c] = a], k)
<1> DEFINE rs2 == [rs EXCEPT ![c] = r]  as2 == [as EXCEPT ![c] = a]
<1>1. /\ as \in [Talkers -> Arrivals]
      /\ \A d \in Talkers : rs[d].made => Counted(rs[d], as[d], k)
      /\ \A d \in Talkers : rs[d].muted => rs[d].level = Silence
  BY DEF Accounts
<1>2. as2 \in [Talkers -> Arrivals]
  BY <1>1
<1>3. \A d \in Talkers : /\ rs2[d] = IF d = c THEN r ELSE rs[d]
                         /\ as2[d] = IF d = c THEN a ELSE as[d]
  BY <1>1
<1> HIDE DEF rs2, as2
<1>4. \A d \in Talkers : rs2[d].made => Counted(rs2[d], as2[d], k)
  BY <1>1, <1>3
<1>5. \A d \in Talkers : rs2[d].muted => rs2[d].level = Silence
  BY <1>1, <1>3
<1>6. Accounts(rs2, as2, k)
  BY <1>2, <1>4, <1>5 DEF Accounts
<1>7. QED
  BY <1>6 DEF rs2, as2

LEMMA OneTaped ==
  ASSUME NEW ts, Taped(ts), NEW c \in Talkers, NEW t \in Tapes, TapeOk(t)
  PROVE  Taped([ts EXCEPT ![c] = t])
BY DEF Taped

LEMMA OneListed ==
  ASSUME NEW t, NEW rs, ItemsOk(t, rs), rs \in [Talkers -> Receivers],
         NEW c \in Talkers, NEW r \in Receivers, rs[c].made => r.made
  PROVE  ItemsOk(t, [rs EXCEPT ![c] = r])
<1> DEFINE rs2 == [rs EXCEPT ![c] = r]
<1>1. \A d \in Talkers : rs[d].made => rs2[d].made
  OBVIOUS
<1> HIDE DEF rs2
<1>2. \A i \in 1 .. Len(t.items) : t.items[i] \in Talkers
  BY DEF ItemsOk, Tabs
<1>3. ItemsOk(t, rs2)
  BY <1>1, <1>2 DEF ItemsOk
<1>4. QED
  BY <1>3 DEF rs2

\* A packet more arrives in all.
LEMMA LaterCounted ==
  ASSUME NEW r, NEW a \in Arrivals, NEW k \in Nat, Counted(r, a, k)
  PROVE  Counted(r, a, k + 1)
<1>1. k * SeqRange \in Nat /\ (k + 1) * SeqRange = k * SeqRange + SeqRange
  OBVIOUS
<1>2. a.first \in Nat /\ a.newest \in Nat
  BY DEF Arrivals
<1> DEFINE K == k * SeqRange  L == (k + 1) * SeqRange
<1>3. K \in Nat /\ L = K + SeqRange
  BY <1>1
<1> HIDE DEF K, L
<1>4. a.newest <= a.first + K => a.newest <= a.first + L
  BY <1>2, <1>3
<1>5. a.newest <= a.first + k * SeqRange => a.newest <= a.first + (k + 1) * SeqRange
  BY <1>4 DEF K, L
<1>6. QED
  BY <1>5 DEF Counted

\* Records of the initial state.
LEMMA FirstRecords ==
  /\ Fresh \in Receivers /\ NoReceiver \in Receivers
  /\ Fresh.made /\ ~Fresh.have /\ ~Fresh.muted /\ ~Fresh.spoken /\ Fresh.dropped = 0
  /\ ~NoReceiver.made /\ ~NoReceiver.muted
  /\ NoTape \in Tapes /\ TapeOk(NoTape) /\ NoArrival \in Arrivals /\ NoArrival.came = {}
<1>1. Fresh \in Receivers /\ NoReceiver \in Receivers
  <2>1. Silence \in Levels
    BY DEF Levels
  <2>2. Fresh \in Receivers
    BY <2>1 DEF Fresh, Receivers
  <2>3. QED
    BY <2>2 DEF NoReceiver, Receivers
<1>2. /\ Fresh.made /\ ~Fresh.have /\ ~Fresh.muted /\ ~Fresh.spoken /\ Fresh.dropped = 0
      /\ ~NoReceiver.made /\ ~NoReceiver.muted
  BY DEF Fresh, NoReceiver
<1>3. NoTape \in Tapes /\ TapeOk(NoTape)
  BY DEF NoTape, Tapes, TapeOk
<1>4. NoArrival \in Arrivals /\ NoArrival.came = {}
  BY DEF NoArrival, Arrivals
<1>5. QED
  BY <1>1, <1>2, <1>3, <1>4

\* A receiver without packets has nothing to account for.
LEMMA NothingCounted ==
  ASSUME NEW k PROVE Counted(Fresh, NoArrival, k)
BY FirstRecords DEF Counted

LEMMA NobodyThere ==
  ASSUME NEW k \in Nat
  PROVE  /\ SessionsApart(<<>>) /\ Attended(<<>>, [c \in Talkers |-> NoReceiver])
         /\ Taped([c \in Talkers |-> NoTape])
         /\ Accounts([c \in Talkers |-> NoReceiver], [c \in Talkers |-> NoArrival], k)
         /\ TabOk(NoTab, [c \in Talkers |-> NoReceiver], [c \in Talkers |-> NoTape])
<1> DEFINE rs == [c \in Talkers |-> NoReceiver]  ts == [c \in Talkers |-> NoTape]
           as == [c \in Talkers |-> NoArrival]
<1>1. /\ rs \in [Talkers -> Receivers] /\ \A c \in Talkers : ~rs[c].made /\ ~rs[c].muted
      /\ ts \in [Talkers -> Tapes] /\ \A c \in Talkers : TapeOk(ts[c])
      /\ as \in [Talkers -> Arrivals]
  BY FirstRecords
<1> HIDE DEF rs, ts, as
<1>2. SessionsApart(<<>>)
  BY DEF SessionsApart, Once
<1>3. Attended(<<>>, rs)
  BY <1>1 DEF Attended
<1>4. Taped(ts)
  BY <1>1 DEF Taped
<1>5. Accounts(rs, as, k)
  BY <1>1 DEF Accounts
<1>6. TabOk(NoTab, rs, ts)
  <2>1. NoTab \in Tabs /\ NoTab.items = <<>> /\ Len(NoTab.items) = 0
    BY DEF NoTab, Tabs, Levels
  <2>2. /\ NoTab.chosen = NoTalker /\ NoTab.wired = NoTalker /\ NoTab.meter = Silence
        /\ NoTab.drops = 0 /\ ~NoTab.stops
    BY DEF NoTab
  <2>3. ItemsOk(NoTab, rs)
    BY <2>1, <2>2 DEF ItemsOk, Once
  <2>4. Complete(NoTab, rs)
    BY <1>1 DEF Complete
  <2>5. Shows(NoTab, rs, ts)
    BY <2>2 DEF Shows
  <2>6. QED
    BY <2>3, <2>4, <2>5 DEF TabOk
<1>7. QED
  BY <1>2, <1>3, <1>4, <1>5, <1>6 DEF rs, ts, as

LEMMA InitTalk == TalkInit => TalkInv
<1>1. 0 \in Nat /\ 0 \in 0 .. MaxFed
  OBVIOUS
<1>2. QED
  BY <1>1, NobodyThere DEF TalkInit, TalkInv

-----------------------------------------------------------------------------
LEMMA TalkParts ==
  ASSUME TalkInv
  PROVE  /\ SessionsApart(joined) /\ Attended(joined, receiver) /\ Taped(tape)
         /\ Accounts(receiver, sent, fed) /\ TabOk(tab, receiver, tape)
         /\ asked \in Talkers \cup {NoTalker, Destroyed} /\ fed \in 0 .. MaxFed
         /\ receiver \in [Talkers -> Receivers] /\ tape \in [Talkers -> Tapes]
         /\ sent \in [Talkers -> Arrivals]
         /\ tab \in Tabs /\ ItemsOk(tab, receiver) /\ joined \in Seq(Talkers)
         /\ DOMAIN joined = 1 .. Len(joined) /\ Len(joined) \in Nat
         /\ DOMAIN tab.items = 1 .. Len(tab.items) /\ Len(tab.items) \in Nat
         /\ tab.items \in Seq(Talkers)
<1>1. /\ SessionsApart(joined) /\ Attended(joined, receiver) /\ Taped(tape)
      /\ Accounts(receiver, sent, fed) /\ TabOk(tab, receiver, tape)
      /\ asked \in Talkers \cup {NoTalker, Destroyed} /\ fed \in 0 .. MaxFed
  BY DEF TalkInv
<1>2. /\ receiver \in [Talkers -> Receivers] /\ tape \in [Talkers -> Tapes]
      /\ sent \in [Talkers -> Arrivals] /\ joined \in Seq(Talkers)
  BY <1>1 DEF Attended, Taped, Accounts, SessionsApart
<1>3. ItemsOk(tab, receiver) /\ tab \in Tabs
  BY <1>1 DEF TabOk, ItemsOk
<1>4. tab.items \in Seq(Talkers)
  BY <1>3 DEF Tabs
<1>5. QED
  BY <1>1, <1>2, <1>3, <1>4

LEMMA TalkWhole ==
  ASSUME SessionsApart(joined'), Attended(joined', receiver'), Taped(tape'),
         Accounts(receiver', sent', fed'), TabOk(tab', receiver', tape'),
         asked' \in Talkers \cup {NoTalker, Destroyed}, fed' \in 0 .. MaxFed
  PROVE  TalkInv'
BY DEF TalkInv

LEMMA AcceptKeeps == ASSUME TalkInv, NEW c \in Talkers, Accept(c) PROVE TalkInv'
<1> USE TalkParts
<1>1. /\ \A i \in 1 .. Len(joined) : joined[i] # c
      /\ joined' = Append(joined, c) /\ tab' = Reloaded(tab, joined', receiver, tape)
      /\ UNCHANGED <<receiver, marking, tape, asked, fed, sent>>
  BY DEF Accept
<1> DEFINE q == Append(joined, c)
<1>2. /\ q \in Seq(Talkers) /\ Len(q) = Len(joined) + 1 /\ q[Len(joined) + 1] = c
      /\ \A i \in 1 .. Len(joined) : q[i] = joined[i] /\ i \in 1 .. Len(q)
  OBVIOUS
<1>3. joined' = q
  BY <1>1
<1> HIDE DEF q
<1>4. SessionsApart(q)
  <2>1. \A i, j \in 1 .. Len(joined) : joined[i] = joined[j] => i = j
    BY DEF SessionsApart, Once
  <2>2. ASSUME NEW i \in 1 .. Len(q), NEW j \in 1 .. Len(q), q[i] = q[j] PROVE i = j
    <3> DEFINE n == Len(joined)
    <3>1. n \in Nat /\ i \in 1 .. n + 1 /\ j \in 1 .. n + 1
      BY <1>2, <2>2
    <3>2. /\ \A k \in 1 .. n : q[k] = joined[k] /\ joined[k] # c
          /\ q[n + 1] = c
      BY <1>1, <1>2
    <3> HIDE DEF n
    <3>3. CASE i \in 1 .. n /\ j \in 1 .. n
      BY <2>1, <2>2, <3>2, <3>3 DEF n
    <3>4. CASE ~(i \in 1 .. n /\ j \in 1 .. n)
      BY <2>2, <3>1, <3>2, <3>4
    <3>5. QED
      BY <3>3, <3>4
  <2>3. Once(q)
    BY <2>2 DEF Once
  <2>4. QED
    BY <1>2, <2>3 DEF SessionsApart
<1>5. Attended(q, receiver)
  BY <1>2 DEF Attended, In
<1>6. TabOk(Reloaded(tab, q, receiver, tape), receiver, tape)
  BY <1>4, <1>5, ReloadedOk
<1>7. QED
  BY <1>1, <1>3, <1>4, <1>5, <1>6, TalkWhole

LEMMA SetUpKeeps == ASSUME TalkInv, NEW c \in Talkers, SetUpTalkback(c) PROVE TalkInv'
<1> USE TalkParts
<1>1. /\ In(c, joined) /\ ~receiver[c].made
      /\ receiver' = [receiver EXCEPT ![c] = Fresh]
      /\ sent' = [sent EXCEPT ![c] = NoArrival] /\ tape' = [tape EXCEPT ![c] = NoTape]
      /\ UNCHANGED <<joined, marking, tab, asked, fed>>
  BY DEF SetUpTalkback, In
<1>2. Attended(joined, receiver') /\ Taped(tape')
  BY <1>1, FirstRecords, OneAttended, OneTaped
<1>3. Accounts(receiver', sent', fed)
  BY <1>1, FirstRecords, NothingCounted, OneCounted
<1>4. ItemsOk(tab, receiver')
  BY <1>1, FirstRecords, OneListed
<1>5. \A d \in Talkers : d # c => receiver'[d] = receiver[d] /\ tape'[d] = tape[d]
  BY <1>1
<1>6. receiver'[c] = Fresh
  BY <1>1
<1>7. Complete(tab, receiver')
  BY <1>5, <1>6, FirstRecords DEF TabOk, Complete
<1>8. Shows(tab, receiver', tape')
  <2>1. tab.chosen # NoTalker => tab.chosen \in Talkers /\ tab.chosen # c
    <3> SUFFICES ASSUME tab.chosen # NoTalker PROVE tab.chosen \in Talkers /\ tab.chosen # c
      OBVIOUS
    <3>1. In(tab.chosen, tab.items)
      BY DEF ItemsOk
    <3>2. PICK i \in 1 .. Len(tab.items) : tab.items[i] = tab.chosen
      BY <3>1 DEF In
    <3>3. receiver[tab.chosen].made
      BY <3>2 DEF ItemsOk
    <3>4. QED
      BY <1>1, <3>2, <3>3
  <2>2. Shows(tab, receiver, tape)
    BY DEF TabOk
  <2>3. QED
    BY <1>5, <2>1, <2>2 DEF Shows
<1>9. TabOk(tab, receiver', tape')
  BY <1>4, <1>7, <1>8 DEF TabOk
<1>10. QED
  BY <1>1, <1>2, <1>3, <1>9, TalkWhole

LEMMA OthersStay ==
  ASSUME NEW ss \in Seq(Talkers), NEW c
  PROVE  \A d \in Talkers : d # c /\ In(d, ss) => In(d, Sifted(ss, Talkers \ {c}))
<1> DEFINE S == Talkers \ {c}  q == Sifted(ss, S)
<1>1. \A d \in Talkers : d # c => d \in S
  OBVIOUS
<1> HIDE DEF S
<1>2. \A k \in 1 .. Len(ss) : ss[k] \in S => \E i \in 1 .. Len(q) : q[i] = ss[k]
  BY SiftedElements
<1> HIDE DEF q
<1>3. \A d \in Talkers : d # c /\ In(d, ss) => In(d, q)
  BY <1>1, <1>2 DEF In
<1>4. QED
  BY <1>3 DEF q, S

LEMMA SessionEndsKeeps ==
  ASSUME TalkInv, NEW c \in Talkers, NEW patches \in BOOLEAN, SessionEnds(c, patches)
  PROVE  TalkInv'
<1> USE TalkParts
<1> DEFINE q == Sifted(joined, Talkers \ {c})
           rs == [receiver EXCEPT ![c] = NoReceiver]
           ts == [tape EXCEPT ![c] = Closed(tape[c], patches)]
<1>1. /\ joined' = q /\ receiver' = rs /\ tape' = ts
      /\ tab' = Reloaded(tab, joined', receiver', tape')
      /\ asked' = IF asked = c THEN Destroyed ELSE asked
      /\ UNCHANGED <<marking, fed, sent>>
  BY DEF SessionEnds
<1>2. /\ q \in Seq(Talkers) /\ Once(q)
      /\ \A d \in Talkers : d # c /\ In(d, joined) => In(d, q)
  <2>1. q \in Seq(Talkers)
    BY SiftedType
  <2>2. \A i, j \in 1 .. Len(joined) : joined[i] = joined[j] => i = j
    BY DEF SessionsApart, Once
  <2>3. Once(q)
    BY <2>2, SiftedOnce DEF Once
  <2>4. QED
    BY <2>1, <2>3, OthersStay
<1>3. SessionsApart(q)
  BY <1>2 DEF SessionsApart
<1> HIDE DEF q
<1>4. rs \in [Talkers -> Receivers] /\ \A d \in Talkers : rs[d].made => d # c /\ receiver[d].made
  BY FirstRecords
<1>5. Attended(q, rs)
  BY <1>2, <1>4 DEF Attended
<1>6. sent = [sent EXCEPT ![c] = sent[c]] /\ sent[c] \in Arrivals
  OBVIOUS
<1>7. Accounts(rs, [sent EXCEPT ![c] = sent[c]], fed)
  BY <1>6, FirstRecords, OneCounted
<1>8. Taped(ts)
  <2>1. tape[c] \in Tapes /\ TapeOk(tape[c])
    BY DEF Taped
  <2>2. Closed(tape[c], patches) \in Tapes /\ TapeOk(Closed(tape[c], patches))
    BY <2>1, ClosedOk
  <2>3. QED
    BY <2>2, OneTaped
<1> HIDE DEF rs, ts
<1>9. TabOk(Reloaded(tab, q, rs, ts), rs, ts)
  <2>1. ts \in [Talkers -> Tapes]
    BY <1>8 DEF Taped
  <2>2. QED
    BY <1>3, <1>5, <2>1, ReloadedOk
<1>10. QED
  BY <1>1, <1>3, <1>5, <1>6, <1>7, <1>8, <1>9, TalkWhole

LEMMA MeteredOk ==
  ASSUME NEW t, NEW rs, ItemsOk(t, rs), NEW c, NEW level \in Levels
  PROVE  ItemsOk(Metered(t, c, level), rs)
<1>1. CASE t.wired = c
  <2> DEFINE m == Metered(t, c, level)
  <2>1. m = [t EXCEPT !.meter = level]
    BY <1>1 DEF Metered
  <2> HIDE DEF m
  <2>2. t \in Tabs
    BY DEF ItemsOk
  <2>3. m \in Tabs /\ m.items = t.items /\ m.chosen = t.chosen /\ m.wired = t.wired
    BY <2>1, <2>2 DEF Tabs
  <2>4. ItemsOk(m, rs)
    BY <2>3 DEF ItemsOk
  <2>5. QED
    BY <2>4 DEF m
<1>2. CASE t.wired # c
  BY <1>2 DEF Metered
<1>3. QED
  BY <1>1, <1>2

\* What is recorded of one packet.
LEMMA TapeFed ==
  ASSUME NEW p \in Tapes, TapeOk(p), NEW muted \in BOOLEAN, NEW written \in BOOLEAN,
         NEW patches \in BOOLEAN, NEW t,
         t = IF ~(p.open /\ ~muted) THEN p
             ELSE IF written THEN [p EXCEPT !.data = @ + 1, !.heard = @ + 1]
             ELSE Closed([p EXCEPT !.heard = @ + 1, !.warned = TRUE], patches)
  PROVE  t \in Tapes /\ TapeOk(t)
<1>1. CASE ~(p.open /\ ~muted)
  BY <1>1
<1>2. CASE (p.open /\ ~muted) /\ written
  <2>1. t = [p EXCEPT !.data = @ + 1, !.heard = @ + 1]
    BY <1>2
  <2> DEFINE d == p.data + 1  h == p.heard + 1
  <2>2. d \in Nat /\ h \in Nat /\ t = [p EXCEPT !.data = d, !.heard = h]
    BY <2>1 DEF Tapes
  <2> HIDE DEF d, h
  <2>3. t \in Tapes /\ t.open = p.open /\ t.data = d /\ t.heard = h
    BY <2>2 DEF Tapes
  <2>4. d = h
    BY <1>2 DEF TapeOk, d, h
  <2>5. QED
    BY <1>2, <2>3, <2>4 DEF TapeOk
<1>3. CASE (p.open /\ ~muted) /\ ~written
  <2> DEFINE b == [p EXCEPT !.heard = @ + 1, !.warned = TRUE]
  <2>1. t = Closed(b, patches)
    BY <1>3
  <2>2. b \in Tapes /\ b.open /\ b.warned
    <3> DEFINE h == p.heard + 1
    <3>1. h \in Nat /\ b = [p EXCEPT !.heard = h, !.warned = TRUE]
      BY DEF Tapes
    <3> HIDE DEF h, b
    <3>2. b \in Tapes /\ b.open = p.open /\ b.warned = TRUE
      BY <3>1 DEF Tapes
    <3>3. QED
      BY <1>3, <3>2
  <2> HIDE DEF b
  <2>3. Closed(b, patches) = [b EXCEPT !.open = FALSE, !.header = IF patches THEN b.data ELSE @,
                                       !.warned = @ \/ ~patches]
    BY <2>2 DEF Closed
  <2>4. t \in Tapes /\ t.open = FALSE /\ t.warned = (b.warned \/ ~patches)
    BY <2>1, <2>2, <2>3 DEF Tapes
  <2>5. QED
    BY <2>2, <2>4 DEF TapeOk
<1>4. QED
  BY <1>1, <1>2, <1>3

LEMMA FeedKeeps ==
  ASSUME TalkInv, NEW c \in Talkers, NEW n \in Nat, NEW marker \in BOOLEAN,
         NEW written \in BOOLEAN, NEW patches \in BOOLEAN,
         Feed(c, n, marker, written, patches)
  PROVE  TalkInv'
<1> USE TalkParts
<1> DEFINE r == Taken(receiver[c], (StartSeq + n) % SeqRange, marker)
           t == IF ~(tape[c].open /\ ~r.muted) THEN tape[c]
                ELSE IF written THEN [tape[c] EXCEPT !.data = @ + 1, !.heard = @ + 1]
                ELSE Closed([tape[c] EXCEPT !.heard = @ + 1, !.warned = TRUE], patches)
           a == Arrival(sent[c], n)
           rs == [receiver EXCEPT ![c] = r]
           ts == [tape EXCEPT ![c] = t]
           as == [sent EXCEPT ![c] = a]
           m == Metered(tab, c, r.level)
<1>1. /\ receiver[c].made /\ fed < MaxFed /\ fed' = fed + 1
      /\ receiver' = rs /\ tape' = ts /\ sent' = as
      /\ tab' = Refreshed(m, joined, receiver', tape')
      /\ UNCHANGED <<joined, marking, asked>>
  BY DEF Feed
<1>2. fed \in 0 .. MaxFed - 1 /\ fed + 1 \in 0 .. MaxFed /\ fed \in Nat
  BY <1>1
<1>3. receiver[c] \in Receivers /\ sent[c] \in Arrivals /\ tape[c] \in Tapes /\ TapeOk(tape[c])
  BY DEF Taped
<1>4. Counted(receiver[c], sent[c], fed)
  BY <1>1 DEF Accounts
<1>5. /\ r \in Receivers /\ r.made = receiver[c].made /\ (r.muted => r.level = Silence)
      /\ a \in Arrivals /\ Counted(r, a, fed + 1)
  BY <1>2, <1>3, <1>4, CountedStep
<1> HIDE DEF r, a
<1>6. r.muted \in BOOLEAN /\ r.level \in Levels
  BY <1>5 DEF Receivers
<1>7. t \in Tapes /\ TapeOk(t)
  BY <1>3, <1>6, TapeFed
<1> HIDE DEF t
<1>8. Attended(joined, rs)
  <2>1. In(c, joined)
    BY <1>1 DEF Attended
  <2>2. QED
    BY <1>5, <2>1, OneAttended
<1>9. Taped(ts)
  BY <1>7, OneTaped
<1>10. Accounts(rs, as, fed + 1)
  <2>1. Accounts(receiver, sent, fed + 1)
    <3>1. \A d \in Talkers : receiver[d].made => Counted(receiver[d], sent[d], fed + 1)
      <4> SUFFICES ASSUME NEW d \in Talkers, receiver[d].made
                   PROVE  Counted(receiver[d], sent[d], fed + 1)
        OBVIOUS
      <4>1. sent[d] \in Arrivals /\ Counted(receiver[d], sent[d], fed)
        BY DEF Accounts
      <4>2. QED
        BY <1>2, <4>1, LaterCounted
    <3>2. QED
      BY <3>1 DEF Accounts
  <2>2. QED
    BY <1>5, <2>1, OneCounted
<1>11. ItemsOk(tab, rs)
  BY <1>1, <1>5, OneListed
<1>12. ItemsOk(m, rs)
  BY <1>6, <1>11, MeteredOk
<1> HIDE DEF rs, ts, as, m
<1>13. TabOk(Refreshed(m, joined, rs, ts), rs, ts)
  <2>1. ts \in [Talkers -> Tapes]
    BY <1>9 DEF Taped
  <2>2. QED
    BY <1>8, <1>12, <2>1, RefreshedOk
<1>14. QED
  BY <1>1, <1>2, <1>8, <1>9, <1>10, <1>13, TalkWhole

LEMMA FallsSilentKeeps == ASSUME TalkInv, FallsSilent PROVE TalkInv'
<1> USE TalkParts
<1> DEFINE rs == [c \in Talkers |-> [receiver[c] EXCEPT !.recent = FALSE]]
<1>1. receiver' = rs /\ UNCHANGED <<joined, marking, tape, tab, asked, fed, sent>>
  BY DEF FallsSilent
<1>2. rs \in [Talkers -> Receivers]
  BY DEF Receivers
<1>3. \A c \in Talkers :
        /\ rs[c].made = receiver[c].made /\ rs[c].have = receiver[c].have
        /\ rs[c].expected = receiver[c].expected /\ rs[c].dropped = receiver[c].dropped
        /\ rs[c].muted = receiver[c].muted /\ rs[c].level = receiver[c].level
        /\ rs[c].spoken = receiver[c].spoken
  BY DEF Receivers
<1> HIDE DEF rs
<1>4. Attended(joined, rs)
  BY <1>2, <1>3 DEF Attended
<1>5. Accounts(rs, sent, fed)
  <2>1. \A c \in Talkers : Counted(receiver[c], sent[c], fed) => Counted(rs[c], sent[c], fed)
    BY <1>3 DEF Counted
  <2>2. QED
    BY <1>3, <2>1 DEF Accounts
<1>6. ItemsOk(tab, rs)
  <2>1. \A i \in 1 .. Len(tab.items) : tab.items[i] \in Talkers
    OBVIOUS
  <2>2. QED
    BY <1>3, <2>1 DEF ItemsOk
<1>7. Complete(tab, rs)
  BY <1>3 DEF Complete, TabOk
<1>8. Shows(tab, rs, tape)
  <2>1. Shows(tab, receiver, tape) /\ tab.chosen \in Talkers \cup {NoTalker}
    BY DEF TabOk, Tabs
  <2>2. QED
    BY <1>3, <2>1 DEF Shows
<1>9. TabOk(tab, rs, tape)
  BY <1>6, <1>7, <1>8 DEF TabOk
<1>10. QED
  BY <1>1, <1>4, <1>5, <1>9, TalkWhole

\* What the user and the timers do changes the tab, and at most one receiver or tape.
LEMMA ViewKeeps ==
  ASSUME TalkInv,
         \/ PlayingChanges \/ SwitchMarking \/ RefreshTick \/ FileCancelled
         \/ UNCHANGED talkVars
  PROVE  TalkInv'
<1> USE TalkParts
<1>1. CASE PlayingChanges
  <2>1. /\ tab' = Reloaded(tab, joined, receiver, tape)
        /\ UNCHANGED <<joined, receiver, marking, tape, asked, fed, sent>>
    BY <1>1 DEF PlayingChanges
  <2>2. TabOk(tab', receiver, tape)
    BY <2>1, ReloadedOk
  <2>3. QED
    BY <2>1, <2>2, TalkWhole
<1>2. CASE RefreshTick
  <2>1. /\ tab' = Refreshed(tab, joined, receiver, tape)
        /\ UNCHANGED <<joined, receiver, marking, tape, asked, fed, sent>>
    BY <1>2 DEF RefreshTick
  <2>2. TabOk(tab', receiver, tape)
    BY <2>1, RefreshedOk
  <2>3. QED
    BY <2>1, <2>2, TalkWhole
<1>3. CASE SwitchMarking \/ UNCHANGED talkVars
  <2>1. UNCHANGED <<joined, receiver, tape, tab, asked, fed, sent>>
    BY <1>3 DEF SwitchMarking, talkVars
  <2>2. QED
    BY <2>1, TalkWhole
<1>4. CASE FileCancelled
  <2>1. /\ asked' = NoTalker
        /\ UNCHANGED <<joined, receiver, marking, tape, tab, fed, sent>>
    BY <1>4 DEF FileCancelled
  <2>2. QED
    BY <2>1, TalkWhole
<1>5. QED
  BY <1>1, <1>2, <1>3, <1>4

LEMMA ChooseKeeps == ASSUME TalkInv, NEW c \in Talkers, Choose(c) PROVE TalkInv'
<1> USE TalkParts
<1> DEFINE t == [tab EXCEPT !.chosen = c, !.wired = c]
<1>1. /\ \E i \in DOMAIN tab.items : tab.items[i] = c
      /\ tab' = Refreshed(t, joined, receiver, tape)
      /\ UNCHANGED <<joined, receiver, marking, tape, asked, fed, sent>>
  BY DEF Choose
<1>2. t \in Tabs /\ t.items = tab.items /\ t.chosen = c /\ t.wired = c
  BY DEF Tabs
<1> HIDE DEF t
<1>3. In(c, tab.items) /\ Len(tab.items) # 0
  BY <1>1 DEF In
<1>4. ItemsOk(t, receiver)
  BY <1>2, <1>3 DEF ItemsOk
<1>5. TabOk(tab', receiver, tape)
  BY <1>1, <1>4, RefreshedOk
<1>6. QED
  BY <1>1, <1>5, TalkWhole

\* The one that is selected in the tab has a receiver.
LEMMA ChosenIs ==
  ASSUME TalkInv, tab.chosen # NoTalker
  PROVE  tab.chosen \in Talkers /\ receiver[tab.chosen].made /\ In(tab.chosen, joined)
<1> USE TalkParts
<1>1. In(tab.chosen, tab.items)
  BY DEF ItemsOk
<1>2. PICK i \in 1 .. Len(tab.items) : tab.items[i] = tab.chosen
  BY <1>1 DEF In
<1>3. tab.chosen \in Talkers
  BY <1>2
<1>4. receiver[tab.chosen].made
  BY <1>2 DEF ItemsOk
<1>5. QED
  BY <1>3, <1>4 DEF Attended

LEMMA ResetKeeps == ASSUME TalkInv, ResetStats PROVE TalkInv'
<1> USE TalkParts
<1> DEFINE c == tab.chosen  t == [tab EXCEPT !.meter = Silence]
           rs == [receiver EXCEPT ![c] = Fresh]  as == [sent EXCEPT ![c] = NoArrival]
<1>1. /\ c # NoTalker /\ receiver' = rs /\ sent' = as
      /\ tab' = Refreshed(t, joined, receiver', tape)
      /\ UNCHANGED <<joined, marking, tape, asked, fed>>
  BY DEF ResetStats, Reset
<1>2. c \in Talkers /\ receiver[c].made /\ In(c, joined)
  BY <1>1, ChosenIs
<1> HIDE DEF c
<1>3. Attended(joined, rs)
  BY <1>2, FirstRecords, OneAttended
<1>4. Accounts(rs, as, fed)
  BY <1>2, FirstRecords, NothingCounted, OneCounted
<1>5. Silence \in Levels
  BY DEF Levels
<1>6. t \in Tabs /\ t.items = tab.items /\ t.chosen = tab.chosen /\ t.wired = tab.wired
  BY <1>5 DEF Tabs
<1> HIDE DEF t
<1>7. ItemsOk(t, receiver)
  BY <1>6 DEF ItemsOk
<1>8. ItemsOk(t, rs)
  BY <1>2, <1>7, FirstRecords, OneListed
<1> HIDE DEF rs, as
<1>9. TabOk(Refreshed(t, joined, rs, tape), rs, tape)
  BY <1>3, <1>8, RefreshedOk
<1>10. QED
  BY <1>1, <1>3, <1>4, <1>9, TalkWhole

\* A recording is started or stopped: the tab is refreshed with the new one.
LEMMA TapeKeeps ==
  ASSUME TalkInv, NEW c \in Talkers, NEW t \in Tapes, TapeOk(t),
         tape' = [tape EXCEPT ![c] = t], tab' = Refreshed(tab, joined, receiver, tape'),
         asked' \in Talkers \cup {NoTalker, Destroyed},
         UNCHANGED <<joined, receiver, fed, sent>>
  PROVE  TalkInv'
<1> USE TalkParts
<1> DEFINE ts == [tape EXCEPT ![c] = t]
<1>1. Taped(ts)
  BY OneTaped
<1>2. tape' = ts
  OBVIOUS
<1> HIDE DEF ts
<1>3. ts \in [Talkers -> Tapes]
  BY <1>1 DEF Taped
<1>4. TabOk(Refreshed(tab, joined, receiver, ts), receiver, ts)
  BY <1>3, RefreshedOk
<1>5. QED
  BY <1>1, <1>2, <1>4, TalkWhole

LEMMA RecordKeeps ==
  ASSUME TalkInv, NEW patches \in BOOLEAN, ClickRecord(patches) PROVE TalkInv'
<1> USE TalkParts
<1>1. tab.chosen # NoTalker /\ UNCHANGED <<joined, receiver, marking, fed, sent>>
  BY DEF ClickRecord
<1>2. tab.chosen \in Talkers
  BY <1>1, ChosenIs
<1>3. CASE tape[tab.chosen].open
  <2> DEFINE t == Closed(tape[tab.chosen], patches)
  <2>1. /\ tape' = [tape EXCEPT ![tab.chosen] = t]
        /\ tab' = Refreshed(tab, joined, receiver, tape') /\ asked' = asked
    BY <1>3 DEF ClickRecord
  <2>2. tape[tab.chosen] \in Tapes /\ TapeOk(tape[tab.chosen])
    BY <1>2 DEF Taped
  <2>3. t \in Tapes /\ TapeOk(t)
    BY <2>2, ClosedOk
  <2> HIDE DEF t
  <2>4. QED
    BY <1>1, <1>2, <2>1, <2>3, TapeKeeps
<1>4. CASE ~tape[tab.chosen].open
  <2>1. asked' = tab.chosen /\ UNCHANGED <<tape, tab>>
    BY <1>4 DEF ClickRecord
  <2>2. QED
    BY <1>1, <1>2, <2>1, TalkWhole
<1>5. QED
  BY <1>3, <1>4

LEMMA FileKeeps ==
  ASSUME TalkInv, NEW opens \in BOOLEAN, FileNamed(opens) PROVE TalkInv'
<1> USE TalkParts
<1> DEFINE t == IF opens THEN [NoTape EXCEPT !.open = TRUE] ELSE tape[asked]
<1>1. /\ asked \in Talkers /\ tape' = [tape EXCEPT ![asked] = t]
      /\ tab' = Refreshed(tab, joined, receiver, tape') /\ asked' = NoTalker
      /\ UNCHANGED <<joined, receiver, marking, fed, sent>>
  <2>1. asked \in Talkers /\ tape = [tape EXCEPT ![asked] = tape[asked]]
    BY DEF FileNamed
  <2>2. QED
    BY <2>1 DEF FileNamed
<1>2. t \in Tapes /\ TapeOk(t)
  <2>1. CASE opens
    BY <2>1 DEF NoTape, Tapes, TapeOk
  <2>2. CASE ~opens
    BY <1>1, <2>2 DEF Taped
  <2>3. QED
    BY <2>1, <2>2
<1> HIDE DEF t
<1>3. QED
  BY <1>1, <1>2, TapeKeeps

LEMMA NobodyKeeps == ASSUME TalkInv, FileForNobody PROVE TalkInv'
<1> USE TalkParts
<1>1. CASE asked' = NoTalker /\ UNCHANGED <<joined, receiver, marking, tape, tab, fed, sent>>
  BY <1>1, TalkWhole
<1>2. CASE /\ joined' = <<>> /\ marking' = marking /\ fed' = fed
           /\ receiver' = [c \in Talkers |-> NoReceiver]
           /\ tape' = [c \in Talkers |-> NoTape] /\ sent' = [c \in Talkers |-> NoArrival]
           /\ tab' = NoTab /\ asked' = NoTalker
  <2>1. fed \in Nat
    OBVIOUS
  <2>2. QED
    BY <1>2, <2>1, NobodyThere, TalkWhole
<1>3. QED
  BY <1>1, <1>2 DEF FileForNobody

LEMMA TalkStep == TalkInv /\ [TalkNext]_talkVars => TalkInv'
<1> SUFFICES ASSUME TalkInv, [TalkNext]_talkVars PROVE TalkInv'
  OBVIOUS
<1>1. ASSUME NEW c \in Talkers, Accept(c) \/ SetUpTalkback(c) \/ Choose(c) PROVE TalkInv'
  BY <1>1, AcceptKeeps, SetUpKeeps, ChooseKeeps
<1>2. ASSUME NEW c \in Talkers, NEW patches \in BOOLEAN, SessionEnds(c, patches) PROVE TalkInv'
  BY <1>2, SessionEndsKeeps
<1>3. ASSUME NEW c \in Talkers, NEW marker \in BOOLEAN, NEW written \in BOOLEAN,
             NEW patches \in BOOLEAN, NEW n \in Near(c), Feed(c, n, marker, written, patches)
      PROVE  TalkInv'
  <2>1. n \in Nat
    <3>1. sent[c].newest \in Nat /\ SeqRange \div 2 \in Nat
      <4>1. SeqRange \in Nat \ {0}
        OBVIOUS
      <4>2. SeqRange \div 2 \in Nat
        BY <4>1, Half
      <4>3. sent[c] \in Arrivals
        BY TalkParts
      <4>4. QED
        BY <4>2, <4>3 DEF Arrivals
    <3> DEFINE m == sent[c].newest  h == SeqRange \div 2
    <3>2. m \in Nat /\ h \in Nat
      BY <3>1
    <3>3. Near(c) = IF sent[c].came = {} THEN {1} ELSE IF c \notin OverUdp THEN {m + 1}
                    ELSE {k \in m - 1 .. m + 2 : k >= 0} \union {m + 1 + h}
      BY DEF Near
    <3> HIDE DEF m, h
    <3>4. Near(c) \subseteq Nat
      <4>1. {1} \subseteq Nat /\ {m + 1} \subseteq Nat /\ {m + 1 + h} \subseteq Nat
        BY <3>2
      <4>2. {k \in m - 1 .. m + 2 : k >= 0} \subseteq Nat
        BY <3>2
      <4>3. QED
        BY <3>3, <4>1, <4>2
    <3>5. QED
      BY <3>4
  <2>2. QED
    BY <1>3, <2>1, FeedKeeps
<1>4. CASE \/ PlayingChanges \/ SwitchMarking \/ RefreshTick \/ FileCancelled
           \/ UNCHANGED talkVars
  BY <1>4, ViewKeeps
<1>5. CASE FallsSilent \/ ResetStats \/ FileForNobody
  BY <1>5, FallsSilentKeeps, ResetKeeps, NobodyKeeps
<1>6. ASSUME NEW b \in BOOLEAN, ClickRecord(b) \/ FileNamed(b) PROVE TalkInv'
  BY <1>6, RecordKeeps, FileKeeps
<1>7. QED
  BY <1>1, <1>2, <1>3, <1>4, <1>5, <1>6 DEF TalkNext

-----------------------------------------------------------------------------
LEMMA TalkImplies == TalkInv => TalkTrue
<1> SUFFICES ASSUME TalkInv PROVE TalkTrue
  OBVIOUS
<1> USE TalkParts
<1>1. TalkTypeOK
  <2>1. \A c \in Following : In(c, joined)
    BY DEF Following, Attended
  <2>2. QED
    BY <2>1 DEF TalkTypeOK, In
<1>2. LossesCounted
  <2> SUFFICES ASSUME NEW c \in Following, ~sent[c].leapt
               PROVE  /\ receiver[c].dropped >= Cardinality(Absent(sent[c]))
                      /\ sent[c].rising => receiver[c].dropped = Cardinality(Absent(sent[c]))
    BY DEF LossesCounted, Absent
  <2>1. c \in Talkers /\ receiver[c].made
    BY DEF Following
  <2>2. Counted(receiver[c], sent[c], fed)
    BY <2>1 DEF Accounts
  <2>3. CASE sent[c].came = {}
    <3>1. receiver[c].dropped = 0
      BY <2>2, <2>3 DEF Counted
    <3>2. Absent(sent[c]) = {}
      BY <2>3 DEF Absent
    <3>3. Cardinality(Absent(sent[c])) = 0
      BY <3>2, FS_EmptySet
    <3>4. QED
      BY <3>1, <3>3
  <2>4. CASE sent[c].came # {}
    BY <2>2, <2>4 DEF Counted
  <2>5. QED
    BY <2>3, <2>4
<1>3. RecordingsWhole
  BY DEF RecordingsWhole, Taped, TapeOk
<1>4. TabFollows
  <2> DEFINE listed == {tab.items[i] : i \in DOMAIN tab.items}
  <2>1. \A c : c \in listed <=> In(c, tab.items)
    BY DEF In
  <2>2. listed = {} <=> Len(tab.items) = 0
    <3>1. Len(tab.items) \in Nat /\ DOMAIN tab.items = 1 .. Len(tab.items)
      OBVIOUS
    <3>2. ASSUME Len(tab.items) = 0 PROVE listed = {}
      BY <3>1, <3>2
    <3>3. ASSUME Len(tab.items) # 0 PROVE listed # {}
      <4>1. 1 \in 1 .. Len(tab.items)
        BY <3>1, <3>3
      <4>2. tab.items[1] \in listed
        BY <3>1, <4>1
      <4>3. QED
        BY <4>2
    <3>4. QED
      BY <3>2, <3>3
  <2>3. listed \subseteq Following
    BY DEF ItemsOk, Following
  <2> HIDE DEF listed
  <2>4. \A c \in Following : receiver[c].spoken => c \in listed
    BY <2>1 DEF TabOk, Complete, Following
  <2>5. IF listed = {} THEN tab.chosen = NoTalker ELSE tab.chosen \in listed
    BY <2>1, <2>2 DEF ItemsOk
  <2>6. tab.wired = tab.chosen
    BY DEF ItemsOk
  <2>7. Shows(tab, receiver, tape)
    BY DEF TabOk
  <2>8. QED
    BY <2>3, <2>4, <2>5, <2>6, <2>7 DEF TabFollows, Shows, listed
<1>5. \A c \in Following : receiver[c].muted => receiver[c].level = Silence
  BY DEF Following, Accounts
<1>6. QED
  BY <1>1, <1>2, <1>3, <1>4, <1>5 DEF TalkTrue

\* What talkback reports is what happened, for any clients, sequence numbers, losses and
\* failures of files: losses, recordings, mutes and the tab (RtpReceiver::feed,
\* stopRecordingInternal, TalkbackTab::reloadSessions and refresh).
THEOREM TalkStaysTrue == TalkSpec => []TalkTrue
<1>1. TalkInit => TalkInv
  BY InitTalk
<1>2. TalkInv /\ [TalkNext]_talkVars => TalkInv'
  BY TalkStep
<1>3. TalkInv => TalkTrue
  BY TalkImplies
<1>4. QED
  BY <1>1, <1>2, <1>3, PTL DEF TalkSpec
=============================================================================
