------------------------------ MODULE Talkback ------------------------------
(***************************************************************************)
(* The receiving side of talkback: what a camera makes of the audio that   *)
(* clients send it (src/src/rtsp/RtpReceiver.cpp) and the tab of the window *)
(* that follows one of these sessions (src/src/gui/tabs/TalkbackTab.cpp).   *)
(*                                                                         *)
(* A packet is its number among those its client sends; on the wire only   *)
(* its remainder by SeqRange travels.  Packets over UDP may be lost, late, *)
(* or come twice.  A level is 0 or 1; the counts that are only shown       *)
(* (packets, bytes, markers) are left out.                                 *)
(***************************************************************************)
EXTENDS Integers, FiniteSets, Sequences, Selection

CONSTANTS
  Talkers,    \* RTSP clients, at most one session each
  OverUdp,    \* those of them that talk over UDP
  SeqRange,   \* how many sequence numbers there are (2^16 in the code)
  StartSeq,   \* sequence number of a client's first packet
  MaxFed,     \* bound: packets that arrive in a behaviour
  NoTalker    \* none of them: no session, no receiver

ASSUME TalkbackAssumption ==
  /\ SeqRange \in Nat \ {0} /\ StartSeq \in Nat /\ MaxFed \in Nat
  /\ NoTalker \notin Talkers /\ OverUdp \subseteq Talkers

Silence == 0
Sound == 1
Destroyed == "destroyed"   \* a receiver that has been destroyed

VARIABLES
  joined,     \* RtspServer::Private::sessions, in order
  receiver,   \* the receivers of the sessions that have set up a talkback track
  marking,    \* talkback quirk "require marker" of the camera
  tape,       \* the last recording of each receiver
  tab,        \* the talkback tab
  asked,      \* the receiver a file dialog was opened for
  fed,        \* packets that have arrived
  sent        \* history: what of a client's packets has arrived, see Arrival

talkVars == <<joined, receiver, marking, tape, tab, asked, fed, sent>>

Following == {c \in Talkers : receiver[c].made}
Fresh == [made |-> TRUE, have |-> FALSE, expected |-> 0, muted |-> FALSE,
          spoken |-> FALSE, recent |-> FALSE, dropped |-> 0, level |-> Silence]
NoReceiver == [Fresh EXCEPT !.made = FALSE]

\* wav and wavDataBytes, the header of the file, and two histories: what was heard
\* while it was recorded, and whether the log says that something went wrong.
NoTape == [open |-> FALSE, data |-> 0, header |-> 0, heard |-> 0, warned |-> FALSE]

\* first and newest packet since the statistics were reset, those that came, whether
\* they came in order, and whether one was half the number space ahead
NoArrival == [first |-> 0, newest |-> 0, came |-> {}, rising |-> TRUE, leapt |-> FALSE]

NoTab == [items |-> <<>>, chosen |-> NoTalker, wired |-> NoTalker, meter |-> Silence,
          drops |-> 0, stops |-> FALSE]

TalkInit ==
  /\ joined = <<>> /\ marking \in BOOLEAN
  /\ receiver = [c \in Talkers |-> NoReceiver]
  /\ tape = [c \in Talkers |-> NoTape] /\ sent = [c \in Talkers |-> NoArrival]
  /\ tab = NoTab /\ asked = NoTalker /\ fed = 0

-----------------------------------------------------------------------------
(* The tab.  ss are the sessions, rs their receivers, ts the recordings.   *)

Listed(ss, rs) == Sifted(ss, {c \in Talkers : rs[c].made})

\* refresh(), what it shows of the current receiver
Filled(t, rs, ts) ==
  IF t.chosen = NoTalker THEN [t EXCEPT !.meter = Silence, !.drops = 0, !.stops = FALSE]
  ELSE [t EXCEPT !.meter = rs[t.chosen].level, !.drops = rs[t.chosen].dropped,
                 !.stops = ts[t.chosen].open]

\* reloadSessions(): the first one is selected when the old one is not there any more;
\* updateLevelConnection() follows
Reloaded(t, ss, rs, ts) ==
  LET items == Listed(ss, rs)
      now == IF \E i \in DOMAIN items : items[i] = t.chosen THEN t.chosen
             ELSE IF items = <<>> THEN NoTalker ELSE items[1]
  IN Filled([t EXCEPT !.items = items, !.chosen = now, !.wired = now], rs, ts)

\* refresh(): compares the number of sessions before it shows anything
Refreshed(t, ss, rs, ts) ==
  IF Len(t.items) # Len(Listed(ss, rs)) THEN Reloaded(t, ss, rs, ts) ELSE Filled(t, rs, ts)

Metered(t, c, level) == IF t.wired = c THEN [t EXCEPT !.meter = level] ELSE t

-----------------------------------------------------------------------------
(* Sessions come and go.                                                   *)

Accept(c) ==
  /\ \A i \in DOMAIN joined : joined[i] # c
  /\ joined' = Append(joined, c)
  /\ tab' = Reloaded(tab, joined', receiver, tape)
  /\ UNCHANGED <<receiver, marking, tape, asked, fed, sent>>

\* SETUP of the talkback track; nobody is told
SetUpTalkback(c) ==
  /\ \E i \in DOMAIN joined : joined[i] = c
  /\ ~receiver[c].made
  /\ receiver' = [receiver EXCEPT ![c] = Fresh]
  /\ sent' = [sent EXCEPT ![c] = NoArrival] /\ tape' = [tape EXCEPT ![c] = NoTape]
  /\ UNCHANGED <<joined, marking, tab, asked, fed>>

\* playingChanged
PlayingChanges ==
  /\ joined # <<>>
  /\ tab' = Reloaded(tab, joined, receiver, tape)
  /\ UNCHANGED <<joined, receiver, marking, tape, asked, fed, sent>>

\* stopRecordingInternal(): the lengths in the header are written last; `patches`
\* says whether the file takes them.
Closed(t, patches) ==
  IF ~t.open THEN t
  ELSE [t EXCEPT !.open = FALSE, !.header = IF patches THEN t.data ELSE @,
                 !.warned = @ \/ ~patches]

\* removeSession() and, soon after, the destructors of the session and the receiver
SessionEnds(c, patches) ==
  /\ \E i \in DOMAIN joined : joined[i] = c
  /\ joined' = Sifted(joined, Talkers \ {c})
  /\ receiver' = [receiver EXCEPT ![c] = NoReceiver]
  /\ tape' = [tape EXCEPT ![c] = Closed(@, patches)]
  /\ tab' = Reloaded(tab, joined', receiver', tape')
  /\ asked' = IF asked = c THEN Destroyed ELSE asked
  /\ UNCHANGED <<marking, fed, sent>>

-----------------------------------------------------------------------------
(* A packet arrives: feed().                                               *)

\* Packets that are lost before n: the gap to the one expected, unless it is half of
\* the number space or more, which is taken for a packet that is late.
Gap(r, seq) ==
  LET delta == (seq - r.expected) % SeqRange
  IN IF r.have /\ delta < SeqRange \div 2 THEN delta ELSE 0

\* marker, boundary of a talkspurt, mute
Muted(r, marker) ==
  LET boundary == ~r.spoken \/ ~r.recent
  IN ~marker /\ (r.muted \/ (boundary /\ marking))

Taken(r, seq, marker) ==
  [r EXCEPT !.have = TRUE, !.expected = (seq + 1) % SeqRange,
            !.dropped = @ + Gap(r, seq), !.muted = Muted(r, marker),
            !.spoken = TRUE, !.recent = TRUE,
            !.level = IF Muted(r, marker) THEN Silence ELSE Sound]

Arrival(a, n) ==
  IF a.came = {} THEN [first |-> n, newest |-> n, came |-> {n}, rising |-> TRUE, leapt |-> FALSE]
  ELSE [a EXCEPT !.newest = n, !.came = @ \union {n}, !.rising = @ /\ n > a.newest,
                 !.leapt = @ \/ n - (a.newest + 1) >= SeqRange \div 2]

\* Packet n of client c arrives; `written` says whether the file takes the samples and
\* `patches` whether it takes the header afterwards.
Feed(c, n, marker, written, patches) ==
  LET seq == (StartSeq + n) % SeqRange
      r == Taken(receiver[c], seq, marker)
      running == tape[c].open /\ ~r.muted
      t == IF ~running THEN tape[c]
           ELSE IF written THEN [tape[c] EXCEPT !.data = @ + 1, !.heard = @ + 1]
           ELSE Closed([tape[c] EXCEPT !.heard = @ + 1, !.warned = TRUE], patches)
  IN
  /\ receiver[c].made /\ fed < MaxFed
  /\ running \/ (written /\ patches)   \* no file: nothing that could fail
  /\ fed' = fed + 1
  /\ receiver' = [receiver EXCEPT ![c] = r]
  /\ tape' = [tape EXCEPT ![c] = t]
  /\ sent' = [sent EXCEPT ![c] = Arrival(@, n)]
  \* levelChanged, then backchannelDataReceived
  /\ tab' = Refreshed(Metered(tab, c, r.level), joined, receiver', tape')
  /\ UNCHANGED <<joined, marking, asked>>

\* the last packets are more than kTalkspurtGapMs old
FallsSilent ==
  /\ \E c \in Following : receiver[c].recent
  /\ receiver' = [c \in Talkers |-> [receiver[c] EXCEPT !.recent = FALSE]]
  /\ UNCHANGED <<joined, marking, tape, tab, asked, fed, sent>>

SwitchMarking ==
  /\ marking' = ~marking
  /\ UNCHANGED <<joined, receiver, tape, tab, asked, fed, sent>>

-----------------------------------------------------------------------------
(* What the user does.  A file dialog keeps the user from anything else.   *)

RefreshTick ==
  /\ tab' = Refreshed(tab, joined, receiver, tape)
  /\ UNCHANGED <<joined, receiver, marking, tape, asked, fed, sent>>

Choose(c) ==
  /\ asked = NoTalker
  /\ c # tab.chosen /\ \E i \in DOMAIN tab.items : tab.items[i] = c
  /\ tab' = Refreshed([tab EXCEPT !.chosen = c, !.wired = c], joined, receiver, tape)
  /\ UNCHANGED <<joined, receiver, marking, tape, asked, fed, sent>>

\* resetStats()
\* Mutant: the sequence number it expected survives the reset.
Reset_KeepsSequence(r) == [Fresh EXCEPT !.have = r.have, !.expected = r.expected]
Reset(r) == Fresh

ResetStats ==
  /\ asked = NoTalker /\ tab.chosen # NoTalker
  /\ receiver' = [receiver EXCEPT ![tab.chosen] = Reset(@)]
  /\ sent' = [sent EXCEPT ![tab.chosen] = NoArrival]
  /\ tab' = Refreshed([tab EXCEPT !.meter = Silence], joined, receiver', tape)
  /\ UNCHANGED <<joined, marking, tape, asked, fed>>

ClickRecord(patches) ==
  /\ asked = NoTalker /\ tab.chosen # NoTalker
  /\ IF tape[tab.chosen].open
     THEN /\ tape' = [tape EXCEPT ![tab.chosen] = Closed(@, patches)]
          /\ tab' = Refreshed(tab, joined, receiver, tape')
          /\ asked' = asked
     ELSE asked' = tab.chosen /\ UNCHANGED <<tape, tab>>
  /\ UNCHANGED <<joined, receiver, marking, fed, sent>>

\* The dialog closes: no file, a file that cannot be opened, or one that can.
FileNamed(opens) ==
  /\ asked \in Talkers
  /\ tape' = IF opens THEN [tape EXCEPT ![asked] = [NoTape EXCEPT !.open = TRUE]] ELSE tape
  /\ tab' = Refreshed(tab, joined, receiver, tape')
  /\ asked' = NoTalker
  /\ UNCHANGED <<joined, receiver, marking, fed, sent>>
FileCancelled ==
  /\ asked # NoTalker /\ asked' = NoTalker
  /\ UNCHANGED <<joined, receiver, marking, tape, tab, fed, sent>>

\* The receiver it was opened for is gone.  What the call then does is undefined: nothing
\* that can be seen, or the end of the process, which is then started again.
FileForNobody ==
  /\ asked = Destroyed
  /\ \/ asked' = NoTalker /\ UNCHANGED <<joined, receiver, marking, tape, tab, fed, sent>>
     \/ /\ joined' = <<>> /\ marking' = marking /\ fed' = fed
        /\ receiver' = [c \in Talkers |-> NoReceiver]
        /\ tape' = [c \in Talkers |-> NoTape] /\ sent' = [c \in Talkers |-> NoArrival]
        /\ tab' = NoTab /\ asked' = NoTalker

\* A packet over UDP is the next one, the one after it, one that is late or comes twice,
\* or one far ahead.
Near(c) ==
  IF sent[c].came = {} THEN {1} ELSE IF c \notin OverUdp THEN {sent[c].newest + 1}
  ELSE {n \in sent[c].newest - 1 .. sent[c].newest + 2 : n >= 0}
         \union {sent[c].newest + 1 + SeqRange \div 2}

TalkNext ==
  \/ \E c \in Talkers : Accept(c) \/ SetUpTalkback(c) \/ Choose(c)
  \/ \E c \in Talkers, patches \in BOOLEAN : SessionEnds(c, patches)
  \/ \E c \in Talkers, marker, written, patches \in BOOLEAN :
       \E n \in Near(c) : Feed(c, n, marker, written, patches)
  \/ PlayingChanges \/ FallsSilent \/ SwitchMarking \/ RefreshTick \/ ResetStats
  \/ \E patches \in BOOLEAN : ClickRecord(patches)
  \/ \E opens \in BOOLEAN : FileNamed(opens)
  \/ FileCancelled \/ FileForNobody

TalkSpec == TalkInit /\ [][TalkNext]_talkVars

-----------------------------------------------------------------------------
TalkTypeOK ==
  /\ Following \subseteq {joined[i] : i \in DOMAIN joined}
  /\ asked \in Talkers \union {NoTalker, Destroyed} /\ fed \in 0 .. MaxFed

LossesCounted ==
  \A c \in Following :
    LET a == sent[c]
        missing == {n \in a.first .. a.first + MaxFed * SeqRange :
                      n \notin a.came /\ \E k \in a.came : n < k}
    IN ~a.leapt => /\ receiver[c].dropped >= Cardinality(missing)
                   /\ a.rising => receiver[c].dropped = Cardinality(missing)

RecordingsWhole ==
  \A c \in Talkers :
    ~tape[c].open => (tape[c].header = tape[c].data /\ tape[c].data = tape[c].heard)
                       \/ tape[c].warned

TabFollows ==
  LET listed == {tab.items[i] : i \in DOMAIN tab.items}
  IN
  /\ listed \subseteq Following
  /\ \A c \in Following : receiver[c].spoken => c \in listed
  /\ IF listed = {} THEN tab.chosen = NoTalker ELSE tab.chosen \in listed
  /\ tab.wired = tab.chosen
  /\ IF tab.chosen = NoTalker THEN tab.meter = Silence /\ tab.drops = 0 /\ ~tab.stops
     ELSE /\ tab.meter = receiver[tab.chosen].level
          /\ tab.drops = receiver[tab.chosen].dropped
          /\ tab.stops = tape[tab.chosen].open

(* What talkback reports is what happened.  The packets counted as lost     *)
(* are those missing between the first and the newest one, and never fewer  *)
(* when some came late (RtpReceiver::feed).  A recording that has ended     *)
(* holds everything that was heard, and says so in its header, or the log   *)
(* has a warning about it (stopRecordingInternal).  What is muted makes no  *)
(* sound.  And the tab shows the level, the losses and the recording of the *)
(* session that is selected in it, which is one that exists, whatever comes *)
(* and goes meanwhile (TalkbackTab::reloadSessions, refresh).               *)
TalkTrue ==
  /\ TalkTypeOK /\ LossesCounted /\ RecordingsWhole /\ TabFollows
  /\ \A c \in Following : receiver[c].muted => receiver[c].level = Silence
=============================================================================
