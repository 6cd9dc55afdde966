---------------------------- MODULE MCStreaming ----------------------------
(***************************************************************************)
(* TLC instance of the streaming side of a camera: RtspServer with one     *)
(* client that sends anything and one that wants to talk as well; Talkback *)
(* with what becomes of the audio of two clients that do; and MediaPump    *)
(* with the frames of one session.  The three share no state here, so a    *)
(* behaviour works on one of them and leaves the others as they were.      *)
(***************************************************************************)
EXTENDS RtspServer, Talkback, MCMediaPump

CONSTANTS s1, s2

VARIABLE worked   \* which of the three this behaviour works on

MCSends == [c \in Sessions |->
  IF c = s1 THEN Request
  ELSE {"describeTalk", "setupTalk", "play"}]

streamingVars == <<vars, talkVars, pumpVars, worked>>

StreamingInit ==
  /\ worked \in {"sessions", "talkback", "pump"}
  /\ Init /\ TalkInit /\ PumpInit
  /\ worked = "sessions" \/ quirks = Quirk
  /\ worked = "talkback" \/ ~marking
  /\ worked = "pump" \/ pumpQuirks = {}

(* Bounds: the quirks of the server are all on for good, or switched on one at *)
(* a time; of the two that talk, the one over TCP, whose packets cannot be     *)
(* lost, is heard once between two setups, into a file that does not fail.     *)
OneAtATime == quirks' = quirks \/ Cardinality(quirks' \cap Switched) <= 1
HeardOnce == \A c \in Talkers \ OverUdp : Cardinality(sent'[c].came) <= 1 /\ ~tape'[c].warned

StreamingNext ==
  \/ worked = "sessions" /\ Next /\ OneAtATime /\ UNCHANGED <<talkVars, pumpVars, worked>>
  \/ worked = "talkback" /\ TalkNext /\ HeardOnce /\ UNCHANGED <<vars, pumpVars, worked>>
  \/ worked = "pump" /\ PumpNext /\ UNCHANGED <<vars, talkVars, worked>>

StreamingSpec == StreamingInit /\ [][StreamingNext]_streamingVars
=============================================================================
