---------------------------- MODULE MediaConfig ----------------------------
(***************************************************************************)
(* The media profiles of a camera: what MediaService and Media2Service     *)
(* show of them and change in them, what a change of persona does to their *)
(* stream paths, which stream the RTSP server gives for a path, and what a *)
(* scenario file keeps of them (CameraModel::toJson, fromJson).            *)
(* A token is a number: n stands for "Profile_n", 0 for none given.  What  *)
(* a GUI or a PATCH types into a profile is not here, nor are the names of *)
(* profiles: applyProfileNamingStyle() sets them all, as the persona and a *)
(* quirk say, when a camera is built and when its quirks change (Desktop). *)
(***************************************************************************)
EXTENDS Naturals, Sequences, FiniteSets, SequencesExt

CONSTANTS
  MaxProfiles,  \* kMaxProfiles
  FactorySizes, \* the resolutions of the fixed profiles, in order
  Sizes,        \* resolutions a client sets, records of width w and height h
  Rates,        \* sample rates a client sends, in kHz or in Hz
  Asked,        \* tokens a client asks for
  Kinds,        \* what talk-back binds to a profile: output and decoder
  Personas,     \* personas, each with its stream paths
  PtzModes,     \* "plain", and the quirks C1 "sub only", C2 "hidden"
  Absent        \* a field the JSON lacks

(* A camera has a main stream, and JSON tells a missing section from any.  *)
ASSUME MediaAssumption ==
  /\ FactorySizes \in Seq([w : Nat, h : Nat]) /\ Sizes \subseteq [w : Nat, h : Nat]
  /\ MaxProfiles \in Nat /\ Len(FactorySizes) \in 1..MaxProfiles
  /\ Rates \subseteq Nat /\ Asked \subseteq Nat \ {0}
  /\ Absent # "device" /\ Absent \notin [token : Nat, rate : Nat]

VARIABLES
  profiles,     \* model.profiles
  persona       \* the persona in force

mediaVars == <<profiles, persona>>

Device == "device"      \* the one output and decoder configuration there is
Builtin == {"360p", "720p", "1080p"}
DefaultRate == 8
SubStream == 2          \* kSubStreamIndex

-----------------------------------------------------------------------------
(* Reading.                                                                *)

ProfileTokens(ps) == {ps[i].token : i \in DOMAIN ps}

(* Keeps the first of the configurations that share a token. *)
UniqueConfigs(configs) ==
  LET First(i) == \A j \in DOMAIN configs : j < i => configs[j].token # configs[i].token
  IN  {configs[i] : i \in {k \in DOMAIN configs : First(k)}}

VideoEncoders == UniqueConfigs([i \in DOMAIN profiles |-> profiles[i].video])
AudioEncoders ==
  LET heard == {i \in DOMAIN profiles : profiles[i].hasAudio}
  IN  UniqueConfigs([i \in heard |-> profiles[i].audio])

(* What the first profile holds, bound to it or not. *)
DeviceConfig(kind) == profiles[1].talk[kind]

AssetForResolution(size) ==
  IF size.h >= 900 \/ size.w >= 1600 THEN "1080p"
  ELSE IF size.h >= 600 \/ size.w >= 1000 THEN "720p" ELSE "360p"

AdvertisesPtz(p, mode, i) ==
  CASE mode = "hidden" -> FALSE
    [] mode = "sub only" -> i = SubStream
    [] OTHER -> p.hasPtz

(* The profile whose stream the URI of a profile leads to: the first one   *)
(* with that path.                                                         *)
ServedFor(i) ==
  profiles[CHOOSE k \in DOMAIN profiles :
             /\ profiles[k].path = profiles[i].path
             /\ \A j \in 1..(k - 1) : profiles[j].path # profiles[i].path]

(* GetProfiles, ver10 and ver20 alike, but for the names. *)
WriteProfile(p, mode, i) ==
  [token |-> p.token, fixed |-> p.fixed, video |-> p.video, path |-> p.path,
   audio |-> IF p.hasAudio THEN p.audio ELSE Absent,
   ptz |-> AdvertisesPtz(p, mode, i),
   talk |-> [k \in p.bound |-> p.talk[k]]]

GetProfiles(ps, mode) == [i \in DOMAIN ps |-> WriteProfile(ps[i], mode, i)]

-----------------------------------------------------------------------------
(* The scenario file.                                                      *)

(* Sections of what a profile does not use are not written. *)
(* Mutant: the audio section is left out, as some once were. *)
ProfileToJson_NoAudio(p) ==
  [p EXCEPT !.audio = Absent,
            !.talk = [k \in Kinds |-> IF k \in p.bound THEN p.talk[k] ELSE Absent]]

ProfileToJson(p) ==
  [p EXCEPT !.audio = IF p.hasAudio THEN p.audio ELSE Absent,
            !.talk = [k \in Kinds |-> IF k \in p.bound THEN p.talk[k] ELSE Absent]]

(* What the file lacks gets the default of the type. *)
ProfileFromJson(o) ==
  [o EXCEPT !.audio = IF o.audio = Absent THEN [token |-> 1, rate |-> DefaultRate]
                      ELSE o.audio,
            !.talk = [k \in Kinds |-> IF o.talk[k] = Absent THEN Device ELSE o.talk[k]]]

Reloaded(ps) == [i \in DOMAIN ps |-> ProfileFromJson(ProfileToJson(ps[i]))]

-----------------------------------------------------------------------------
(* Operations.                                                             *)

(* CreateProfile: a copy of the main stream under a token of its own.      *)
CreateProfile ==
  /\ Len(profiles) < MaxProfiles
  /\ \E asked \in Asked \cup {0} :
       LET token == IF asked = 0 THEN Len(profiles) + 1 ELSE asked
       IN  /\ token \notin ProfileTokens(profiles)
           /\ profiles' = Append(profiles, [profiles[1] EXCEPT
                            !.token = token, !.fixed = FALSE, !.bound = {}])
  /\ UNCHANGED persona

DeleteProfile ==
  \E i \in DOMAIN profiles :
    /\ ~profiles[i].fixed
    /\ profiles' = RemoveAt(profiles, i)
    /\ UNCHANGED persona

(* Every profile with the configuration changes; so does the clip that is  *)
(* streamed, unless the user put a file of his own there.                  *)
Resized(p, size) ==
  [p EXCEPT !.video = [token |-> @.token, size |-> size],
            !.asset = IF @ \in Builtin THEN AssetForResolution(size) ELSE @]

SetVideoEncoderConfiguration ==
  \E config \in VideoEncoders, size \in Sizes :
    /\ profiles' = [i \in DOMAIN profiles |->
         IF profiles[i].video.token = config.token THEN Resized(profiles[i], size)
         ELSE profiles[i]]
    /\ UNCHANGED persona

(* Above 1000 the rate is taken for Hz. *)
Kilohertz(rate) == IF rate > 1000 THEN rate \div 1000 ELSE rate

SetAudioEncoderConfiguration ==
  \E config \in AudioEncoders, rate \in Rates :
    /\ profiles' = [i \in DOMAIN profiles |->
         IF profiles[i].hasAudio /\ profiles[i].audio.token = config.token
         THEN [profiles[i] EXCEPT !.audio.rate = Kilohertz(rate)]
         ELSE profiles[i]]
    /\ UNCHANGED persona

(* Add..., Remove...Configuration; quirk E16 refuses both. *)
AddTalk ==
  \E i \in DOMAIN profiles, kind \in Kinds :
    /\ profiles' = [profiles EXCEPT ![i].talk[kind] = DeviceConfig(kind),
                                    ![i].bound = @ \cup {kind}]
    /\ UNCHANGED persona

RemoveTalk ==
  \E i \in DOMAIN profiles, kind \in Kinds :
    /\ profiles' = [profiles EXCEPT ![i].bound = @ \ {kind}]
    /\ UNCHANGED persona

(* setPersona: the first three profiles get the persona's paths; their     *)
(* names stay as they are until the quirks change or the camera is built.  *)
PathsOf(who, ps) ==
  [i \in DOMAIN ps |-> IF i <= 3 THEN [ps[i] EXCEPT !.path = <<who, i>>] ELSE ps[i]]

SetPersona ==
  \E who \in Personas :
    /\ persona' = who
    /\ profiles' = PathsOf(who, profiles)

(* saveScenario and loadScenario. *)
Reload == profiles' = Reloaded(profiles) /\ UNCHANGED persona

-----------------------------------------------------------------------------
(* makeDefault, or a scenario whose third stream is a file of the user's   *)
(* or has no sound, and where not every profile turns the camera.          *)
MediaInit ==
  /\ persona \in Personas
  /\ \E own, mute, turns \in BOOLEAN :
       profiles = [i \in DOMAIN FactorySizes |->
         [token |-> i, fixed |-> TRUE, path |-> <<persona, i>>,
          video |-> [token |-> i, size |-> FactorySizes[i]],
          hasAudio |-> ~(mute /\ i = Len(FactorySizes)),
          audio |-> [token |-> i, rate |-> DefaultRate],
          bound |-> {}, talk |-> [k \in Kinds |-> Device],
          hasPtz |-> turns \/ i = 1,
          asset |-> IF own /\ i = Len(FactorySizes) THEN "own"
                    ELSE AssetForResolution(FactorySizes[i])]]

MediaNext ==
  \/ CreateProfile \/ DeleteProfile
  \/ SetVideoEncoderConfiguration \/ SetAudioEncoderConfiguration
  \/ AddTalk \/ RemoveTalk \/ SetPersona \/ Reload

MediaSpec == MediaInit /\ [][MediaNext]_mediaVars

-----------------------------------------------------------------------------
(* Properties.                                                             *)

MediaTypeOK ==
  /\ profiles # <<>> /\ Len(profiles) <= MaxProfiles
  /\ persona \in Personas
  /\ \A p \in Range(profiles) : p.bound \subseteq Kinds

(* No two profiles answer to one token, though the default token counts    *)
(* profiles and deletions leave gaps.                                      *)
TokensDiffer == Cardinality(ProfileTokens(profiles)) = Len(profiles)

(* Profiles that share a configuration agree on it: what a profile shows   *)
(* is in the list of configurations.                                       *)
ConfigurationsAgree ==
  \A p \in Range(profiles) :
    /\ p.video \in VideoEncoders
    /\ p.hasAudio => p.audio \in AudioEncoders

(* The stream a profile's URI leads to - of another profile perhaps, made  *)
(* before it - has the resolution the profile declares.                    *)
UriLeadsToDeclared ==
  \A i \in DOMAIN profiles :
    LET served == ServedFor(i)
    IN  served.asset \in Builtin =>
          served.asset = AssetForResolution(profiles[i].video.size)

(* A scenario saved and loaded again shows clients the same profiles, names *)
(* apart: what the comment at CameraModel.cpp:104 says once failed.        *)
ReloadShowsSame ==
  \A mode \in PtzModes :
    GetProfiles(Reloaded(profiles), mode) = GetProfiles(profiles, mode)

(* What holds of the profiles in every state. *)
MediaConsistent ==
  /\ MediaTypeOK /\ TokensDiffer /\ ConfigurationsAgree
  /\ UriLeadsToDeclared /\ ReloadShowsSame
=============================================================================
