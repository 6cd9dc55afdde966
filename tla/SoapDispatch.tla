---------------------------- MODULE SoapDispatch ----------------------------
(***************************************************************************)
(* The gate in front of a camera's services: SoapDispatcher::handle with   *)
(* the outage quirks, WsSecurity::verify and the levels, and the snapshot  *)
(* endpoint with its three ways to let a client in.                        *)
(* A handler is known by the level it asks for and what it does to this.   *)
(***************************************************************************)
EXTENDS Integers, Sequences, FiniteSets, SequencesExt

CONSTANTS
  Accounts,     \* the user table: name to rank (Administrator 3 ... User 1)
  Stranger,     \* a name not in the table, or no security header at all
  Needs,        \* ranks operations ask for; 0 is PreAuth
  Drifts,       \* how far a client's clock is from true time
  ClockSkew,    \* clock_skew of the camera
  TimeWindow,   \* largest drift that is accepted
  Nonces,       \* nonces a client puts into a header
  NoNonce,
  CacheSeconds, \* cache_seconds of the strict nonce quirk
  Threshold,    \* requests per second that overload the camera
  Burst,        \* requests that arrive in a second at most
  Challenges,   \* nonces of HTTP challenges
  NonceLifetime,\* of such a nonce
  TokenWindow,  \* kTokenWindowSeconds
  MaxTime,
  QuirkIds,     \* the quirks that are switched at any moment
  Lasting       \* quirks that are all on, or all off, for good

ASSUME GateAssumption ==
  /\ \A user \in DOMAIN Accounts : Accounts[user] \in Nat
  /\ Needs \subseteq Nat /\ Drifts \subseteq Int /\ ClockSkew \in Int
  /\ TimeWindow \in Nat /\ CacheSeconds \in Nat /\ NonceLifetime \in Nat
  /\ Threshold \in Nat /\ Burst \in Nat /\ MaxTime \in Nat
  /\ TokenWindow \in Nat \ {0}
  /\ NoNonce \notin Nonces

VARIABLES
  now,          \* true time, in seconds
  gateQuirks,   \* the quirks in force
  offline,      \* the camera is in an outage
  used,         \* nonce to the device time it was accepted at, or Never
  recent,       \* recentRequests: arrivals of the last second
  issued,       \* HTTP nonces given out: time and number of uses
  since,        \* requests since the last overload, counted up to Threshold
  call          \* what became of the last request

gateVars == <<now, gateQuirks, offline, used, recent, issued, since, call>>

Never == -100
DeviceTime == now + ClockSkew
On(quirk) == quirk \in gateQuirks
Distance(a, b) == IF a < b THEN b - a ELSE a - b
NoCall == [kind |-> "none", entitled |-> TRUE, repeated |-> FALSE]
Unissued == [time |-> Never, uses |-> 0]

-----------------------------------------------------------------------------
(* Who is it.                                                              *)

RankOf(user) == IF user \in DOMAIN Accounts THEN Accounts[user] ELSE 0

(* The strict nonce cache after it was swept. *)
Swept == [n \in Nonces |-> IF DeviceTime - used[n] > CacheSeconds THEN Never ELSE used[n]]

StrictFor(r) == On("strict nonce") /\ r.nonce # NoNonce

(* WsSecurity::verify up to the password: the reasons to refuse.  A header *)
(* without Created is not asked for its time.                              *)
Admissible(r) ==
  /\ r.user \in DOMAIN Accounts
  /\ ~(r.digest /\ On("text only"))
  /\ r.dated => Distance(r.created, DeviceTime) <= TimeWindow
  /\ StrictFor(r) => Swept[r.nonce] = Never

Proven(r) == Admissible(r) /\ r.password

(* The nonce counts as used only once all of it has been verified: "a      *)
(* wrong password should not burn a nonce".                                *)
(* Mutant: it is noted as soon as it was looked up. *)
UsedAfter_Early(r) ==
  IF ~StrictFor(r) \/ r.user \notin DOMAIN Accounts THEN used
  ELSE IF Admissible(r) THEN [Swept EXCEPT ![r.nonce] = DeviceTime]
  ELSE Swept

UsedAfter(r) ==
  IF ~StrictFor(r) \/ r.user \notin DOMAIN Accounts THEN used
  ELSE IF Proven(r) THEN [Swept EXCEPT ![r.nonce] = DeviceTime]
  ELSE Swept

(* AuthPreAuthRequired makes open operations ask for a user. *)
Required(r) == IF r.need = 0 /\ On("preauth") THEN 1 ELSE r.need

LevelSatisfies(rank, need) == rank >= need

-----------------------------------------------------------------------------
(* SoapDispatcher::handle.                                                 *)

(* Digests and nonces are told apart only under the quirks that do, and    *)
(* what is not dated says no time.                                         *)
Headers ==
  [user : DOMAIN Accounts \cup {Stranger}, password : BOOLEAN,
   digest : IF On("text only") THEN BOOLEAN ELSE {TRUE},
   dated : BOOLEAN, created : {now + d : d \in Drifts},
   nonce : IF On("strict nonce") THEN Nonces \cup {NoNonce} ELSE {NoNonce},
   need : Needs]
Requests == {r \in Headers : r.dated \/ r.created = now}

(* Quirk: the camera drops out without a Bye and without a reply. *)
RandomDropout ==
  /\ ~offline /\ On("dropout")
  /\ offline' = TRUE
  /\ call' = NoCall
  /\ UNCHANGED <<now, gateQuirks, used, recent, issued, since>>

(* The arrivals of the last second, this one included: those that are older *)
(* stand in front and are taken away.                                      *)
Old == {k \in DOMAIN recent : now - recent[k] > 1}
RecentNow == Append(SubSeq(recent, Cardinality(Old) + 1, Len(recent)), now)
Overloaded == On("overload") /\ Len(RecentNow) > Threshold

(* Quirk F3: what had arrived is forgotten, "or it would be taken for      *)
(* overloaded again the moment it comes back".                             *)
Overload ==
  /\ ~offline /\ Overloaded
  /\ offline' = TRUE
  /\ recent' = <<>>
  /\ since' = 0
  /\ call' = [NoCall EXCEPT !.kind = "overload", !.repeated = since < Threshold]
  /\ UNCHANGED <<now, gateQuirks, used, issued>>

Arrives ==
  /\ ~offline /\ ~Overloaded
  /\ Len(RecentNow) <= Burst
  /\ recent' = RecentNow
  /\ since' = IF since < Threshold THEN since + 1 ELSE since
  /\ UNCHANGED <<now, gateQuirks, offline>>

(* No envelope, no such operation, or one a quirk takes away: a fault      *)
(* before anybody asks who it is.                                          *)
Unsupported ==
  /\ Arrives
  /\ call' = NoCall
  /\ UNCHANGED <<used, issued>>

(* The nonce was accepted before, and the cache still should know it. *)
Repeated(r) ==
  /\ StrictFor(r) /\ Required(r) > 0
  /\ used[r.nonce] # Never /\ DeviceTime - used[r.nonce] <= CacheSeconds

Judged(r, kind) ==
  /\ used' = IF Required(r) = 0 THEN used ELSE UsedAfter(r)
  /\ call' = [kind |-> kind,
              entitled |-> \/ Required(r) = 0
                          \/ (r.password /\ RankOf(r.user) >= Required(r)),
              repeated |-> Repeated(r)]

Admitted(r) ==
  Required(r) = 0 \/ (Proven(r) /\ LevelSatisfies(RankOf(r.user), Required(r)))

(* A fault, or a bare 401 with a nonce nobody remembers: for somebody who   *)
(* did not prove who he is, or who is denied for his level.                *)
AuthRefused ==
  \E r \in Requests :
    /\ Arrives
    /\ ~Admitted(r)
    /\ Judged(r, IF Proven(r) THEN "denied" ELSE "refused")
    /\ UNCHANGED issued

(* The handler ends well or with a fault of its own. *)
Handled ==
  \E r \in Requests :
    /\ Arrives
    /\ Admitted(r)
    /\ Judged(r, "ran")
    /\ UNCHANGED issued

(* A handler that calls applyModelChanges(): the routes are registered     *)
(* anew, and the HttpAuth that lived in one of them is gone with the       *)
(* nonces it had given out.  That the handler's own service, operation     *)
(* table and route are replaced while it runs is a matter of their         *)
(* lifetimes in C++, which this module does not represent.                 *)
Rebuilds ==
  \E r \in Requests :
    /\ Arrives
    /\ r.need > 1 /\ Admitted(r)
    /\ Judged(r, "ran")
    /\ issued' = [c \in Challenges |-> Unissued]

-----------------------------------------------------------------------------
(* The snapshot endpoint.                                                  *)

Window(t) == t \div TokenWindow

(* verifyAccessToken(): the window it was made in, or the one before. *)
(* Mutant: only the window of now. *)
TokenAccepted_Current(made) == Window(made) = Window(now)

TokenAccepted(made) == Window(made) \in {Window(now), Window(now) - 1}

Known(c) == issued[c].time # Never
Fresh(c) == Known(c) /\ now - issued[c].time <= NonceLifetime

(* issueNonce() forgets those twice as old as they may get. *)
Issue ==
  LET kept == [c \in Challenges |->
                 IF Known(c) /\ now - issued[c].time <= 2 * NonceLifetime THEN issued[c] ELSE Unissued]
  IN  \E new \in {c \in Challenges : kept[c] = Unissued} :
        issued' = [kept EXCEPT ![new] = [time |-> now, uses |-> 0]]

(* HttpAuth::verify for Digest. *)
DigestAccepted(c, password) ==
  /\ Fresh(c)
  /\ ~(On("strict nonce") /\ issued[c].uses > 0)
  /\ password

Snapshot ==
  \E c \in Challenges, password \in BOOLEAN :
    /\ ~offline
    /\ DigestAccepted(c, password)
    /\ issued' = [issued EXCEPT ![c].uses = IF @ < 2 THEN @ + 1 ELSE @]
    /\ call' = [NoCall EXCEPT !.kind = "picture", !.repeated =
                  On("strict nonce") /\ issued[c].uses > 0]
    /\ UNCHANGED <<now, gateQuirks, offline, used, recent, since>>

(* No header, an unknown or old nonce (stale), a second use, a wrong       *)
(* password: a 401 with a new challenge.                                   *)
SnapshotRefused ==
  /\ ~offline
  /\ \E c \in Challenges, password \in BOOLEAN : ~DigestAccepted(c, password)
  /\ Issue
  /\ call' = [NoCall EXCEPT !.kind = "refused"]
  /\ UNCHANGED <<now, gateQuirks, offline, used, recent, since>>

-----------------------------------------------------------------------------
(* goOffline() is over: the same listeners come back. *)
Resume ==
  /\ offline
  /\ offline' = FALSE
  /\ UNCHANGED <<now, gateQuirks, used, recent, issued, since, call>>

TimePasses ==
  /\ now < MaxTime
  /\ now' = now + 1
  /\ call' = NoCall
  /\ UNCHANGED <<gateQuirks, offline, used, recent, issued, since>>

Switch ==
  \E quirk \in QuirkIds :
    /\ gateQuirks' = IF On(quirk) THEN gateQuirks \ {quirk} ELSE gateQuirks \cup {quirk}
    /\ call' = NoCall
    /\ UNCHANGED <<now, offline, used, recent, issued, since>>

GateInit ==
  /\ now = 0 /\ gateQuirks \in {{}, QuirkIds \cup Lasting} /\ offline = FALSE
  /\ used = [n \in Nonces |-> Never]
  /\ recent = <<>> /\ since = 0
  /\ issued = [c \in Challenges |-> Unissued]
  /\ call = NoCall

GateNext ==
  \/ RandomDropout \/ Overload \/ Unsupported
  \/ AuthRefused \/ Handled \/ Rebuilds
  \/ Snapshot \/ SnapshotRefused
  \/ Resume \/ TimePasses \/ Switch

GateSpec == GateInit /\ [][GateNext]_gateVars

-----------------------------------------------------------------------------
(* Properties.                                                             *)

GateTypeOK ==
  /\ now \in 0..MaxTime /\ gateQuirks \subseteq QuirkIds \cup Lasting /\ offline \in BOOLEAN
  /\ \A n \in Nonces : used[n] = Never \/ used[n] <= DeviceTime
  /\ \A i \in DOMAIN recent : recent[i] <= now
  /\ \A c \in Challenges : issued[c].uses \in 0..2

(* Nothing is carried out for somebody whose password was not checked and  *)
(* whose level does not suffice, whatever the quirks; and while the strict *)
(* nonce quirk is on, one nonce opens one door, of the SOAP services as    *)
(* of the snapshots.                                                       *)
OnlyWithAuthority ==
  call.kind \in {"ran", "picture"} => call.entitled /\ ~call.repeated

(* An overload is never judged by what arrived before the last one.        *)
NoRelapse == call.kind = "overload" => ~call.repeated

(* A snapshot token is good for a full window after it was given out, and  *)
(* never for two.                                                          *)
TokenLasts ==
  \A made \in 0..now :
    /\ now - made <= TokenWindow => TokenAccepted(made)
    /\ now - made >= 2 * TokenWindow => ~TokenAccepted(made)

(* What holds of the gate in every state. *)
GateConsistent == GateTypeOK /\ OnlyWithAuthority /\ NoRelapse /\ TokenLasts

(* A client that is not believed uses nothing up: the nonce of one that    *)
(* mistyped its password is good for the next try (WsSecurity.cpp,         *)
(* HttpAuth.cpp).  One that is denied for its level alone has used it.     *)
RefusalBurnsNothing ==
  [][call'.kind = "refused" =>
       /\ \A n \in Nonces : used'[n] \in {used[n], Never}
       /\ \A c \in Challenges : issued'[c].uses <= issued[c].uses]_<<used, issued, call>>
=============================================================================
