---------------------------- MODULE ServicesProofs ---------------------------
(***************************************************************************)
(* Theorems about the services of a camera, for every value of their       *)
(* constants: SoapDispatch (who is let in, and what a refusal leaves as it *)
(* was), DeviceAdmin (who may administer the device), PtzState (the head   *)
(* and the time it integrates lazily), ImagingState (the focus and the     *)
(* picture), MediaConfig (profiles, configurations and their files) and    *)
(* Fleet (ids, ports and quirk tables of the cameras).                     *)
(***************************************************************************)
EXTENDS SoapDispatch, DeviceAdmin, PtzState, ImagingState, MediaConfig, Fleet,
        SelectionProofs, FiniteSetTheorems

(* SoapDispatch.                                                           *)

\* What the invariant rests on.  Since the last overload there were at least as many
\* requests as are remembered, unless there were enough for the next.
Counted ==
  /\ recent \in Seq(Nat) /\ since \in 0 .. Threshold
  /\ since < Threshold => Len(recent) <= since
Noted ==
  /\ used \in [Nonces -> Int]
  /\ issued \in [Challenges -> [time : Int, uses : 0 .. 2]]

GateInv == GateConsistent /\ Counted /\ Noted

\* The parts of the invariant, each in its own variables.
ClockOk == now \in 0 .. MaxTime /\ TokenLasts
QuirksOk == gateQuirks \subseteq QuirkIds \cup Lasting /\ offline \in BOOLEAN
UsedOk ==
  /\ used \in [Nonces -> Int]
  /\ \A n \in Nonces : used[n] = Never \/ used[n] <= DeviceTime
IssuedOk == issued \in [Challenges -> [time : Int, uses : 0 .. 2]]
RecentOk == Counted /\ \A i \in 1 .. Len(recent) : recent[i] <= now
CallOk == OnlyWithAuthority /\ NoRelapse

-----------------------------------------------------------------------------
LEMMA Unfolded ==
  ASSUME GateInv PROVE ClockOk /\ QuirksOk /\ UsedOk /\ IssuedOk /\ RecentOk /\ CallOk
<1>1. DOMAIN recent = 1 .. Len(recent)
  BY LenProperties DEF GateInv, Counted
<1>2. QED
  BY <1>1 DEF GateInv, GateConsistent, GateTypeOK, Counted, Noted, ClockOk, QuirksOk, UsedOk,
              IssuedOk, RecentOk, CallOk

LEMMA Folded ==
  ASSUME ClockOk', QuirksOk', UsedOk', IssuedOk', RecentOk', CallOk' PROVE GateInv'
<1>1. DOMAIN recent' = 1 .. Len(recent')
  BY LenProperties DEF RecentOk, Counted
<1>2. \A c \in Challenges : issued'[c].uses \in 0 .. 2
  BY DEF IssuedOk
<1>3. GateTypeOK'
  BY <1>1, <1>2 DEF GateTypeOK, ClockOk, QuirksOk, UsedOk, RecentOk
<1>4. QED
  BY <1>3 DEF GateInv, GateConsistent, Noted, ClockOk, UsedOk, IssuedOk, RecentOk, CallOk

\* Windows of one length that begin at its multiples.
LEMMA Division ==
  ASSUME NEW w \in Nat \ {0}, NEW x \in Nat
  PROVE  x \div w \in Nat /\ w * (x \div w) <= x /\ x < w * (x \div w) + w
OBVIOUS

LEMMA FewerWindows ==
  ASSUME NEW w \in Nat \ {0}, NEW a \in Int, NEW b \in Int, w * a < w * b + w
  PROVE  a <= b
OBVIOUS

\* A token of a window is good for that window's length and never for two.
LEMMA WindowsLast ==
  ASSUME NEW t \in Nat, NEW made \in 0 .. t
  PROVE  /\ t - made <= TokenWindow => Window(made) \in {Window(t), Window(t) - 1}
         /\ t - made >= 2 * TokenWindow => Window(made) \notin {Window(t), Window(t) - 1}
<1> DEFINE w == TokenWindow  p == made \div w  q == t \div w
<1>1. w \in Nat \ {0} /\ made \in Nat /\ made <= t
  BY GateAssumption
<1>2. /\ p \in Nat /\ w * p <= made /\ made < w * p + w
      /\ q \in Nat /\ w * q <= t /\ t < w * q + w
  BY <1>1, Division
<1>3. Window(made) = p /\ Window(t) = q
  BY DEF Window
<1> HIDE DEF w, p, q
<1>4. p <= q
  <2>1. w * p < w * q + w
    BY <1>1, <1>2
  <2>2. QED
    BY <1>1, <1>2, <2>1, FewerWindows
<1>5. ASSUME t - made <= w PROVE q <= p + 1
  <2>1. w * q < w * (p + 1) + w
    BY <1>1, <1>2, <1>5
  <2>2. QED
    BY <1>1, <1>2, <2>1, FewerWindows
<1>6. ASSUME t - made >= 2 * w PROVE p + 2 <= q
  <2>1. w * (p + 2) < w * q + w
    BY <1>1, <1>2, <1>6
  <2>2. QED
    BY <1>1, <1>2, <2>1, FewerWindows
<1>7. QED
  BY <1>1, <1>2, <1>3, <1>4, <1>5, <1>6 DEF w

LEMMA TokensLast == ASSUME now \in Nat PROVE TokenLasts
BY WindowsLast DEF TokenLasts, TokenAccepted

LEMMA TokensLastNext == ASSUME now' \in Nat PROVE TokenLasts'
BY WindowsLast DEF TokenLasts, TokenAccepted

-----------------------------------------------------------------------------
(* Requests.                                                                *)

LEMMA RecentNowType ==
  ASSUME GateInv
  PROVE  /\ RecentNow \in Seq(Nat)
         /\ Len(RecentNow) \in Nat /\ Len(RecentNow) <= Len(recent) + 1
         /\ \A i \in 1 .. Len(RecentNow) : RecentNow[i] <= now
<1> DEFINE k == Cardinality(Old) + 1  kept == SubSeq(recent, k, Len(recent))
<1>1. /\ recent \in Seq(Nat) /\ Len(recent) \in Nat /\ DOMAIN recent = 1 .. Len(recent)
      /\ now \in Nat /\ \A i \in 1 .. Len(recent) : recent[i] <= now /\ recent[i] \in Nat
  BY Unfolded, LenProperties, ElementOfSeq DEF RecentOk, Counted, ClockOk
<1>2. k \in Nat \ {0}
  <2>1. IsFiniteSet(1 .. Len(recent))
    BY <1>1, FS_Interval
  <2>2. Old \subseteq 1 .. Len(recent)
    BY <1>1 DEF Old
  <2>3. IsFiniteSet(Old)
    BY <2>1, <2>2, FS_Subset
  <2>4. Cardinality(Old) \in Nat
    BY <2>3, FS_CardinalityType
  <2>5. QED
    BY <2>4
<1> HIDE DEF k
<1>3. /\ kept \in Seq(Nat)
      /\ Len(kept) = IF k <= Len(recent) THEN Len(recent) - k + 1 ELSE 0
      /\ \A i \in 1 .. Len(recent) - k + 1 : kept[i] = recent[k + i - 1]
  <2>1. \A i \in k .. Len(recent) : recent[i] \in Nat
    BY <1>1, <1>2
  <2>2. QED
    BY <1>1, <1>2, <2>1, SubSeqProperties
<1>4. RecentNow = Append(kept, now)
  BY DEF RecentNow, k
<1> HIDE DEF kept
<1>5. Len(kept) \in Nat /\ Len(kept) <= Len(recent)
  BY <1>1, <1>2, <1>3
<1>6. /\ Append(kept, now) \in Seq(Nat) /\ Len(Append(kept, now)) = Len(kept) + 1
      /\ \A i \in 1 .. Len(kept) : Append(kept, now)[i] = kept[i]
      /\ Append(kept, now)[Len(kept) + 1] = now
  BY <1>1, <1>3, AppendProperties
<1>7. ASSUME NEW i \in 1 .. Len(kept) PROVE kept[i] <= now
  <2>1. i \in 1 .. Len(recent) - k + 1 /\ k + i - 1 \in 1 .. Len(recent)
    BY <1>1, <1>2, <1>3
  <2>2. QED
    BY <1>1, <1>3, <2>1
<1>8. ASSUME NEW i \in 1 .. Len(kept) + 1 PROVE Append(kept, now)[i] <= now
  <2>1. i \in 1 .. Len(kept) \/ i = Len(kept) + 1
    BY <1>5
  <2>2. QED
    BY <1>1, <1>6, <1>7, <2>1
<1>9. QED
  BY <1>4, <1>5, <1>6, <1>8

LEMMA ArrivesKeeps ==
  ASSUME GateInv, Arrives PROVE ClockOk' /\ QuirksOk' /\ RecentOk'
<1>1. UNCHANGED <<now, gateQuirks, offline>> /\ recent' = RecentNow
      /\ since' = IF since < Threshold THEN since + 1 ELSE since
  BY DEF Arrives
<1>2. ClockOk' /\ QuirksOk'
  BY <1>1, Unfolded DEF ClockOk, QuirksOk, TokenLasts, TokenAccepted, Window
<1>3. /\ since \in 0 .. Threshold /\ (since < Threshold => Len(recent) <= since)
      /\ Len(recent) \in Nat /\ Threshold \in Nat
  BY Unfolded, LenProperties, GateAssumption DEF RecentOk, Counted
<1>4. Counted'
  <2> DEFINE n == Len(recent)  m == Len(RecentNow)
  <2>1. n \in Nat /\ m \in Nat /\ m <= n + 1
    BY <1>3, RecentNowType
  <2> HIDE DEF n, m
  <2>2. since < Threshold => n <= since
    BY <1>3 DEF n
  <2>3. since' \in 0 .. Threshold /\ (since' < Threshold => m <= since')
    <3>1. CASE since < Threshold
      <4>1. since' = since + 1
        BY <1>1, <3>1
      <4>2. QED
        BY <1>3, <2>1, <2>2, <3>1, <4>1
    <3>2. CASE ~(since < Threshold)
      <4>1. since' = since
        BY <1>1, <3>2
      <4>2. QED
        BY <1>3, <3>2, <4>1
    <3>3. QED
      BY <3>1, <3>2
  <2>4. QED
    BY <1>1, <2>3, RecentNowType DEF Counted, m
<1>5. QED
  BY <1>1, <1>2, <1>4, RecentNowType DEF RecentOk

LEMMA SweptType ==
  ASSUME GateInv
  PROVE  /\ Swept \in [Nonces -> Int] /\ DeviceTime \in Int
         /\ \A n \in Nonces : Swept[n] \in {used[n], Never}
         /\ \A n \in Nonces : Swept[n] = Never \/ Swept[n] <= DeviceTime
<1>1. used \in [Nonces -> Int] /\ \A n \in Nonces : used[n] = Never \/ used[n] <= DeviceTime
  BY Unfolded DEF UsedOk
<1>2. Never \in Int
  BY DEF Never
<1>3. DeviceTime \in Int
  BY Unfolded, GateAssumption DEF DeviceTime, ClockOk
<1>4. Swept = [n \in Nonces |-> IF DeviceTime - used[n] > CacheSeconds THEN Never ELSE used[n]]
  BY DEF Swept
<1>5. QED
  BY <1>1, <1>2, <1>3, <1>4

\* A request whose answer is decided keeps the account of nonces, uses one up only
\* when it is proven, and is entitled to what it is admitted to.
LEMMA JudgedKeeps ==
  ASSUME GateInv, NEW r \in Requests, NEW kind, Judged(r, kind), now' = now
  PROVE  /\ UsedOk'
         /\ ~Proven(r) => \A n \in Nonces : used'[n] \in {used[n], Never}
         /\ call'.kind = kind
         /\ Admitted(r) => call'.entitled /\ ~call'.repeated
<1>1. UsedAfter(r) \in [Nonces -> Int]
      /\ \A n \in Nonces : UsedAfter(r)[n] = Never \/ UsedAfter(r)[n] <= DeviceTime
  <2>1. CASE UsedAfter(r) = used
    BY <2>1, Unfolded DEF UsedOk
  <2>2. CASE UsedAfter(r) = Swept
    BY <2>2, SweptType
  <2>3. CASE UsedAfter(r) = [Swept EXCEPT ![r.nonce] = DeviceTime]
    <3> DEFINE after == [Swept EXCEPT ![r.nonce] = DeviceTime]
    <3>1. after \in [Nonces -> Int]
      BY SweptType
    <3>2. ASSUME NEW n \in Nonces PROVE after[n] = DeviceTime \/ after[n] = Swept[n]
      BY SweptType
    <3>3. DeviceTime <= DeviceTime
      BY SweptType
    <3> HIDE DEF after
    <3>4. \A n \in Nonces : after[n] = Never \/ after[n] <= DeviceTime
      BY <3>2, <3>3, SweptType
    <3>5. QED
      BY <2>3, <3>1, <3>4 DEF after
  <2>4. QED
    BY <2>1, <2>2, <2>3 DEF UsedAfter
<1>2. used' = (IF Required(r) = 0 THEN used ELSE UsedAfter(r)) /\ DeviceTime' = DeviceTime
  BY DEF Judged, DeviceTime
<1>3. UsedOk'
  BY <1>1, <1>2, Unfolded DEF UsedOk
<1>4. ASSUME ~Proven(r) PROVE \A n \in Nonces : used'[n] \in {used[n], Never}
  <2>1. UsedAfter(r) = used \/ UsedAfter(r) = Swept
    BY <1>4 DEF UsedAfter
  <2>2. QED
    BY <1>2, <2>1, SweptType
<1>5. /\ call'.kind = kind
      /\ call'.entitled = \/ Required(r) = 0
                          \/ r.password /\ RankOf(r.user) >= Required(r)
      /\ call'.repeated = Repeated(r)
  BY DEF Judged
<1>6. ASSUME Admitted(r) PROVE call'.entitled
  BY <1>5, <1>6 DEF Admitted, Proven, LevelSatisfies
<1>7. ASSUME Admitted(r) PROVE ~Repeated(r)
  <2>1. ASSUME Repeated(r) PROVE FALSE
    <3>1. /\ StrictFor(r) /\ Required(r) # 0
          /\ used[r.nonce] # Never /\ DeviceTime - used[r.nonce] <= CacheSeconds
      BY <2>1 DEF Repeated
    <3>2. Swept[r.nonce] = Never /\ r.nonce \in Nonces
      BY <1>7, <3>1 DEF Admitted, Proven, Admissible, StrictFor, Requests, Headers
    <3>3. DeviceTime - used[r.nonce] > CacheSeconds
      BY <3>1, <3>2 DEF Swept
    <3>4. DeviceTime - used[r.nonce] \in Int /\ CacheSeconds \in Int
      BY <3>2, SweptType, Unfolded, GateAssumption DEF UsedOk
    <3>5. QED
      BY <3>1, <3>3, <3>4
  <2>2. QED
    BY <2>1
<1>8. QED
  BY <1>3, <1>4, <1>5, <1>6, <1>7

-----------------------------------------------------------------------------
(* One step.                                                                *)

LEMMA RequestKeeps ==
  ASSUME GateInv, NEW r \in Requests, NEW kind, Arrives, Judged(r, kind), IssuedOk',
         kind # "overload", kind \in {"ran", "picture"} => Admitted(r)
  PROVE  GateInv'
<1>1. now' = now
  BY DEF Arrives
<1>2. UsedOk' /\ call'.kind = kind /\ (Admitted(r) => call'.entitled /\ ~call'.repeated)
  BY <1>1, JudgedKeeps
<1>3. CallOk'
  BY <1>2 DEF CallOk, OnlyWithAuthority, NoRelapse
<1>4. QED
  BY <1>2, <1>3, ArrivesKeeps, Folded

\* A step whose call is none, or nothing that was carried out.
LEMMA NoCallOk ==
  ASSUME call' = NoCall \/ call' = [NoCall EXCEPT !.kind = "refused"]
  PROVE  CallOk'
BY DEF CallOk, OnlyWithAuthority, NoRelapse, NoCall

LEMMA SameClock == ASSUME GateInv, now' = now PROVE ClockOk'
BY Unfolded DEF ClockOk, TokenLasts, TokenAccepted, Window

LEMMA SameNonces == ASSUME GateInv, UNCHANGED <<now, used>> PROVE UsedOk'
BY Unfolded DEF UsedOk, DeviceTime

LEMMA SameRecent == ASSUME GateInv, UNCHANGED <<now, recent, since>> PROVE RecentOk'
BY Unfolded DEF RecentOk, Counted

LEMMA UnissuedType == Unissued \in [time : Int, uses : 0 .. 2]
BY DEF Unissued, Never

\* Issuing forgets or begins nonces and adds no use to any.
LEMMA IssueKeeps ==
  ASSUME GateInv, Issue
  PROVE  IssuedOk' /\ \A c \in Challenges : issued'[c].uses <= issued[c].uses
<1> DEFINE kept == [c \in Challenges |->
                      IF Known(c) /\ now - issued[c].time <= 2 * NonceLifetime
                      THEN issued[c] ELSE Unissued]
<1>1. PICK new \in Challenges : issued' = [kept EXCEPT ![new] = [time |-> now, uses |-> 0]]
  BY DEF Issue
<1>2. issued \in [Challenges -> [time : Int, uses : 0 .. 2]] /\ now \in Int
  BY Unfolded DEF IssuedOk, ClockOk
<1>3. \A c \in Challenges : kept[c] \in {issued[c], Unissued}
  OBVIOUS
<1>4. kept \in [Challenges -> [time : Int, uses : 0 .. 2]]
  BY <1>2, <1>3, UnissuedType
<1> HIDE DEF kept
<1>5. \A c \in Challenges : kept[c].uses <= issued[c].uses
  BY <1>2, <1>3 DEF Unissued
<1>6. [time |-> now, uses |-> 0] \in [time : Int, uses : 0 .. 2]
  BY <1>2
<1>7. IssuedOk'
  BY <1>1, <1>4, <1>6 DEF IssuedOk
<1>8. ASSUME NEW c \in Challenges PROVE issued'[c].uses <= issued[c].uses
  BY <1>1, <1>2, <1>4, <1>5
<1>9. QED
  BY <1>7, <1>8

LEMMA NextIInv == ASSUME GateInv, [GateNext]_gateVars PROVE GateInv'
<1>1. CASE RandomDropout
  <2>1. /\ offline' = TRUE /\ call' = NoCall
        /\ UNCHANGED <<now, gateQuirks, used, recent, issued, since>>
    BY <1>1 DEF RandomDropout
  <2>2. QuirksOk' /\ IssuedOk'
    BY <2>1, Unfolded DEF QuirksOk, IssuedOk
  <2>3. QED
    BY <2>1, <2>2, SameClock, SameNonces, SameRecent, NoCallOk, Folded
<1>2. CASE Overload
  <2>1. /\ offline' = TRUE /\ recent' = <<>> /\ since' = 0
        /\ call' = [NoCall EXCEPT !.kind = "overload", !.repeated = since < Threshold]
        /\ Len(RecentNow) > Threshold
        /\ UNCHANGED <<now, gateQuirks, used, issued>>
    BY <1>2 DEF Overload, Overloaded
  <2>2. QuirksOk' /\ IssuedOk'
    BY <2>1, Unfolded DEF QuirksOk, IssuedOk
  <2>3. RecentOk'
    <3>1. Threshold \in Nat
      BY GateAssumption
    <3>2. <<>> \in Seq(Nat) /\ Len(<<>>) = 0
      OBVIOUS
    <3>3. QED
      BY <2>1, <3>1, <3>2 DEF RecentOk, Counted
  <2>4. ~(since < Threshold)
    <3>1. /\ Len(RecentNow) <= Len(recent) + 1 /\ Len(RecentNow) \in Nat /\ Len(recent) \in Nat
          /\ since \in 0 .. Threshold /\ Threshold \in Nat
          /\ since < Threshold => Len(recent) <= since
      BY RecentNowType, Unfolded, LenProperties, GateAssumption DEF RecentOk, Counted
    <3>2. QED
      BY <2>1, <3>1
  <2>5. CallOk'
    <3>1. call'.kind = "overload" /\ call'.repeated = (since < Threshold)
      BY <2>1 DEF NoCall
    <3>2. QED
      BY <2>4, <3>1 DEF CallOk, OnlyWithAuthority, NoRelapse
  <2>6. QED
    BY <2>1, <2>2, <2>3, <2>5, SameClock, SameNonces, Folded
<1>3. CASE Unsupported
  <2>1. Arrives /\ call' = NoCall /\ UNCHANGED <<used, issued>> /\ now' = now
    BY <1>3 DEF Unsupported, Arrives
  <2>2. IssuedOk'
    BY <2>1, Unfolded DEF IssuedOk
  <2>3. QED
    BY <2>1, <2>2, ArrivesKeeps, SameNonces, NoCallOk, Folded
<1>4. CASE AuthRefused
  <2>1. PICK r \in Requests :
          /\ Arrives /\ ~Admitted(r) /\ UNCHANGED issued
          /\ Judged(r, IF Proven(r) THEN "denied" ELSE "refused")
    BY <1>4 DEF AuthRefused
  <2>2. IssuedOk'
    BY <2>1, Unfolded DEF IssuedOk
  <2>3. CASE Proven(r)
    <3>1. Judged(r, "denied")
      BY <2>1, <2>3
    <3>2. QED
      BY <2>1, <2>2, <3>1, RequestKeeps
  <2>4. CASE ~Proven(r)
    <3>1. Judged(r, "refused")
      BY <2>1, <2>4
    <3>2. QED
      BY <2>1, <2>2, <3>1, RequestKeeps
  <2>5. QED
    BY <2>3, <2>4
<1>5. CASE Handled
  <2>1. PICK r \in Requests : Arrives /\ Admitted(r) /\ Judged(r, "ran") /\ UNCHANGED issued
    BY <1>5 DEF Handled
  <2>2. IssuedOk'
    BY <2>1, Unfolded DEF IssuedOk
  <2>3. QED
    BY <2>1, <2>2, RequestKeeps
<1>6. CASE Rebuilds
  <2>1. PICK r \in Requests : /\ Arrives /\ Admitted(r) /\ Judged(r, "ran")
                              /\ issued' = [c \in Challenges |-> Unissued]
    BY <1>6 DEF Rebuilds
  <2>2. IssuedOk'
    BY <2>1, UnissuedType DEF IssuedOk
  <2>3. QED
    BY <2>1, <2>2, RequestKeeps
<1>7. CASE Snapshot
  <2>1. PICK c \in Challenges, password \in BOOLEAN :
          /\ DigestAccepted(c, password)
          /\ issued' = [issued EXCEPT ![c].uses = IF @ < 2 THEN @ + 1 ELSE @]
          /\ call' = [NoCall EXCEPT !.kind = "picture", !.repeated =
                        On("strict nonce") /\ issued[c].uses > 0]
          /\ UNCHANGED <<now, gateQuirks, offline, used, recent, since>>
    BY <1>7 DEF Snapshot
  <2>2. QuirksOk'
    BY <2>1, Unfolded DEF QuirksOk
  <2>3. IssuedOk'
    <3> DEFINE u == issued[c].uses  v == IF u < 2 THEN u + 1 ELSE u
    <3>1. issued \in [Challenges -> [time : Int, uses : 0 .. 2]]
      BY Unfolded DEF IssuedOk
    <3>2. v \in 0 .. 2
      BY <3>1
    <3>3. issued' = [issued EXCEPT ![c] = [issued[c] EXCEPT !.uses = v]]
      BY <2>1
    <3> HIDE DEF v
    <3>4. [issued[c] EXCEPT !.uses = v] \in [time : Int, uses : 0 .. 2]
      BY <3>1, <3>2
    <3>5. QED
      BY <3>1, <3>3, <3>4 DEF IssuedOk
  <2>4. CallOk'
    <3>1. ~(On("strict nonce") /\ issued[c].uses > 0)
      BY <2>1 DEF DigestAccepted
    <3>2. call'.kind = "picture" /\ call'.entitled = TRUE /\ call'.repeated = FALSE
      BY <2>1, <3>1 DEF NoCall
    <3>3. QED
      BY <3>2 DEF CallOk, OnlyWithAuthority, NoRelapse
  <2>5. QED
    BY <2>1, <2>2, <2>3, <2>4, SameClock, SameNonces, SameRecent, Folded
<1>8. CASE SnapshotRefused
  <2>1. /\ Issue /\ call' = [NoCall EXCEPT !.kind = "refused"]
        /\ UNCHANGED <<now, gateQuirks, offline, used, recent, since>>
    BY <1>8 DEF SnapshotRefused
  <2>2. QuirksOk'
    BY <2>1, Unfolded DEF QuirksOk
  <2>3. QED
    BY <2>1, <2>2, IssueKeeps, SameClock, SameNonces, SameRecent, NoCallOk, Folded
<1>9. CASE Resume
  <2>1. offline' = FALSE /\ UNCHANGED <<now, gateQuirks, used, recent, issued, since, call>>
    BY <1>9 DEF Resume
  <2>2. QuirksOk' /\ IssuedOk' /\ CallOk'
    BY <2>1, Unfolded DEF QuirksOk, IssuedOk, CallOk, OnlyWithAuthority, NoRelapse
  <2>3. QED
    BY <2>1, <2>2, SameClock, SameNonces, SameRecent, Folded
<1>10. CASE TimePasses
  <2>1. /\ now < MaxTime /\ now' = now + 1 /\ call' = NoCall
        /\ UNCHANGED <<gateQuirks, offline, used, recent, issued, since>>
    BY <1>10 DEF TimePasses
  <2>2. now \in 0 .. MaxTime /\ MaxTime \in Nat /\ ClockSkew \in Int
    BY Unfolded, GateAssumption DEF ClockOk
  <2>3. now' \in 0 .. MaxTime
    BY <2>1, <2>2
  <2>4. ClockOk'
    BY <2>2, <2>3, TokensLastNext DEF ClockOk
  <2>5. QuirksOk' /\ IssuedOk'
    BY <2>1, Unfolded DEF QuirksOk, IssuedOk
  <2>6. UsedOk'
    BY <2>1, <2>2, Unfolded DEF UsedOk, DeviceTime
  <2>7. RecentOk'
    <3>1. \A i \in 1 .. Len(recent) : recent[i] \in Nat /\ recent[i] <= now
      BY Unfolded, ElementOfSeq DEF RecentOk, Counted
    <3>2. QED
      BY <2>1, <2>2, <3>1, Unfolded DEF RecentOk, Counted
  <2>8. QED
    BY <2>1, <2>4, <2>5, <2>6, <2>7, NoCallOk, Folded
<1>11. CASE Switch
  <2>1. PICK quirk \in QuirkIds :
          /\ gateQuirks' = IF On(quirk) THEN gateQuirks \ {quirk} ELSE gateQuirks \cup {quirk}
          /\ call' = NoCall
          /\ UNCHANGED <<now, offline, used, recent, issued, since>>
    BY <1>11 DEF Switch
  <2>2. QuirksOk' /\ IssuedOk'
    BY <2>1, Unfolded DEF QuirksOk, IssuedOk
  <2>3. QED
    BY <2>1, <2>2, SameClock, SameNonces, SameRecent, NoCallOk, Folded
<1>12. CASE UNCHANGED gateVars
  <2>1. UNCHANGED <<now, gateQuirks, offline, used, recent, issued, since, call>>
    BY <1>12 DEF gateVars
  <2>2. QuirksOk' /\ IssuedOk' /\ CallOk'
    BY <2>1, Unfolded DEF QuirksOk, IssuedOk, CallOk, OnlyWithAuthority, NoRelapse
  <2>3. QED
    BY <2>1, <2>2, SameClock, SameNonces, SameRecent, Folded
<1>13. QED
  BY <1>1, <1>2, <1>3, <1>4, <1>5, <1>6, <1>7, <1>8, <1>9, <1>10, <1>11, <1>12 DEF GateNext

LEMMA InitIInv == GateInit => GateInv
<1> SUFFICES ASSUME GateInit PROVE GateInv
  OBVIOUS
<1>1. /\ now = 0 /\ gateQuirks \in {{}, QuirkIds \cup Lasting} /\ offline = FALSE
      /\ used = [n \in Nonces |-> Never] /\ recent = <<>> /\ since = 0
      /\ issued = [c \in Challenges |-> Unissued] /\ call = NoCall
  BY DEF GateInit
<1>2. GateTypeOK /\ Noted
  <2>1. MaxTime \in Nat /\ 0 \in 0 .. MaxTime
    BY GateAssumption
  <2>2. DOMAIN <<>> = {}
    OBVIOUS
  <2>3. QED
    BY <1>1, <2>1, <2>2, UnissuedType DEF GateTypeOK, Noted, Never, Unissued
<1>3. Counted
  <2>1. <<>> \in Seq(Nat) /\ Len(<<>>) = 0 /\ Threshold \in Nat
    BY GateAssumption
  <2>2. QED
    BY <1>1, <2>1 DEF Counted
<1>4. OnlyWithAuthority /\ NoRelapse
  BY <1>1 DEF OnlyWithAuthority, NoRelapse, NoCall
<1>5. TokenLasts
  BY <1>1, TokensLast
<1>6. QED
  BY <1>2, <1>3, <1>4, <1>5 DEF GateInv, GateConsistent

\* Whatever the gateQuirks, clocks, outages and rebuilt services: what is carried out was
\* asked by somebody whose password was checked and whose level suffices, one nonce
\* opens one door, an overload is judged by what came after the last, and a snapshot
\* token is good for one to two windows.
THEOREM GateHolds == GateSpec => []GateConsistent
<1>1. GateInit => GateInv
  BY InitIInv
<1>2. GateInv /\ [GateNext]_gateVars => GateInv'
  BY NextIInv
<1>3. GateInv => GateConsistent
  BY DEF GateInv
<1>4. QED
  BY <1>1, <1>2, <1>3, PTL DEF GateSpec

-----------------------------------------------------------------------------
(* Refusals.                                                                *)

\* The nonce of a client that mistyped its password is good for the next try.
THEOREM RefusalsBurnNothing == GateSpec => RefusalBurnsNothing
<1> DEFINE Burned == call'.kind = "refused" =>
                       /\ \A n \in Nonces : used'[n] \in {used[n], Never}
                       /\ \A c \in Challenges : issued'[c].uses <= issued[c].uses
           three == <<used, issued, call>>
<1>1. GateInit => GateInv
  BY InitIInv
<1>2. GateInv /\ [GateNext]_gateVars => GateInv'
  BY NextIInv
<1>3. GateInv /\ [GateNext]_gateVars => [Burned]_three
  <2> SUFFICES ASSUME GateInv, [GateNext]_gateVars PROVE Burned \/ UNCHANGED three
    OBVIOUS
  <2>1. issued \in [Challenges -> [time : Int, uses : 0 .. 2]]
    BY Unfolded DEF IssuedOk
  <2>2. \A c \in Challenges : issued[c].uses <= issued[c].uses
    BY <2>1
  <2>3. CASE AuthRefused
    <3>1. PICK r \in Requests :
            /\ Arrives /\ UNCHANGED issued
            /\ Judged(r, IF Proven(r) THEN "denied" ELSE "refused")
      BY <2>3 DEF AuthRefused
    <3>2. now' = now
      BY <3>1 DEF Arrives
    <3>3. /\ ~Proven(r) => \A n \in Nonces : used'[n] \in {used[n], Never}
          /\ call'.kind = IF Proven(r) THEN "denied" ELSE "refused"
      BY <3>1, <3>2, JudgedKeeps
    <3>4. QED
      BY <2>2, <3>1, <3>3
  <2>4. CASE SnapshotRefused
    <3>1. Issue /\ used' = used
      BY <2>4 DEF SnapshotRefused
    <3>2. QED
      BY <3>1, IssueKeeps
  <2>5. CASE call' = NoCall
    BY <2>5 DEF NoCall
  <2>6. CASE RandomDropout \/ Unsupported \/ TimePasses \/ Switch
    BY <2>5, <2>6 DEF RandomDropout, Unsupported, TimePasses, Switch
  <2>7. CASE Overload \/ Snapshot
    <3>1. call'.kind # "refused"
      BY <2>7 DEF Overload, Snapshot, NoCall
    <3>2. QED
      BY <3>1
  <2>8. CASE Handled \/ Rebuilds
    <3>1. call'.kind # "refused"
      BY <2>8 DEF Handled, Rebuilds, Judged
    <3>2. QED
      BY <3>1
  <2>9. CASE Resume \/ UNCHANGED gateVars
    BY <2>9 DEF Resume, gateVars
  <2>10. QED
    BY <2>3, <2>4, <2>6, <2>7, <2>8, <2>9 DEF GateNext
<1>4. QED
  BY <1>1, <1>2, <1>3, PTL DEF GateSpec, RefusalBurnsNothing

-----------------------------------------------------------------------------
(* DeviceAdmin.                                                            *)

\* What the invariant rests on: two users never have one name.
Users == [name : KnownNames, level : UserLevels]
Distinct(us) == \A i, j \in DOMAIN us : us[i].name = us[j].name => i = j
UsersOk(us) == us \in Seq(Users) /\ Distinct(us) /\ Len(us) <= MaxUsers

AdminInv == UsersOk(users) /\ FixedScopes \subseteq scopes /\ discoveryMode \in Modes

\* Sequences without one of their entries.
LEMMA WithoutOne ==
  ASSUME NEW S, NEW s \in Seq(S), NEW i \in DOMAIN s
  PROVE  /\ RemoveAt(s, i) \in Seq(S)
         /\ Len(RemoveAt(s, i)) = Len(s) - 1
         /\ DOMAIN RemoveAt(s, i) = 1 .. Len(s) - 1
         /\ \A k \in 1 .. Len(s) - 1 : RemoveAt(s, i)[k] = IF k < i THEN s[k] ELSE s[k + 1]
         /\ Range(s) \ {s[i]} \subseteq Range(RemoveAt(s, i))
<1> DEFINE a == SubSeq(s, 1, i - 1)  b == SubSeq(s, i + 1, Len(s))
<1>1. Len(s) \in Nat /\ i \in 1 .. Len(s) /\ DOMAIN s = 1 .. Len(s)
  BY LenProperties
<1>2. \A k \in 1 .. Len(s) : s[k] \in S
  BY ElementOfSeq
<1>3. /\ a \in Seq(S) /\ Len(a) = i - 1
      /\ \A k \in 1 .. i - 1 : a[k] = s[k]
  <2>1. \A k \in 1 .. i - 1 : s[k] \in S
    BY <1>1, <1>2
  <2>2. QED
    BY <1>1, <2>1, SubSeqProperties
<1>4. /\ b \in Seq(S) /\ Len(b) = Len(s) - i
      /\ \A k \in 1 .. Len(s) - i : b[k] = s[k + i]
  <2>1. \A k \in i + 1 .. Len(s) : s[k] \in S
    BY <1>1, <1>2
  <2>2. /\ b \in Seq(S)
        /\ Len(b) = IF i + 1 <= Len(s) THEN Len(s) - (i + 1) + 1 ELSE 0
        /\ \A k \in 1 .. Len(s) - (i + 1) + 1 : b[k] = s[i + 1 + k - 1]
    BY <1>1, <2>1, SubSeqProperties
  <2>3. Len(b) = Len(s) - i
    BY <1>1, <2>2
  <2>4. ASSUME NEW k \in 1 .. Len(s) - i PROVE b[k] = s[k + i]
    <3>1. k \in 1 .. Len(s) - (i + 1) + 1 /\ i + 1 + k - 1 = k + i
      BY <1>1
    <3>2. QED
      BY <2>2, <3>1
  <2>5. QED
    BY <2>2, <2>3, <2>4
<1> HIDE DEF a, b
<1>5. /\ a \o b \in Seq(S) /\ Len(a \o b) = Len(s) - 1
      /\ \A k \in 1 .. Len(s) - 1 : (a \o b)[k] = IF k < i THEN s[k] ELSE s[k + 1]
  <2>1. /\ a \o b \in Seq(S) /\ Len(a \o b) = Len(a) + Len(b)
        /\ \A k \in 1 .. Len(a) + Len(b) :
             (a \o b)[k] = IF k <= Len(a) THEN a[k] ELSE b[k - Len(a)]
    BY <1>3, <1>4, ConcatProperties
  <2>2. ASSUME NEW k \in 1 .. Len(s) - 1
        PROVE  (a \o b)[k] = IF k < i THEN s[k] ELSE s[k + 1]
    <3>1. k \in 1 .. Len(a) + Len(b)
      BY <1>1, <1>3, <1>4
    <3>2. CASE k < i
      <4>1. k <= Len(a) /\ k \in 1 .. i - 1
        BY <1>1, <1>3, <3>2
      <4>2. QED
        BY <1>3, <2>1, <3>1, <3>2, <4>1
    <3>3. CASE ~(k < i)
      <4>1. ~(k <= Len(a)) /\ k - Len(a) \in 1 .. Len(s) - i /\ k - Len(a) + i = k + 1
        BY <1>1, <1>3, <3>3
      <4>2. QED
        BY <1>4, <2>1, <3>1, <3>3, <4>1
    <3>4. QED
      BY <3>2, <3>3
  <2>3. QED
    BY <1>1, <1>3, <1>4, <2>1, <2>2
<1>6. RemoveAt(s, i) = a \o b
  BY DEF RemoveAt, a, b
<1>7. DOMAIN (a \o b) = 1 .. Len(s) - 1
  BY <1>5, LenProperties
<1>8. ASSUME NEW x \in Range(s) \ {s[i]} PROVE x \in Range(a \o b)
  <2>1. PICK k \in DOMAIN s : x = s[k]
    BY DEF Range
  <2>2. k # i
    BY <2>1
  <2>3. CASE k < i
    <3>1. k \in 1 .. Len(s) - 1
      BY <1>1, <2>3
    <3>2. (a \o b)[k] = x
      BY <1>5, <2>1, <2>3, <3>1
    <3>3. QED
      BY <1>7, <3>1, <3>2 DEF Range
  <2>4. CASE k > i
    <3>1. k - 1 \in 1 .. Len(s) - 1 /\ ~(k - 1 < i) /\ (k - 1) + 1 = k
      BY <1>1, <2>4
    <3>2. (a \o b)[k - 1] = x
      BY <1>5, <2>1, <3>1
    <3>3. QED
      BY <1>7, <3>1, <3>2 DEF Range
  <2>5. QED
    BY <1>1, <2>2, <2>3, <2>4
<1>9. QED
  BY <1>5, <1>6, <1>7, <1>8

\* The users, counted by their names.
LEMMA NamesCounted ==
  ASSUME NEW us, UsersOk(us)
  PROVE  Cardinality(Names(us)) = Len(us)
<1>1. Len(us) \in Nat /\ DOMAIN us = 1 .. Len(us)
  BY LenProperties DEF UsersOk
<1> DEFINE f == [i \in 1 .. Len(us) |-> us[i].name]
<1>2. f \in Bijection(1 .. Len(us), Names(us))
  <2>1. f \in [1 .. Len(us) -> Names(us)]
    BY <1>1 DEF Names, Range
  <2>2. \A i, j \in 1 .. Len(us) : f[i] = f[j] => i = j
    BY <1>1 DEF UsersOk, Distinct
  <2>3. \A n \in Names(us) : \E i \in 1 .. Len(us) : f[i] = n
    BY <1>1 DEF Names, Range
  <2>4. QED
    BY <2>1, <2>2, <2>3 DEF Bijection, Injection, Surjection, IsInjective
<1>3. ExistsBijection(1 .. Len(us), Names(us))
  BY <1>2 DEF ExistsBijection
<1>4. QED
  BY <1>1, <1>3, FS_CountingElements

LEMMA PlaceFound ==
  ASSUME NEW us, NEW name \in Names(us)
  PROVE  PlaceOf(us, name) \in DOMAIN us /\ us[PlaceOf(us, name)].name = name
BY DEF PlaceOf, Names, Range

\* One entry of a list, carried out or refused, keeps the users in order.
LEMMA CreateOneKeeps ==
  ASSUME NEW us, UsersOk(us),
         NEW new \in [name : NewNames \cup {Nameless, FirstUsers[1].name},
                      level : {"Administrator", "User", BadLevel}]
  PROVE  /\ UsersOk(CreateOne(us, new).value)
         /\ Admins(us) \subseteq Admins(CreateOne(us, new).value)
<1>1. Len(us) \in Nat /\ DOMAIN us = 1 .. Len(us) /\ us \in Seq(Users)
  BY LenProperties DEF UsersOk
<1>2. CASE /\ Len(us) < MaxUsers /\ new.name # Nameless /\ new.name \notin Names(us)
           /\ new.level # BadLevel
  <2>1. new \in Users
    <3>1. FirstUsers[1].name \in KnownNames
      <4>1. 1 \in DOMAIN FirstUsers
        BY AdminAssumption, LenProperties
      <4>2. QED
        BY <4>1 DEF KnownNames, Range
    <3>2. QED
      BY <1>2, <3>1, AdminAssumption DEF Users, KnownNames
  <2> DEFINE t == Append(us, new)
  <2>2. /\ t \in Seq(Users) /\ Len(t) = Len(us) + 1 /\ t[Len(us) + 1] = new
        /\ \A i \in 1 .. Len(us) : t[i] = us[i]
    BY <1>1, <2>1, AppendProperties
  <2>3. DOMAIN t = 1 .. Len(us) + 1
    BY <2>2, LenProperties
  <2>4. CreateOne(us, new).value = t
    BY <1>2 DEF CreateOne, Done
  <2> HIDE DEF t
  <2>5. \A i \in 1 .. Len(us) : us[i].name # new.name
    BY <1>1, <1>2 DEF Names, Range
  <2>6. Distinct(t)
    BY <1>1, <2>2, <2>3, <2>5 DEF UsersOk, Distinct
  <2>7. Range(us) \subseteq Range(t)
    BY <1>1, <2>2, <2>3 DEF Range
  <2>8. Len(t) <= MaxUsers
    BY <1>1, <1>2, <2>2, AdminAssumption
  <2>9. QED
    BY <2>2, <2>4, <2>6, <2>7, <2>8 DEF UsersOk, Admins
<1>3. CASE ~(/\ Len(us) < MaxUsers /\ new.name # Nameless /\ new.name \notin Names(us)
             /\ new.level # BadLevel)
  BY <1>3 DEF CreateOne, Refused
<1>4. QED
  BY <1>2, <1>3

LEMMA DeleteOneKeeps ==
  ASSUME NEW us, UsersOk(us), NEW name
  PROVE  /\ UsersOk(DeleteOne(us, name).value)
         /\ Admins(us) # {} => Admins(DeleteOne(us, name).value) # {}
<1>1. Len(us) \in Nat /\ DOMAIN us = 1 .. Len(us) /\ us \in Seq(Users)
  BY LenProperties DEF UsersOk
<1> DEFINE i == PlaceOf(us, name)  t == RemoveAt(us, i)
<1>2. CASE /\ name \in Names(us)
           /\ ~(us[i].level = "Administrator" /\ Cardinality(Admins(us)) <= 1)
  <2>1. DeleteOne(us, name).value = t
    BY <1>2 DEF DeleteOne, Done
  <2>2. i \in DOMAIN us
    BY <1>2, PlaceFound
  <2> HIDE DEF i
  <2>3. /\ t \in Seq(Users) /\ Len(t) = Len(us) - 1 /\ DOMAIN t = 1 .. Len(us) - 1
        /\ \A k \in 1 .. Len(us) - 1 : t[k] = IF k < i THEN us[k] ELSE us[k + 1]
        /\ Range(us) \ {us[i]} \subseteq Range(t)
    BY <1>1, <2>2, WithoutOne
  <2> HIDE DEF t
  <2>4. Distinct(t)
    <3>1. SUFFICES ASSUME NEW j \in 1 .. Len(us) - 1, NEW k \in 1 .. Len(us) - 1,
                          t[j].name = t[k].name
                   PROVE  j = k
      BY <2>3 DEF Distinct
    <3> DEFINE J == IF j < i THEN j ELSE j + 1  K == IF k < i THEN k ELSE k + 1
    <3>2. J \in DOMAIN us /\ K \in DOMAIN us /\ t[j] = us[J] /\ t[k] = us[K]
      BY <1>1, <2>3
    <3>3. J = K
      BY <3>1, <3>2 DEF UsersOk, Distinct
    <3>4. QED
      BY <1>1, <2>2, <3>3
  <2>5. Len(t) <= MaxUsers
    BY <1>1, <2>3, AdminAssumption DEF UsersOk
  <2>6. ASSUME Admins(us) # {} PROVE Admins(t) # {}
    <3>1. \E u \in Admins(us) : u # us[i]
      <4>1. SUFFICES ASSUME Admins(us) \subseteq {us[i]} PROVE FALSE
        OBVIOUS
      <4>2. Admins(us) = {us[i]} /\ us[i].level = "Administrator"
        BY <2>6, <4>1 DEF Admins
      <4>3. Cardinality(Admins(us)) = 1
        BY <4>2, FS_Singleton
      <4>4. QED
        BY <1>2, <4>2, <4>3
    <3>2. QED
      BY <2>3, <3>1 DEF Admins
  <2>7. QED
    BY <2>1, <2>3, <2>4, <2>5, <2>6 DEF UsersOk
<1>3. CASE name \notin Names(us)
  BY <1>3 DEF DeleteOne, Refused
<1>4. CASE us[i].level = "Administrator" /\ Cardinality(Admins(us)) <= 1
  BY <1>4 DEF DeleteOne, Refused
<1>5. QED
  BY <1>2, <1>3, <1>4

LEMMA SetOneKeeps ==
  ASSUME NEW us, UsersOk(us),
         NEW change \in [name : KnownNames,
                         level : {"Administrator", "User", SameLevel, BadLevel}]
  PROVE  /\ UsersOk(SetOne(us, change).value)
         /\ Names(SetOne(us, change).value) = Names(us)
<1>1. Len(us) \in Nat /\ DOMAIN us = 1 .. Len(us) /\ us \in Seq(Users)
  BY LenProperties DEF UsersOk
<1>2. CASE change.name \notin Names(us) \/ change.level = BadLevel
  BY <1>2 DEF SetOne, Refused
<1>3. CASE ~(change.name \notin Names(us) \/ change.level = BadLevel)
  <2> DEFINE t == [k \in 1 .. Len(us) |->
               IF us[k].name = change.name /\ change.level # SameLevel
               THEN [us[k] EXCEPT !.level = change.level] ELSE us[k]]
  <2>1. SetOne(us, change).value = t
    BY <1>1, <1>3 DEF SetOne, Done
  <2>2. \A k \in 1 .. Len(us) : us[k] \in Users
    BY <1>1, ElementOfSeq
  <2>3. \A k \in 1 .. Len(us) : t[k] \in Users /\ t[k].name = us[k].name
    <3>1. change.level # SameLevel => change.level \in UserLevels
      BY <1>3, AdminAssumption
    <3>2. QED
      BY <2>2, <3>1 DEF Users
  <2>4. t \in Seq(Users) /\ Len(t) = Len(us) /\ DOMAIN t = 1 .. Len(us)
    BY <1>1, <2>3, IsASeq, LenProperties
  <2> HIDE DEF t
  <2>5. Names(t) = Names(us)
    BY <1>1, <2>3, <2>4 DEF Names, Range
  <2>6. Distinct(t)
    BY <1>1, <2>3, <2>4 DEF UsersOk, Distinct
  <2>7. QED
    BY <2>1, <2>4, <2>5, <2>6 DEF UsersOk
<1>4. QED
  BY <1>2, <1>3

\* A list: what each of its entries keeps, the list keeps, however far it gets.
LEMMA ListEntries ==
  ASSUME NEW S, NEW list \in Lists(S)
  PROVE  list[1] \in S /\ Len(list) \in {1, 2} /\ (Len(list) # 1 => list[2] \in S)
BY DEF Lists

LEMMA InitAdmin == AdminInit => AdminInv
<1> SUFFICES ASSUME AdminInit PROVE AdminInv
  OBVIOUS
<1>1. Len(FirstUsers) \in Nat /\ DOMAIN FirstUsers = 1 .. Len(FirstUsers)
  BY AdminAssumption, LenProperties
<1>2. \A i \in 1 .. Len(FirstUsers) : FirstUsers[i] \in Users
  <2>1. \A i \in 1 .. Len(FirstUsers) : FirstUsers[i] \in [name : STRING, level : UserLevels]
    BY AdminAssumption, ElementOfSeq
  <2>2. \A i \in 1 .. Len(FirstUsers) : FirstUsers[i].name \in KnownNames
    BY <1>1 DEF KnownNames, Range
  <2>3. QED
    BY <2>1, <2>2 DEF Users
<1>3. FirstUsers \in Seq(Users)
  BY <1>1, <1>2, AdminAssumption, SeqDef
<1>4. QED
  BY <1>3, AdminAssumption DEF AdminInit, AdminInv, UsersOk, Distinct, Modes, DefaultMode

LEMMA CreateUsersKeeps ==
  ASSUME AdminInv, CreateUsers
  PROVE  UsersOk(users') /\ Admins(users) \subseteq Admins(users')
<1> DEFINE E == [name : NewNames \cup {Nameless, FirstUsers[1].name},
                 level : {"Administrator", "User", BadLevel}]
<1>1. PICK list \in Lists(E) : users' = Carried(CreateOne, users, list).value
  BY DEF CreateUsers
<1>2. list[1] \in E /\ (Len(list) # 1 => list[2] \in E)
  BY ListEntries
<1> DEFINE first == CreateOne(users, list[1])
<1>3. UsersOk(first.value) /\ Admins(users) \subseteq Admins(first.value)
  BY <1>2, CreateOneKeeps DEF AdminInv
<1>4. CASE first.refused \/ Len(list) = 1
  <2>1. users' = first.value
    BY <1>1, <1>4 DEF Carried
  <2>2. QED
    BY <1>3, <2>1
<1>5. CASE ~(first.refused \/ Len(list) = 1)
  <2>1. users' = CreateOne(first.value, list[2]).value
    BY <1>1, <1>5 DEF Carried
  <2> HIDE DEF first
  <2>2. UsersOk(users') /\ Admins(first.value) \subseteq Admins(users')
    BY <1>2, <1>3, <1>5, <2>1, CreateOneKeeps
  <2>3. QED
    BY <1>3, <2>2
<1>6. QED
  BY <1>4, <1>5

LEMMA DeleteUsersKeeps ==
  ASSUME AdminInv, DeleteUsers
  PROVE  UsersOk(users') /\ (Admins(users) # {} => Admins(users') # {})
<1>1. PICK list \in Lists(KnownNames) : users' = Carried(DeleteOne, users, list).value
  BY DEF DeleteUsers
<1> DEFINE first == DeleteOne(users, list[1])
<1>2. UsersOk(first.value) /\ (Admins(users) # {} => Admins(first.value) # {})
  BY DeleteOneKeeps DEF AdminInv
<1>3. CASE first.refused \/ Len(list) = 1
  <2>1. users' = first.value
    BY <1>1, <1>3 DEF Carried
  <2>2. QED
    BY <1>2, <2>1
<1>4. CASE ~(first.refused \/ Len(list) = 1)
  <2>1. users' = DeleteOne(first.value, list[2]).value
    BY <1>1, <1>4 DEF Carried
  <2> HIDE DEF first
  <2>2. UsersOk(users') /\ (Admins(first.value) # {} => Admins(users') # {})
    BY <1>2, <2>1, DeleteOneKeeps
  <2>3. QED
    BY <1>2, <2>2
<1>5. QED
  BY <1>3, <1>4

LEMMA SetUserKeeps ==
  ASSUME AdminInv, SetUser
  PROVE  UsersOk(users') /\ Names(users') = Names(users)
<1> DEFINE E == [name : KnownNames, level : {"Administrator", "User", SameLevel, BadLevel}]
<1>1. PICK list \in Lists(E) : users' = Carried(SetOne, users, list).value
  BY DEF SetUser
<1>2. list[1] \in E /\ (Len(list) # 1 => list[2] \in E)
  BY ListEntries
<1> DEFINE first == SetOne(users, list[1])
<1>3. UsersOk(first.value) /\ Names(first.value) = Names(users)
  BY <1>2, SetOneKeeps DEF AdminInv
<1>4. CASE first.refused \/ Len(list) = 1
  <2>1. users' = first.value
    BY <1>1, <1>4 DEF Carried
  <2>2. QED
    BY <1>3, <2>1
<1>5. CASE ~(first.refused \/ Len(list) = 1)
  <2>1. users' = SetOne(first.value, list[2]).value
    BY <1>1, <1>5 DEF Carried
  <2> HIDE DEF first
  <2>2. UsersOk(users') /\ Names(users') = Names(first.value)
    BY <1>2, <1>3, <1>5, <2>1, SetOneKeeps
  <2>3. QED
    BY <1>3, <2>2
<1>6. QED
  BY <1>4, <1>5

LEMMA RemoveScopesKeeps ==
  ASSUME AdminInv, RemoveScopes
  PROVE  FixedScopes \subseteq scopes'
<1>1. PICK list : scopes' = Carried(RemoveOne, scopes, list).value
  BY DEF RemoveScopes
<1>2. \A ss, scope : FixedScopes \subseteq ss => FixedScopes \subseteq RemoveOne(ss, scope).value
  BY DEF RemoveOne, Done, Refused
<1> DEFINE first == RemoveOne(scopes, list[1])
<1>3. FixedScopes \subseteq first.value
  BY <1>2 DEF AdminInv
<1>4. CASE first.refused \/ Len(list) = 1
  <2>1. scopes' = first.value
    BY <1>1, <1>4 DEF Carried
  <2>2. QED
    BY <1>3, <2>1
<1>5. CASE ~(first.refused \/ Len(list) = 1)
  <2>1. scopes' = RemoveOne(first.value, list[2]).value
    BY <1>1, <1>5 DEF Carried
  <2>2. QED
    BY <1>2, <1>3, <2>1
<1>6. QED
  BY <1>4, <1>5

\* The mode is kept by a refused list and the default after everything else.
LEMMA ModeKept ==
  ASSUME AdminInv, [AdminNext]_adminVars
  PROVE  discoveryMode' \in Modes
<1>1. \A o : AfterList(o) => discoveryMode' \in {discoveryMode, DefaultMode}
  BY DEF AfterList, ServicesReplaced
<1>2. CreateUsers \/ DeleteUsers \/ SetUser \/ RemoveScopes => discoveryMode' \in {discoveryMode, DefaultMode}
  BY <1>1 DEF CreateUsers, DeleteUsers, SetUser, RemoveScopes
<1>3. SetScopes \/ AddScopes \/ OtherChange => discoveryMode' = DefaultMode
  BY DEF SetScopes, AddScopes, OtherChange, ServicesReplaced
<1>4. SetDiscoveryMode => discoveryMode' \in Modes
  BY DEF SetDiscoveryMode
<1>5. UNCHANGED adminVars => discoveryMode' = discoveryMode
  BY DEF adminVars
<1>6. discoveryMode \in Modes /\ DefaultMode \in Modes
  BY DEF AdminInv, Modes
<1>7. QED
  BY <1>2, <1>3, <1>4, <1>5, <1>6 DEF AdminNext

LEMMA AdminStep == AdminInv /\ [AdminNext]_adminVars => AdminInv'
<1> SUFFICES ASSUME AdminInv, [AdminNext]_adminVars PROVE AdminInv'
  OBVIOUS
<1>1. discoveryMode' \in Modes
  BY ModeKept
<1>2. UsersOk(users') /\ FixedScopes \subseteq scopes'
  <2>1. CASE CreateUsers
    BY <2>1, CreateUsersKeeps DEF CreateUsers, AdminInv
  <2>2. CASE DeleteUsers
    BY <2>2, DeleteUsersKeeps DEF DeleteUsers, AdminInv
  <2>3. CASE SetUser
    BY <2>3, SetUserKeeps DEF SetUser, AdminInv
  <2>4. CASE RemoveScopes
    BY <2>4, RemoveScopesKeeps DEF RemoveScopes, AdminInv
  <2>5. CASE SetScopes
    BY <2>5 DEF SetScopes, AdminInv
  <2>6. CASE AddScopes
    BY <2>6 DEF AddScopes, AdminInv
  <2>7. CASE SetDiscoveryMode
    BY <2>7 DEF SetDiscoveryMode, AdminInv
  <2>8. CASE OtherChange
    BY <2>8 DEF OtherChange, AdminInv
  <2>9. CASE UNCHANGED adminVars
    BY <2>9 DEF adminVars, AdminInv
  <2>10. QED
    BY <2>1, <2>2, <2>3, <2>4, <2>5, <2>6, <2>7, <2>8, <2>9 DEF AdminNext
<1>3. QED
  BY <1>1, <1>2 DEF AdminInv

\* Whatever lists were carried out in part (the handlers of CreateUsers, DeleteUsers,
\* SetUser and RemoveScopes), users differ in name, fit in and have known levels, and
\* no fixed scope is lost.
THEOREM AdministrationHolds == AdminSpec => []AdminConsistent
<1>1. AdminInit => AdminInv
  BY InitAdmin
<1>2. AdminInv /\ [AdminNext]_adminVars => AdminInv'
  BY AdminStep
<1>3. AdminInv => AdminConsistent
  <2>1. ASSUME AdminInv PROVE \A u \in Range(users) : u \in Users
    <3>1. DOMAIN users = 1 .. Len(users) /\ users \in Seq(Users)
      BY <2>1, LenProperties DEF AdminInv, UsersOk
    <3>2. QED
      BY <3>1, ElementOfSeq DEF Range
  <2>2. QED
    BY <2>1, NamesCounted DEF AdminInv, UsersOk, AdminConsistent, Users
<1>4. QED
  BY <1>1, <1>2, <1>3, PTL DEF AdminSpec

\* No deletion leaves a camera without an administrator (DeleteUsers counts those that
\* are left for each name of its list); only a SetUser can, and it keeps every name.
THEOREM LastAdminStays == AdminSpec => NeverDeletesLastAdmin
<1>1. AdminInit => AdminInv
  BY InitAdmin
<1>2. AdminInv /\ [AdminNext]_adminVars => AdminInv'
  BY AdminStep
<1>3. AdminInv /\ [AdminNext]_adminVars =>
      [Admins(users) # {} /\ Admins(users') = {} => Names(users') = Names(users)]_users
  <2> SUFFICES ASSUME AdminInv, [AdminNext]_adminVars, users' # users,
                      Admins(users) # {}, Admins(users') = {}
               PROVE  Names(users') = Names(users)
    OBVIOUS
  <2>1. ~CreateUsers
    BY CreateUsersKeeps
  <2>2. ~DeleteUsers
    BY DeleteUsersKeeps
  <2>3. ~(SetScopes \/ AddScopes \/ RemoveScopes \/ SetDiscoveryMode \/ OtherChange)
    BY DEF SetScopes, AddScopes, RemoveScopes, SetDiscoveryMode, OtherChange
  <2>4. SetUser
    BY <2>1, <2>2, <2>3 DEF AdminNext, adminVars
  <2>5. QED
    BY <2>4, SetUserKeeps
<1>4. QED
  BY <1>1, <1>2, <1>3, PTL DEF AdminSpec, NeverDeletesLastAdmin

-----------------------------------------------------------------------------
(* LazyMotion.                                                             *)

\* A group of axes between its limits, as PtzState and ImagingState keep it.
Motions(A) ==
  [mode : {"idle", "continuous", "target"}, value : [A -> Int], vel : [A -> Int],
   target : [A -> Int], left : Nat \cup {None}, hold : Nat \cup {None}]
Limits(A, lo, hi) == \A a \in A : lo[a] \in Int /\ hi[a] \in Int /\ lo[a] <= hi[a]
Sound(g, A, lo, hi) ==
  /\ g \in Motions(A)
  /\ \A a \in A : g.value[a] \in lo[a] .. hi[a]
  /\ g.mode = "target" => \A a \in A : g.vel[a] >= 0 /\ g.target[a] \in lo[a] .. hi[a]
  /\ g.mode = "idle" => \A a \in A : g.vel[a] = 0

-----------------------------------------------------------------------------
LEMMA ClampBounds ==
  ASSUME NEW v \in Int, NEW lo \in Int, NEW hi \in Int, lo <= hi
  PROVE  Clamp(v, lo, hi) \in lo .. hi /\ (v \in lo .. hi => Clamp(v, lo, hi) = v)
BY DEF Clamp

\* Two stretches of time at one velocity.
LEMMA Stretches ==
  ASSUME NEW x \in Int, NEW d \in Nat, NEW e \in Nat
  PROVE  /\ x * d \in Int /\ x * e \in Int /\ x * (d + e) = x * d + x * e
         /\ x >= 0 => x * d >= 0 /\ x * e >= 0
         /\ x <= 0 => x * d <= 0 /\ x * e <= 0
         /\ x * 0 = 0
<1>1. x * d \in Int /\ x * e \in Int /\ x * (d + e) = x * d + x * e /\ x * 0 = 0
  OBVIOUS
<1>2. ASSUME NEW k \in Nat, NEW y \in Nat PROVE y * k >= 0
  OBVIOUS
<1>3. ASSUME NEW k \in Nat, x >= 0 PROVE x * k >= 0
  BY <1>2, <1>3
<1>4. ASSUME NEW k \in Nat, x <= 0 PROVE x * k <= 0
  <2>1. -x \in Nat /\ (-x) * k = -(x * k) /\ x * k \in Int
    BY <1>4
  <2>2. (-x) * k >= 0
    BY <1>2, <2>1
  <2>3. QED
    BY <2>1, <2>2
<1>5. QED
  BY <1>1, <1>3, <1>4

\* One axis: it stays between its limits, and two integrations are one, however the
\* time is cut.
LEMMA CruisedInside ==
  ASSUME NEW lo, NEW hi, NEW v, NEW x, NEW d,
         lo \in Int, hi \in Int, lo <= hi, v \in lo .. hi, x \in Int, d \in Nat
  PROVE  Cruised(v, x, d, lo, hi) \in lo .. hi /\ (d = 0 => Cruised(v, x, d, lo, hi) = v)
<1> DEFINE p == x * d
<1>1. p \in Int /\ x * 0 = 0
  OBVIOUS
<1> HIDE DEF p
<1>2. Clamp(v + p, lo, hi) \in lo .. hi /\ Clamp(v + 0, lo, hi) = v
  BY <1>1 DEF Clamp
<1>3. QED
  BY <1>1, <1>2 DEF Cruised, p

LEMMA CruisedTwice ==
  ASSUME NEW lo, NEW hi, NEW v, NEW x, NEW d, NEW e,
         lo \in Int, hi \in Int, lo <= hi, v \in lo .. hi, x \in Int, d \in Nat, e \in Nat
  PROVE  Cruised(Cruised(v, x, d, lo, hi), x, e, lo, hi) = Cruised(v, x, d + e, lo, hi)
<1> DEFINE p == x * d  q == x * e
<1>1. /\ p \in Int /\ q \in Int /\ x * (d + e) = p + q
      /\ x >= 0 => p >= 0 /\ q >= 0
      /\ x <= 0 => p <= 0 /\ q <= 0
  BY Stretches
<1> HIDE DEF p, q
<1>2. Clamp(Clamp(v + p, lo, hi) + q, lo, hi) = Clamp(v + (p + q), lo, hi)
  BY <1>1 DEF Clamp
<1>3. QED
  BY <1>1, <1>2 DEF Cruised, p, q

LEMMA CruisedStuck ==
  ASSUME NEW lo, NEW hi, NEW v, NEW x, NEW e,
         lo \in Int, hi \in Int, lo <= hi, v \in lo .. hi, x \in Int, e \in Nat, ~CanMove(v, x, lo, hi)
  PROVE  Cruised(v, x, e, lo, hi) = v
<1> DEFINE q == x * e
<1>1. q \in Int /\ (x >= 0 => q >= 0) /\ (x <= 0 => q <= 0)
  BY Stretches
<1> HIDE DEF q
<1>2. Clamp(v + q, lo, hi) = v
  BY <1>1 DEF Clamp, CanMove
<1>3. QED
  BY <1>2 DEF Cruised, q

LEMMA ApproachedInside ==
  ASSUME NEW lo, NEW hi, NEW v, NEW goal, NEW r, NEW d,
         lo \in Int, hi \in Int, v \in lo .. hi, goal \in lo .. hi, r \in Nat, d \in Nat
  PROVE  /\ Approached(v, goal, r, d) \in lo .. hi
         /\ d = 0 => Approached(v, goal, r, d) = v
<1> DEFINE p == r * d
<1>1. p \in Nat /\ r * 0 = 0
  BY Stretches
<1> HIDE DEF p
<1> DEFINE A(l) == IF Magnitude(goal - v) <= l THEN goal ELSE IF goal > v THEN v + l ELSE v - l
<1>2. A(p) \in lo .. hi /\ A(0) = v
  BY <1>1 DEF Magnitude
<1>3. A(p) = Approached(v, goal, r, d) /\ (d = 0 => p = 0)
  BY <1>1 DEF Approached, p
<1>4. QED
  BY <1>2, <1>3

LEMMA AtOnce ==
  ASSUME NEW v, NEW goal, NEW r, v \in Int, goal \in Int, r \in Nat
  PROVE  Approached(v, goal, r, 0) = v
<1>1. r * 0 = 0
  OBVIOUS
<1>2. QED
  BY <1>1 DEF Approached, Magnitude

LEMMA Arrived ==
  ASSUME NEW goal, NEW r, NEW d, goal \in Int, r \in Nat, d \in Nat
  PROVE  Approached(goal, goal, r, d) = goal
<1>1. r * d >= 0 /\ r * d \in Int
  BY Stretches
<1>2. QED
  BY <1>1 DEF Approached, Magnitude

LEMMA ApproachedTwice ==
  ASSUME NEW v, NEW goal, NEW r, NEW d, NEW e,
         v \in Int, goal \in Int, r \in Nat, d \in Nat, e \in Nat
  PROVE  Approached(Approached(v, goal, r, d), goal, r, e) = Approached(v, goal, r, d + e)
<1> DEFINE p == r * d  q == r * e
<1>1. p \in Nat /\ q \in Nat /\ r * (d + e) = p + q
  BY Stretches
<1> HIDE DEF p, q
<1> DEFINE A(w, l) == IF Magnitude(goal - w) <= l THEN goal ELSE IF goal > w THEN w + l ELSE w - l
<1>2. A(A(v, p), q) = A(v, p + q)
  BY <1>1 DEF Magnitude
<1>3. /\ A(v, p) = Approached(v, goal, r, d)
      /\ A(A(v, p), q) = Approached(A(v, p), goal, r, e)
      /\ A(v, p + q) = Approached(v, goal, r, d + e)
  BY <1>1 DEF Approached, p, q
<1>4. QED
  BY <1>2, <1>3

-----------------------------------------------------------------------------
\* A group after a command: its fields one by one.
LEMMA Fields ==
  ASSUME NEW A, NEW g \in Motions(A)
  PROVE  /\ g = [mode |-> g.mode, value |-> g.value, vel |-> g.vel, target |-> g.target,
                 left |-> g.left, hold |-> g.hold]
         /\ DOMAIN g.value = A /\ DOMAIN g.vel = A /\ DOMAIN g.target = A
BY DEF Motions

LEMMA StillFields ==
  ASSUME NEW A, NEW g \in Motions(A), NEW val \in [A -> Int]
  PROVE  Still(g, val) = [mode |-> "idle", value |-> val, vel |-> [a \in A |-> 0],
                          target |-> [a \in A |-> 0], left |-> None, hold |-> None]
BY Fields DEF Still

LEMMA LaterTime ==
  ASSUME NEW t, NEW d, NEW e,
         t \in Nat \cup {None}, d \in Nat, e \in Nat
  PROVE  /\ Later(t, d) \in Nat \cup {None}
         /\ Later(Later(t, d), e) = Later(t, d + e)
         /\ Later(t, d) = None <=> t = None
BY DEF Later, None

LEMMA AllowedTime ==
  ASSUME NEW A, NEW g, NEW d,
         g \in Motions(A), d \in Nat
  PROVE  Allowed(g, d) \in Nat /\ Allowed(g, d) <= d /\ (d = 0 => Allowed(g, d) = 0)
BY DEF Allowed, Motions, None

\* Where the axes of a sound group stand after some time: between the limits, and
\* after no time where they were.
LEMMA ValuesInside ==
  ASSUME NEW A, NEW lo, NEW hi, Limits(A, lo, hi), NEW g, Sound(g, A, lo, hi),
         g.mode # "idle", NEW d \in Nat
  PROVE  /\ Values(g, d, lo, hi) \in [A -> Int]
         /\ \A a \in A : Values(g, d, lo, hi)[a] \in lo[a] .. hi[a]
         /\ Values(g, 0, lo, hi) = g.value
<1>1. g \in Motions(A) /\ DOMAIN g.value = A /\ g.value \in [A -> Int]
  BY DEF Sound, Motions
<1>2. ASSUME NEW k \in Nat, NEW a \in A
      PROVE  /\ Values(g, k, lo, hi)[a] \in lo[a] .. hi[a]
             /\ k = 0 => Values(g, k, lo, hi)[a] = g.value[a]
  <2>1. Allowed(g, k) \in Nat /\ (k = 0 => Allowed(g, k) = 0)
    BY <1>1, AllowedTime
  <2>2. /\ lo[a] \in Int /\ hi[a] \in Int /\ lo[a] <= hi[a] /\ g.value[a] \in lo[a] .. hi[a]
        /\ g.vel[a] \in Int
    BY DEF Limits, Sound, Motions
  <2>3. CASE g.mode = "continuous"
    <3>1. Values(g, k, lo, hi)[a] = Cruised(g.value[a], g.vel[a], Allowed(g, k), lo[a], hi[a])
      BY <1>1, <2>3 DEF Values
    <3>2. QED
      BY <2>1, <2>2, <3>1, CruisedInside
  <2>4. CASE g.mode = "target"
    <3>1. Values(g, k, lo, hi)[a] = Approached(g.value[a], g.target[a], g.vel[a], Allowed(g, k))
      BY <1>1, <2>4 DEF Values
    <3>2. g.vel[a] \in Nat /\ g.target[a] \in lo[a] .. hi[a]
      BY <2>2, <2>4 DEF Sound
    <3>3. Approached(g.value[a], g.target[a], g.vel[a], Allowed(g, k)) \in lo[a] .. hi[a]
      BY <2>1, <2>2, <3>2, ApproachedInside
    <3>4. k = 0 => Approached(g.value[a], g.target[a], g.vel[a], Allowed(g, k)) = g.value[a]
      <4>1. Approached(g.value[a], g.target[a], g.vel[a], 0) = g.value[a]
        <5>1. g.value[a] \in Int /\ g.target[a] \in Int
          BY <2>2, <3>2
        <5>2. QED
          BY <3>2, <5>1, AtOnce
      <4>2. QED
        BY <2>1, <4>1
    <3>5. QED
      BY <3>1, <3>3, <3>4
  <2>5. QED
    BY <1>1, <2>3, <2>4 DEF Motions
<1>3. DOMAIN Values(g, d, lo, hi) = A /\ DOMAIN Values(g, 0, lo, hi) = A
  BY <1>1 DEF Values
<1>4. \A a \in A : Values(g, d, lo, hi)[a] \in Int
  BY <1>2 DEF Limits
<1>5. Values(g, d, lo, hi) = [a \in A |-> Values(g, d, lo, hi)[a]]
  BY <1>1 DEF Values
<1>6. Values(g, 0, lo, hi) = [a \in A |-> Values(g, 0, lo, hi)[a]]
  BY <1>1 DEF Values
<1>7. g.value = [a \in A |-> g.value[a]]
  BY <1>1
<1>8. QED
  BY <1>2, <1>4, <1>5, <1>6, <1>7

LEMMA StillSound ==
  ASSUME NEW A, NEW lo, NEW hi, NEW g \in Motions(A), NEW val \in [A -> Int],
         \A a \in A : val[a] \in lo[a] .. hi[a]
  PROVE  Sound(Still(g, val), A, lo, hi) /\ Still(g, val).mode = "idle" /\ Still(g, val).value = val
<1>1. Still(g, val) = [mode |-> "idle", value |-> val, vel |-> [a \in A |-> 0],
                       target |-> [a \in A |-> 0], left |-> None, hold |-> None]
  BY StillFields
<1>2. QED
  BY <1>1 DEF Sound, Motions

\* Integrating keeps a group sound, and integrating no time moves no axis.
LEMMA StepSound ==
  ASSUME NEW A, NEW lo, NEW hi, Limits(A, lo, hi), NEW g, Sound(g, A, lo, hi), NEW d \in Nat
  PROVE  /\ Sound(StepGroup(g, d, lo, hi), A, lo, hi)
         /\ StepGroup(g, 0, lo, hi).value = g.value
<1>1. CASE g.mode = "idle"
  BY <1>1 DEF StepGroup
<1>2. CASE g.mode # "idle"
  <2>1. ASSUME NEW k \in Nat
        PROVE  /\ Sound(StepGroup(g, k, lo, hi), A, lo, hi)
               /\ StepGroup(g, k, lo, hi).value = Values(g, k, lo, hi)
    <3> DEFINE val == Values(g, k, lo, hi)
    <3>1. val \in [A -> Int] /\ \A a \in A : val[a] \in lo[a] .. hi[a]
      BY <1>2, ValuesInside
    <3>2. g \in Motions(A)
      BY DEF Sound
    <3>3. CASE Finished(g, val, k, lo, hi)
      <4>1. StepGroup(g, k, lo, hi) = Still(g, val)
        BY <1>2, <3>3 DEF StepGroup
      <4> HIDE DEF val
      <4>2. QED
        BY <3>1, <3>2, <4>1, StillSound DEF val
    <3>4. CASE ~Finished(g, val, k, lo, hi)
      <4> DEFINE n == [mode |-> g.mode, value |-> val, vel |-> g.vel, target |-> g.target,
                       left |-> Later(g.left, k), hold |-> Later(g.hold, k)]
      <4>1. StepGroup(g, k, lo, hi) = n
        BY <1>2, <3>4 DEF StepGroup, Running
      <4>2. Later(g.left, k) \in Nat \cup {None} /\ Later(g.hold, k) \in Nat \cup {None}
        BY <3>2, LaterTime DEF Motions
      <4> HIDE DEF val
      <4>3. n \in Motions(A)
        BY <3>1, <3>2, <4>2 DEF Motions
      <4>4. Sound(n, A, lo, hi) /\ n.value = val
        BY <1>2, <3>1, <4>3 DEF Sound
      <4>5. QED
        BY <4>1, <4>4 DEF val
    <3>5. QED
      BY <3>3, <3>4
  <2>2. StepGroup(g, 0, lo, hi).value = g.value
    BY <1>2, <2>1, ValuesInside
  <2>3. QED
    BY <2>1, <2>2
<1>3. QED
  BY <1>1, <1>2

\* An axis that is not driven stays where it is.
LEMMA Undriven ==
  ASSUME NEW A, NEW lo, NEW hi, Limits(A, lo, hi), NEW g, Sound(g, A, lo, hi), g.mode # "idle",
         NEW d \in Nat, NEW e \in Nat, Allowed(g, d) = d,
         ~Driving(g, Values(g, d, lo, hi), lo, hi)
  PROVE  Values(g, d + e, lo, hi) = Values(g, d, lo, hi)
<1>1. g \in Motions(A) /\ DOMAIN g.value = A
  BY DEF Sound, Motions
<1>2. PICK x \in Nat : Allowed(g, d + e) = d + x
  BY <1>1 DEF Allowed, Motions, None
<1>3. ASSUME NEW a \in A PROVE Values(g, d + e, lo, hi)[a] = Values(g, d, lo, hi)[a]
  <2>1. /\ lo[a] \in Int /\ hi[a] \in Int /\ lo[a] <= hi[a] /\ g.value[a] \in lo[a] .. hi[a]
        /\ g.vel[a] \in Int
    BY DEF Limits, Sound, Motions
  <2>2. CASE g.mode = "continuous"
    <3> DEFINE w == Cruised(g.value[a], g.vel[a], d, lo[a], hi[a])
    <3>1. /\ Values(g, d, lo, hi)[a] = w
          /\ Values(g, d + e, lo, hi)[a] = Cruised(g.value[a], g.vel[a], d + x, lo[a], hi[a])
      BY <1>1, <1>2, <2>2 DEF Values
    <3>2. ~CanMove(w, g.vel[a], lo[a], hi[a])
      BY <1>1, <2>2, <3>1 DEF Driving
    <3>3. /\ w \in lo[a] .. hi[a]
          /\ Cruised(g.value[a], g.vel[a], d + x, lo[a], hi[a]) =
               Cruised(w, g.vel[a], x, lo[a], hi[a])
      BY <2>1, CruisedTwice, CruisedInside
    <3> HIDE DEF w
    <3>4. QED
      BY <2>1, <3>1, <3>2, <3>3, CruisedStuck
  <2>3. CASE g.mode = "target"
    <3> DEFINE w == Approached(g.value[a], g.target[a], g.vel[a], d)
    <3>1. /\ Values(g, d, lo, hi)[a] = w
          /\ Values(g, d + e, lo, hi)[a] =
               Approached(g.value[a], g.target[a], g.vel[a], d + x)
      BY <1>1, <1>2, <2>3 DEF Values
    <3>2. w = g.target[a]
      BY <1>1, <2>3, <3>1 DEF Driving
    <3>3. g.vel[a] \in Nat /\ g.target[a] \in lo[a] .. hi[a]
      BY <2>1, <2>3 DEF Sound
    <3>4. Approached(g.value[a], g.target[a], g.vel[a], d + x) =
            Approached(w, g.target[a], g.vel[a], x)
      <4>1. w = Approached(g.value[a], g.target[a], g.vel[a], d)
        OBVIOUS
      <4> HIDE DEF w
      <4>2. g.value[a] \in Int /\ g.target[a] \in Int
        BY <2>1, <3>3
      <4>3. QED
        BY <3>3, <4>1, <4>2, ApproachedTwice
    <3>5. Approached(g.target[a], g.target[a], g.vel[a], x) = g.target[a]
      <4>1. g.target[a] \in Int
        BY <2>1, <3>3
      <4>2. QED
        BY <3>3, <4>1, Arrived
    <3> HIDE DEF w
    <3>6. QED
      BY <3>1, <3>2, <3>4, <3>5
  <2>4. QED
    BY <1>1, <2>2, <2>3 DEF Motions
<1>4. Values(g, d, lo, hi) = [a \in A |-> Values(g, d, lo, hi)[a]]
  BY <1>1 DEF Values
<1>5. Values(g, d + e, lo, hi) = [a \in A |-> Values(g, d + e, lo, hi)[a]]
  BY <1>1 DEF Values
<1>6. QED
  BY <1>3, <1>4, <1>5

\* However the time is cut into integrations, the group gets to the same place, at the
\* same time, in the same state (PtzState::Private::advance, ImagingState's focus).
LEMMA StepTwice ==
  ASSUME NEW A, NEW lo, NEW hi, Limits(A, lo, hi), NEW g, Sound(g, A, lo, hi),
         NEW d \in Nat, NEW e \in Nat
  PROVE  StepGroup(StepGroup(g, d, lo, hi), e, lo, hi) = StepGroup(g, d + e, lo, hi)
<1> DEFINE v == Values(g, d, lo, hi)  w == Values(g, d + e, lo, hi)
<1>1. g \in Motions(A) /\ DOMAIN g.value = A /\ g.left \in Nat \cup {None}
      /\ g.hold \in Nat \cup {None} /\ d + e \in Nat
  BY DEF Sound, Motions
<1>2. CASE g.mode = "idle"
  BY <1>2 DEF StepGroup
<1>3. CASE g.mode # "idle" /\ Finished(g, v, d, lo, hi)
  <2>1. w = v /\ Finished(g, w, d + e, lo, hi)
    <3>1. CASE g.left # None /\ d >= g.left
      <4>1. Allowed(g, d) = g.left /\ Allowed(g, d + e) = g.left /\ d + e >= g.left
        BY <1>1, <3>1 DEF Allowed
      <4>2. w = v
        BY <4>1 DEF Values
      <4>3. Finished(g, w, d + e, lo, hi)
        BY <3>1, <4>1 DEF Finished
      <4>4. QED
        BY <4>2, <4>3
    <3>2. CASE ~(g.left # None /\ d >= g.left)
      <4>1. Allowed(g, d) = d
        BY <1>1, <3>2 DEF Allowed
      <4>2. ~Driving(g, v, lo, hi) /\ (g.hold = None \/ d >= g.hold)
        BY <1>3, <3>2 DEF Finished
      <4>3. w = v
        BY <1>3, <4>1, <4>2, Undriven
      <4>4. g.hold = None \/ d + e >= g.hold
        BY <1>1, <4>2
      <4> HIDE DEF v, w
      <4>5. QED
        BY <4>2, <4>3, <4>4 DEF Finished
    <3>3. QED
      BY <3>1, <3>2
  <2>2. StepGroup(g, d, lo, hi) = Still(g, v) /\ StepGroup(g, d + e, lo, hi) = Still(g, w)
    BY <1>3, <2>1 DEF StepGroup
  <2>3. v \in [A -> Int]
    BY <1>3, ValuesInside
  <2> HIDE DEF v, w
  <2>4. Still(g, v).mode = "idle"
    BY <1>1, <2>3, StillFields
  <2>5. QED
    BY <2>1, <2>2, <2>4 DEF StepGroup
<1>4. CASE g.mode # "idle" /\ ~Finished(g, v, d, lo, hi)
  <2> DEFINE n == [mode |-> g.mode, value |-> v, vel |-> g.vel, target |-> g.target,
                   left |-> Later(g.left, d), hold |-> Later(g.hold, d)]
  <2>1. v \in [A -> Int] /\ w \in [A -> Int]
    BY <1>1, <1>4, ValuesInside
  <2>2. StepGroup(g, d, lo, hi) = n
    BY <1>4 DEF StepGroup, Running
  <2>3. g.left = None \/ d < g.left
    BY <1>1, <1>4 DEF Finished
  <2>4. n \in Motions(A) /\ n.mode = g.mode
    <3>1. Later(g.left, d) \in Nat \cup {None} /\ Later(g.hold, d) \in Nat \cup {None}
      BY <1>1, LaterTime
    <3> HIDE DEF v
    <3>2. QED
      BY <1>1, <2>1, <3>1 DEF Motions
  <2>5. /\ Allowed(g, d) = d
        /\ Allowed(n, e) \in Nat /\ Allowed(g, d + e) = d + Allowed(n, e)
    <3>1. CASE g.left = None
      BY <1>1, <3>1 DEF Allowed, Later
    <3>2. CASE g.left # None
      <4>1. n.left = g.left - d /\ g.left - d > 0 /\ n.left # None
        BY <1>1, <2>3, <3>2 DEF Later, None
      <4>2. QED
        BY <1>1, <2>3, <3>2, <4>1 DEF Allowed
    <3>3. QED
      BY <3>1, <3>2
  <2>6. Values(n, e, lo, hi) = w
    <3>1. ASSUME NEW a \in A PROVE Values(n, e, lo, hi)[a] = w[a]
      <4>1. /\ lo[a] \in Int /\ hi[a] \in Int /\ lo[a] <= hi[a] /\ g.value[a] \in lo[a] .. hi[a]
            /\ g.vel[a] \in Int
        BY DEF Limits, Sound, Motions
      <4>2. DOMAIN n.value = A
        BY <2>1
      <4>3. CASE g.mode = "continuous"
        <5>1. /\ v[a] = Cruised(g.value[a], g.vel[a], d, lo[a], hi[a])
              /\ w[a] = Cruised(g.value[a], g.vel[a], d + Allowed(n, e), lo[a], hi[a])
              /\ Values(n, e, lo, hi)[a] = Cruised(v[a], g.vel[a], Allowed(n, e), lo[a], hi[a])
          BY <1>1, <2>4, <2>5, <4>2, <4>3 DEF Values
        <5> HIDE DEF v, w, n
        <5>2. QED
          BY <2>5, <4>1, <5>1, CruisedTwice
      <4>4. CASE g.mode = "target"
        <5>1. /\ v[a] = Approached(g.value[a], g.target[a], g.vel[a], d)
              /\ w[a] = Approached(g.value[a], g.target[a], g.vel[a], d + Allowed(n, e))
              /\ Values(n, e, lo, hi)[a] = Approached(v[a], g.target[a], g.vel[a], Allowed(n, e))
          BY <1>1, <2>4, <2>5, <4>2, <4>4 DEF Values
        <5>2. g.vel[a] \in Nat /\ g.target[a] \in lo[a] .. hi[a]
          BY <4>1, <4>4 DEF Sound
        <5>3. g.value[a] \in Int /\ g.target[a] \in Int
          BY <4>1, <5>2
        <5> HIDE DEF v, w, n
        <5>4. QED
          BY <2>5, <5>1, <5>2, <5>3, ApproachedTwice
      <4>5. QED
        BY <1>1, <1>4, <4>3, <4>4 DEF Motions
    <3>2. Values(n, e, lo, hi) = [a \in A |-> Values(n, e, lo, hi)[a]]
      <4>1. DOMAIN n.value = A
        BY <2>1
      <4> HIDE DEF n
      <4>2. QED
        BY <4>1 DEF Values
    <3>3. w = [a \in A |-> w[a]]
      BY <2>1
    <3> HIDE DEF w, n
    <3>4. QED
      BY <3>1, <3>2, <3>3
  <2>7. Finished(n, w, e, lo, hi) <=> Finished(g, w, d + e, lo, hi)
    <3>1. Driving(n, w, lo, hi) <=> Driving(g, w, lo, hi)
      <4>1. /\ n.mode = g.mode /\ n.vel = g.vel /\ n.target = g.target
            /\ DOMAIN n.value = A /\ DOMAIN g.value = A
        BY <1>1, <2>1
      <4> HIDE DEF n, w
      <4>2. QED
        BY <4>1 DEF Driving
    <3>2. (n.left # None /\ e >= n.left) <=> (g.left # None /\ d + e >= g.left)
      BY <1>1, <2>3 DEF Later, None
    <3>3. (n.hold = None \/ e >= n.hold) <=> (g.hold = None \/ d + e >= g.hold)
      BY <1>1 DEF Later, None
    <3> HIDE DEF n, w
    <3>4. QED
      BY <3>1, <3>2, <3>3 DEF Finished
  <2>8. CASE Finished(g, w, d + e, lo, hi)
    <3>1. StepGroup(g, d + e, lo, hi) = Still(g, w)
      BY <1>4, <2>8 DEF StepGroup
    <3> HIDE DEF n, w
    <3>2. StepGroup(n, e, lo, hi) = Still(n, w)
      BY <1>4, <2>4, <2>6, <2>7, <2>8 DEF StepGroup
    <3>3. Still(n, w) = Still(g, w)
      BY <1>1, <2>1, <2>4, StillFields
    <3>4. QED
      BY <2>2, <3>1, <3>2, <3>3
  <2>9. CASE ~Finished(g, w, d + e, lo, hi)
    <3>1. StepGroup(g, d + e, lo, hi) =
            [mode |-> g.mode, value |-> w, vel |-> g.vel, target |-> g.target,
             left |-> Later(g.left, d + e), hold |-> Later(g.hold, d + e)]
      BY <1>4, <2>9 DEF StepGroup, Running
    <3>2. /\ n.vel = g.vel /\ n.target = g.target
          /\ n.left = Later(g.left, d) /\ n.hold = Later(g.hold, d)
      OBVIOUS
    <3> HIDE DEF n, w
    <3>3. StepGroup(n, e, lo, hi) =
            [mode |-> n.mode, value |-> w, vel |-> n.vel, target |-> n.target,
             left |-> Later(n.left, e), hold |-> Later(n.hold, e)]
      BY <1>4, <2>4, <2>6, <2>7, <2>9 DEF StepGroup, Running
    <3>4. Later(n.left, e) = Later(g.left, d + e) /\ Later(n.hold, e) = Later(g.hold, d + e)
      BY <1>1, <3>2, LaterTime
    <3>5. QED
      BY <2>2, <2>4, <3>1, <3>2, <3>3, <3>4
  <2>10. QED
    BY <2>8, <2>9
<1>5. QED
  BY <1>2, <1>3, <1>4

\* Setting a group going keeps it sound and where it is.
LEMMA DriveSound ==
  ASSUME NEW A, NEW lo, NEW hi, NEW g, Sound(g, A, lo, hi), NEW vel \in [A -> Int],
         NEW t \in Nat
  PROVE  /\ Sound(Drive(g, vel, t), A, lo, hi) /\ Drive(g, vel, t).value = g.value
         /\ Drive(g, vel, t).mode = "continuous"
<1>1. g \in Motions(A)
  BY DEF Sound
<1>2. Drive(g, vel, t) = [mode |-> "continuous", value |-> g.value, vel |-> vel,
                          target |-> [a \in A |-> 0],
                          left |-> IF t > 0 THEN t ELSE None, hold |-> None]
  BY <1>1, Fields DEF Drive
<1>3. QED
  BY <1>1, <1>2 DEF Sound, Motions

LEMMA AimSound ==
  ASSUME NEW A, NEW lo, NEW hi, Limits(A, lo, hi), NEW g, Sound(g, A, lo, hi),
         NEW target \in [A -> Int], NEW rate \in [A -> Nat], NEW hold \in Nat,
         \A a \in A : target[a] \in lo[a] .. hi[a]
  PROVE  /\ Sound(Aim(g, target, rate, hold), A, lo, hi)
         /\ Aim(g, target, rate, hold) =
              [mode |-> "target", value |-> g.value, vel |-> rate, target |-> target,
               left |-> None, hold |-> IF hold > 0 THEN hold ELSE None]
<1>1. g \in Motions(A)
  BY DEF Sound
<1>2. Aim(g, target, rate, hold) =
        [mode |-> "target", value |-> g.value, vel |-> rate, target |-> target,
         left |-> None, hold |-> IF hold > 0 THEN hold ELSE None]
  BY <1>1, Fields DEF Aim
<1>3. rate \in [A -> Int] /\ \A a \in A : rate[a] >= 0
  OBVIOUS
<1> DEFINE n == [mode |-> "target", value |-> g.value, vel |-> rate, target |-> target,
                 left |-> None, hold |-> IF hold > 0 THEN hold ELSE None]
<1>4. n \in Motions(A)
  BY <1>1, <1>3 DEF Motions
<1>5. Sound(n, A, lo, hi)
  BY <1>3, <1>4 DEF Sound
<1>6. QED
  BY <1>2, <1>5

-----------------------------------------------------------------------------
(* PtzState.                                                               *)

\* What the invariant rests on: each group is sound between the limits of its axes,
\* and what is stored can be gone to.
HeadSound(h) ==
  h = [g \in Groups |-> h[g]] /\ \A g \in Groups : Sound(h[g], GroupAxes[g], Lo, Hi)
Stored == [token : Tokens \cup Nat, at : [Axes -> Int]]
PresetsOk == presets \in Seq(Stored) /\ PresetsFit
SignalsOk ==
  /\ lag \in 0 .. MaxLag
  /\ ticker \in BOOLEAN /\ notified \in BOOLEAN /\ pad \in BOOLEAN
  /\ StatusFollowed /\ PadSettles

HeadInv ==
  /\ HeadSound(head) /\ SignalsOk /\ PresetsOk
  /\ home = NoHome \/ home \in [Axes -> Int]

-----------------------------------------------------------------------------
LEMMA AxisLimits == \A g \in Groups : Limits(GroupAxes[g], Lo, Hi) /\ GroupAxes[g] \subseteq Axes
<1>1. \A g \in Groups : GroupAxes[g] \subseteq Axes
  BY DEF Axes
<1>2. QED
  BY <1>1, PtzAssumption DEF Limits

LEMMA AdvanceSound ==
  ASSUME NEW h, HeadSound(h), NEW d, d \in Nat
  PROVE  /\ HeadSound(Advance(h, d))
         /\ \A g \in Groups : Advance(h, 0)[g].value = h[g].value
<1>1. \A g \in Groups : /\ Sound(StepGroup(h[g], d, Lo, Hi), GroupAxes[g], Lo, Hi)
                        /\ StepGroup(h[g], 0, Lo, Hi).value = h[g].value
  BY AxisLimits, StepSound DEF HeadSound
<1>2. QED
  BY <1>1 DEF Advance, HeadSound

LEMMA AdvanceTwice ==
  ASSUME NEW h, HeadSound(h), NEW d, NEW e, d \in Nat, e \in Nat
  PROVE  Advance(Advance(h, d), e) = Advance(h, d + e)
<1>1. \A g \in Groups : StepGroup(StepGroup(h[g], d, Lo, Hi), e, Lo, Hi) =
                          StepGroup(h[g], d + e, Lo, Hi)
  BY AxisLimits, StepTwice DEF HeadSound
<1>2. QED
  BY <1>1 DEF Advance

LEMMA AdvanceAtRest ==
  ASSUME NEW h, HeadSound(h), ~Moving(h), NEW d
  PROVE  Advance(h, d) = h
<1>1. \A g \in Groups : StepGroup(h[g], d, Lo, Hi) = h[g]
  BY DEF Moving, StepGroup
<1>2. h = [g \in Groups |-> h[g]]
  BY DEF HeadSound
<1>3. QED
  BY <1>1, <1>2 DEF Advance

\* Where a sound head stands.
LEMMA PositionInside ==
  ASSUME NEW h, HeadSound(h)
  PROVE  Position(h) \in [Axes -> Int]
<1>1. ASSUME NEW a \in Axes
      PROVE  h[CHOOSE g \in Groups : a \in GroupAxes[g]].value[a] \in Int
  <2> DEFINE g == CHOOSE g \in Groups : a \in GroupAxes[g]
  <2>1. g \in Groups /\ a \in GroupAxes[g]
    BY DEF Axes
  <2> HIDE DEF g
  <2>2. h[g].value \in [GroupAxes[g] -> Int]
    BY <2>1 DEF HeadSound, Sound, Motions
  <2>3. h[g].value[a] \in Int
    BY <2>1, <2>2
  <2>4. QED
    BY <2>3 DEF g
<1>2. QED
  BY <1>1 DEF Position

\* What every command ends with.  A command moves no axis by itself, or says it did.
LEMMA Settles ==
  ASSUME HeadInv, NEW h, HeadSound(h), NEW moved \in BOOLEAN, Settle(h, moved),
         moved \/ \A g \in Groups : h[g].value = Advance(head, lag)[g].value
  PROVE  HeadSound(head') /\ SignalsOk'
<1>1. HeadSound(head') /\ \A g \in Groups : head'[g].value = h[g].value
  BY AdvanceSound DEF Settle
<1>2. lag' \in 0 .. MaxLag
  BY PtzAssumption DEF Settle
<1>3. /\ ticker' = Moving(head') /\ notified' = Moving(head')
      /\ Moving(head') \in BOOLEAN
  BY DEF Settle, Moving
<1>4. pad' \in BOOLEAN
  BY DEF Settle
<1>5. ASSUME ~Moving(head') PROVE pad'
  <2>1. CASE moved
    BY <2>1 DEF Settle
  <2>2. CASE notified
    BY <1>3, <1>5, <2>2 DEF Settle
  <2>3. CASE ~moved /\ ~notified
    <3>1. ~ticker /\ ~Moving(head) /\ pad
      BY <2>3 DEF HeadInv, SignalsOk, StatusFollowed, PadSettles
    <3>2. Advance(head, lag) = head
      BY <3>1, AdvanceAtRest DEF HeadInv
    <3>3. \A g \in Groups : head'[g].value = head[g].value
      BY <1>1, <2>3, <3>2
    <3>4. QED
      BY <3>1, <3>3 DEF Settle, Moved
  <2>4. QED
    BY <2>1, <2>2, <2>3 DEF HeadInv, SignalsOk
<1>6. QED
  BY <1>1, <1>2, <1>3, <1>4, <1>5 DEF SignalsOk, StatusFollowed, PadSettles

LEMMA ReadKeeps ==
  ASSUME HeadInv, Read
  PROVE  HeadSound(head') /\ SignalsOk'
<1>1. HeadSound(head')
  BY AdvanceSound, PtzAssumption DEF Read, HeadInv, SignalsOk
<1>2. ASSUME ~ticker PROVE ~Moving(head') /\ pad'
  <2>1. ~Moving(head) /\ pad
    BY <1>2 DEF HeadInv, SignalsOk, StatusFollowed, PadSettles
  <2>2. head' = head
    BY <2>1, AdvanceAtRest DEF Read, HeadInv
  <2>3. QED
    BY <2>1, <2>2 DEF Read, Moved
<1>3. lag' \in 0 .. MaxLag /\ pad' \in BOOLEAN
  BY PtzAssumption DEF Read
<1>4. QED
  BY <1>1, <1>2, <1>3 DEF Read, HeadInv, SignalsOk, StatusFollowed, PadSettles

LEMMA MovedOrNot ==
  ASSUME NEW h, NEW k PROVE Moved(h, k) \in BOOLEAN
BY DEF Moved

\* A goal, clamped, at a rate that is not negative.
LEMMA RateNatural ==
  ASSUME NEW a \in Axes, NEW from, NEW to, NEW speed, NEW slow,
         from \in Int, to \in Int, speed \in Int, slow \in Nat
  PROVE  Rate(a, from, to, speed, slow) \in Nat
<1>1. CASE slow > 0
  <2> DEFINE n == Magnitude(to - from) + slow - 1
  <2>1. n \in Nat
    BY <1>1 DEF Magnitude
  <2> HIDE DEF n
  <2>2. n \div slow \in Nat
    BY <1>1, <2>1
  <2>3. QED
    BY <1>1, <2>2 DEF Rate, n
<1>2. CASE ~(slow > 0)
  <2>1. BaseRate[a] \in Nat /\ SpeedFactor(speed, FullSpeed) \in Nat
    BY PtzAssumption DEF SpeedFactor, Clamp, Magnitude
  <2>2. BaseRate[a] * SpeedFactor(speed, FullSpeed) \in Nat
    BY <2>1
  <2>3. QED
    BY <1>2, <2>2 DEF Rate
<1>3. QED
  BY <1>1, <1>2

LEMMA AimedSound ==
  ASSUME NEW h, HeadSound(h), NEW gs, NEW goal, NEW speed, NEW slow,
         goal \in [Axes -> Int], speed \in Int, slow \in Nat
  PROVE  /\ HeadSound(Aimed(h, gs, goal, speed, slow))
         /\ \A g \in Groups : Aimed(h, gs, goal, speed, slow)[g].value = h[g].value
<1> DEFINE k == Aimed(h, gs, goal, speed, slow)
<1>1. ASSUME NEW g \in Groups
      PROVE  Sound(k[g], GroupAxes[g], Lo, Hi) /\ k[g].value = h[g].value
  <2>1. CASE g \notin gs
    BY <2>1 DEF Aimed, HeadSound
  <2>2. CASE g \in gs
    <3> DEFINE to == [a \in GroupAxes[g] |-> Clamp(goal[a], Lo[a], Hi[a])]
               rate == [a \in GroupAxes[g] |->
                          Rate(a, h[g].value[a], to[a], speed, slow)]
    <3>1. k[g] = Aim(h[g], to, rate, slow)
      BY <2>2 DEF Aimed
    <3>2. Sound(h[g], GroupAxes[g], Lo, Hi) /\ Limits(GroupAxes[g], Lo, Hi)
          /\ GroupAxes[g] \subseteq Axes
      BY AxisLimits DEF HeadSound
    <3>3. \A a \in GroupAxes[g] : to[a] \in Int /\ to[a] \in Lo[a] .. Hi[a]
      <4> SUFFICES ASSUME NEW a \in GroupAxes[g] PROVE to[a] \in Int /\ to[a] \in Lo[a] .. Hi[a]
        OBVIOUS
      <4>1. goal[a] \in Int /\ Lo[a] \in Int /\ Hi[a] \in Int /\ Lo[a] <= Hi[a]
        BY <3>2 DEF Limits
      <4>2. to[a] = Clamp(goal[a], Lo[a], Hi[a])
        OBVIOUS
      <4>3. QED
        BY <4>1, <4>2 DEF Clamp
    <3>4. to \in [GroupAxes[g] -> Int]
      BY <3>3
    <3> HIDE DEF to
    <3>5. rate \in [GroupAxes[g] -> Nat]
      <4> SUFFICES ASSUME NEW a \in GroupAxes[g]
                   PROVE  Rate(a, h[g].value[a], to[a], speed, slow) \in Nat
        OBVIOUS
      <4>1. h[g].value[a] \in Int /\ a \in Axes /\ to[a] \in Int
        BY <3>2, <3>3 DEF Sound, Motions
      <4>2. QED
        BY <4>1, RateNatural
    <3> HIDE DEF rate, k
    <3>6. QED
      BY <3>1, <3>2, <3>3, <3>4, <3>5, AimSound
  <2>3. QED
    BY <2>1, <2>2
<1>2. k = [g \in Groups |-> k[g]]
  BY DEF Aimed
<1>3. QED
  BY <1>1, <1>2 DEF HeadSound

LEMMA StartTargetKeeps ==
  ASSUME HeadInv, NEW gs, NEW goal, NEW speed, NEW slow,
         goal \in [Axes -> Int], speed \in Int, slow \in Nat,
         StartTarget(gs, goal, speed, slow)
  PROVE  HeadSound(head') /\ SignalsOk'
<1>1. CASE "frozen" \in ptzQuirks
  BY <1>1 DEF StartTarget, HeadInv, HeadSound, SignalsOk, StatusFollowed, PadSettles, Moving
<1>2. CASE "frozen" \notin ptzQuirks
  <2> DEFINE k == Advance(head, lag)  h == Aimed(k, gs, goal, speed, slow)
  <2>1. HeadSound(k)
    BY AdvanceSound DEF HeadInv, SignalsOk
  <2>2. Settle(h, Moved(Advance(h, 0), h))
    BY <1>2 DEF StartTarget
  <2> HIDE DEF k
  <2>3. HeadSound(h) /\ \A g \in Groups : h[g].value = k[g].value
    BY <2>1, AimedSound
  <2> HIDE DEF h
  <2>4. QED
    BY <2>2, <2>3, Settles, MovedOrNot DEF k
<1>3. QED
  BY <1>1, <1>2
-----------------------------------------------------------------------------
\* Commands.
LEMMA ContinuousMoveKeeps ==
  ASSUME HeadInv, ContinuousMove
  PROVE  HeadSound(head') /\ SignalsOk'
<1>1. PICK gs \in SUBSET Groups \ {{}}, velocity \in Velocities, t \in MoveTimeouts :
        IF "frozen" \in ptzQuirks
        THEN UNCHANGED <<head, lag, ticker, notified, pad>>
        ELSE LET h == Driven(Advance(head, lag), gs, velocity, t)
             IN  Settle(h, Moved(Advance(h, 0), h))
  BY DEF ContinuousMove
<1>2. CASE "frozen" \in ptzQuirks
  BY <1>1, <1>2 DEF HeadInv, HeadSound, SignalsOk, StatusFollowed, PadSettles, Moving
<1>3. CASE "frozen" \notin ptzQuirks
  <2> DEFINE k == Advance(head, lag)  h == Driven(k, gs, velocity, t)
  <2>1. HeadSound(k)
    BY AdvanceSound DEF HeadInv, SignalsOk
  <2>2. Settle(h, Moved(Advance(h, 0), h))
    BY <1>1, <1>3
  <2> HIDE DEF k
  <2>3. ASSUME NEW g \in Groups
        PROVE  Sound(h[g], GroupAxes[g], Lo, Hi) /\ h[g].value = k[g].value
    <3>1. CASE g \notin gs
      BY <2>1, <3>1 DEF Driven, HeadSound
    <3>2. CASE g \in gs
      <4> DEFINE vel == [a \in GroupAxes[g] |-> Clamp(velocity[a], -FullSpeed, FullSpeed) * BaseRate[a]]
      <4>1. h[g] = Drive(k[g], vel, t)
        BY <3>2 DEF Driven
      <4>2. vel \in [GroupAxes[g] -> Int]
        <5> SUFFICES ASSUME NEW a \in GroupAxes[g]
                     PROVE  Clamp(velocity[a], -FullSpeed, FullSpeed) * BaseRate[a] \in Int
          OBVIOUS
        <5>1. velocity[a] \in Int /\ BaseRate[a] \in Int /\ FullSpeed \in Nat
          BY AxisLimits, PtzAssumption
        <5>2. Clamp(velocity[a], -FullSpeed, FullSpeed) \in Int
          BY <5>1 DEF Clamp
        <5>3. QED
          BY <5>1, <5>2
      <4>3. t \in Nat
        BY PtzAssumption
      <4> HIDE DEF vel, h
      <4>4. QED
        BY <2>1, <4>1, <4>2, <4>3, DriveSound DEF HeadSound
    <3>3. QED
      BY <3>1, <3>2
  <2>4. h = [g \in Groups |-> h[g]]
    BY DEF Driven
  <2> HIDE DEF h
  <2>5. HeadSound(h)
    BY <2>3, <2>4 DEF HeadSound
  <2>6. QED
    BY <2>2, <2>3, <2>5, Settles, MovedOrNot DEF k
<1>4. QED
  BY <1>2, <1>3

LEMMA AbsoluteMoveKeeps ==
  ASSUME HeadInv, AbsoluteMove
  PROVE  HeadSound(head') /\ SignalsOk'
<1>1. PICK gs \in SUBSET Groups, goal \in Goals, speed \in Speeds : StartTarget(gs, goal, speed, 0)
  BY DEF AbsoluteMove
<1>2. goal \in [Axes -> Int] /\ speed \in Int
  BY PtzAssumption
<1>3. QED
  BY <1>1, <1>2, StartTargetKeeps

LEMMA RelativeMoveKeeps ==
  ASSUME HeadInv, RelativeMove
  PROVE  HeadSound(head') /\ SignalsOk'
<1> DEFINE here == Position(Advance(head, lag))
<1>1. PICK gs \in SUBSET Groups, by \in Goals, speed \in Speeds :
        IF "frozen" \in ptzQuirks THEN Read
        ELSE StartTarget(gs, [a \in Axes |-> here[a] + by[a]], speed, 0)
  BY DEF RelativeMove
<1>2. here \in [Axes -> Int]
  BY AdvanceSound, PositionInside DEF HeadInv, SignalsOk
<1> HIDE DEF here
<1>3. [a \in Axes |-> here[a] + by[a]] \in [Axes -> Int] /\ speed \in Int
  <2>1. by \in [Axes -> Int]
    BY PtzAssumption
  <2>2. QED
    BY <1>2, <2>1, PtzAssumption
<1>4. QED
  BY <1>1, <1>3, StartTargetKeeps, ReadKeeps

\* Groups that rest where they are, or where they are put.
LEMMA RestingSound ==
  ASSUME NEW k, HeadSound(k), NEW gs, NEW val,
         \A g \in Groups \cap gs : /\ val[g] \in [GroupAxes[g] -> Int]
                                   /\ \A a \in GroupAxes[g] : val[g][a] \in Lo[a] .. Hi[a]
  PROVE  HeadSound([g \in Groups |-> IF g \in gs THEN Still(k[g], val[g]) ELSE k[g]])
<1> DEFINE h == [g \in Groups |-> IF g \in gs THEN Still(k[g], val[g]) ELSE k[g]]
<1>1. ASSUME NEW g \in Groups PROVE Sound(h[g], GroupAxes[g], Lo, Hi)
  <2>1. Sound(k[g], GroupAxes[g], Lo, Hi) /\ k[g] \in Motions(GroupAxes[g])
    BY DEF HeadSound, Sound
  <2>2. g \in gs => Sound(Still(k[g], val[g]), GroupAxes[g], Lo, Hi)
    BY <2>1, StillSound
  <2>3. QED
    BY <2>1, <2>2
<1>2. h = [g \in Groups |-> h[g]]
  OBVIOUS
<1> HIDE DEF h
<1>3. HeadSound(h)
  BY <1>1, <1>2 DEF HeadSound
<1>4. QED
  BY <1>3 DEF h

LEMMA StopKeeps ==
  ASSUME HeadInv, Stop
  PROVE  HeadSound(head') /\ SignalsOk'
<1> DEFINE k == Advance(head, lag)
<1>1. PICK gs \in SUBSET Groups : Settle(Stopped(k, gs), Moved(k, head))
  BY DEF Stop
<1>2. HeadSound(k)
  BY AdvanceSound DEF HeadInv, SignalsOk
<1> HIDE DEF k
<1> DEFINE val == [g \in Groups |-> k[g].value]
           h == [g \in Groups |-> IF g \in gs THEN Still(k[g], val[g]) ELSE k[g]]
<1>3. h = Stopped(k, gs)
  BY DEF Stopped
<1>4. \A g \in Groups : /\ val[g] \in [GroupAxes[g] -> Int]
                        /\ \A a \in GroupAxes[g] : val[g][a] \in Lo[a] .. Hi[a]
  BY <1>2 DEF HeadSound, Sound, Motions
<1>5. HeadSound(h)
  <2> HIDE DEF val
  <2>1. QED
    BY <1>2, <1>4, RestingSound
<1>6. \A g \in Groups : h[g].value = k[g].value
  BY DEF Still
<1> HIDE DEF h
<1>7. QED
  BY <1>1, <1>3, <1>5, <1>6, Settles, MovedOrNot DEF k

LEMMA SetPositionKeeps ==
  ASSUME HeadInv, SetPosition
  PROVE  HeadSound(head') /\ SignalsOk'
<1> DEFINE k == Advance(head, lag)
<1>1. PICK gs \in SUBSET Groups, goal \in Goals :
        Settle([g \in Groups |->
             IF g \in gs
             THEN Still(k[g], [a \in GroupAxes[g] |-> Clamp(goal[a], Lo[a], Hi[a])])
             ELSE k[g]], TRUE)
  BY DEF SetPosition
<1>2. HeadSound(k)
  BY AdvanceSound DEF HeadInv, SignalsOk
<1> HIDE DEF k
<1> DEFINE val == [g \in Groups |-> [a \in GroupAxes[g] |-> Clamp(goal[a], Lo[a], Hi[a])]]
           h == [g \in Groups |-> IF g \in gs THEN Still(k[g], val[g]) ELSE k[g]]
<1>3. Settle(h, TRUE)
  <2>1. h = [g \in Groups |->
             IF g \in gs
             THEN Still(k[g], [a \in GroupAxes[g] |-> Clamp(goal[a], Lo[a], Hi[a])])
             ELSE k[g]]
    OBVIOUS
  <2>2. QED
    BY <1>1, <2>1
<1>4. ASSUME NEW g \in Groups
      PROVE  /\ val[g] \in [GroupAxes[g] -> Int]
             /\ \A a \in GroupAxes[g] : val[g][a] \in Lo[a] .. Hi[a]
  <2>1. ASSUME NEW a \in GroupAxes[g]
        PROVE  Clamp(goal[a], Lo[a], Hi[a]) \in Int /\ Clamp(goal[a], Lo[a], Hi[a]) \in Lo[a] .. Hi[a]
    <3>1. goal[a] \in Int /\ Lo[a] \in Int /\ Hi[a] \in Int /\ Lo[a] <= Hi[a]
      BY AxisLimits, PtzAssumption
    <3>2. QED
      BY <3>1 DEF Clamp
  <2>2. QED
    BY <2>1
<1>5. HeadSound(h)
  <2> HIDE DEF val
  <2>1. QED
    BY <1>2, <1>4, RestingSound
<1> HIDE DEF h
<1>6. QED
  BY <1>3, <1>5, Settles

LEMMA GotoPresetKeeps ==
  ASSUME HeadInv, GotoPreset
  PROVE  HeadSound(head') /\ SignalsOk'
<1>1. PICK i \in DOMAIN presets, speed \in Speeds :
        StartTarget(Groups, presets[i].at, speed, IF "slow" \in ptzQuirks THEN SlowTime ELSE 0)
  BY DEF GotoPreset
<1>2. presets[i].at \in [Axes -> Int]
  <2>1. presets \in Seq(Stored) /\ i \in 1 .. Len(presets)
    BY LenProperties DEF HeadInv, PresetsOk
  <2>2. presets[i] \in Stored
    BY <2>1, ElementOfSeq
  <2>3. QED
    BY <2>2 DEF Stored
<1>3. speed \in Int /\ (IF "slow" \in ptzQuirks THEN SlowTime ELSE 0) \in Nat
  BY PtzAssumption
<1>4. QED
  BY <1>1, <1>2, <1>3, StartTargetKeeps

LEMMA GotoHomeKeeps ==
  ASSUME HeadInv, GotoHomePosition
  PROVE  HeadSound(head') /\ SignalsOk'
<1>1. PICK speed \in Speeds : StartTarget(Groups, home, speed, 0)
  BY DEF GotoHomePosition
<1>2. home \in [Axes -> Int] /\ speed \in Int
  BY PtzAssumption DEF GotoHomePosition, HeadInv
<1>3. QED
  BY <1>1, <1>2, StartTargetKeeps

LEMMA TickerKeeps ==
  ASSUME HeadInv, Ticker
  PROVE  HeadSound(head') /\ SignalsOk'
<1> DEFINE k == Advance(head, lag)
<1>1. HeadSound(k)
  BY AdvanceSound DEF HeadInv, SignalsOk
<1>2. PICK moved \in BOOLEAN : Settle(k, moved)
  BY DEF Ticker, Moving, Moved
<1> HIDE DEF k
<1>3. QED
  BY <1>1, <1>2, Settles DEF k

-----------------------------------------------------------------------------
\* Presets.
LEMMA Smallest ==
  ASSUME NEW S \in SUBSET Nat, S # {}
  PROVE  \E n \in S : \A m \in S : n <= m
<1>1. PICK n \in S : \A m \in S : <<m, n>> \notin OpToRel(<, Nat)
  BY WFMin, NatLessThanWellFounded
<1>2. \A m \in S : ~(m < n)
  BY <1>1 DEF OpToRel
<1>3. QED
  BY <1>2

LEMMA FreeTokenFresh ==
  ASSUME PresetsOk
  PROVE  FreeToken \in Nat /\ \A i \in DOMAIN presets : presets[i].token # FreeToken
<1> DEFINE S == {n \in 1 .. Len(presets) + 1 : IndexOf(n) = {}}
<1>1. Len(presets) \in Nat /\ DOMAIN presets = 1 .. Len(presets)
  BY LenProperties DEF PresetsOk
<1>2. S # {}
  <2>1. SUFFICES ASSUME S = {} PROVE FALSE
    OBVIOUS
  <2> DEFINE f == [n \in 1 .. Len(presets) + 1 |-> CHOOSE i \in 1 .. Len(presets) : presets[i].token = n]
  <2>2. \A n \in 1 .. Len(presets) + 1 : f[n] \in 1 .. Len(presets) /\ presets[f[n]].token = n
    <3> SUFFICES ASSUME NEW n \in 1 .. Len(presets) + 1
                 PROVE  f[n] \in 1 .. Len(presets) /\ presets[f[n]].token = n
      OBVIOUS
    <3>1. \E i \in 1 .. Len(presets) : presets[i].token = n
      BY <1>1, <2>1 DEF IndexOf
    <3>2. QED
      BY <3>1
  <2>3. f \in [1 .. Len(presets) + 1 -> 1 .. Len(presets)]
    BY <2>2
  <2>4. /\ IsFiniteSet(1 .. Len(presets) + 1) /\ Cardinality(1 .. Len(presets) + 1) = Len(presets) + 1
        /\ IsFiniteSet(1 .. Len(presets)) /\ Cardinality(1 .. Len(presets)) = Len(presets)
    <3>1. \A n \in Nat : IsFiniteSet(1 .. n) /\ Cardinality(1 .. n) = n
      <4> SUFFICES ASSUME NEW n \in Nat PROVE IsFiniteSet(1 .. n) /\ Cardinality(1 .. n) = n
        OBVIOUS
      <4>1. IsFiniteSet(1 .. n) /\ Cardinality(1 .. n) = IF 1 > n THEN 0 ELSE n - 1 + 1
        BY FS_Interval
      <4>2. QED
        BY <4>1
    <3>2. QED
      BY <1>1, <3>1
  <2> HIDE DEF f
  <2>5. PICK x \in 1 .. Len(presets) + 1, y \in 1 .. Len(presets) + 1 : x # y /\ f[x] = f[y]
    <3>1. Len(presets) < Len(presets) + 1
      BY <1>1
    <3>2. QED
      BY <2>3, <2>4, <3>1, FS_PigeonHole
  <2>6. QED
    BY <2>2, <2>5
<1>3. PICK n \in S : \A m \in S : n <= m
  <2>1. S \in SUBSET Nat
    BY <1>1
  <2> HIDE DEF S
  <2>2. QED
    BY <1>2, <2>1, Smallest
<1>4. \A m \in 1 .. n - 1 : IndexOf(m) # {}
  BY <1>1, <1>3
<1>5. \E k \in 1 .. Len(presets) + 1 : IndexOf(k) = {} /\ \A m \in 1 .. k - 1 : IndexOf(m) # {}
  BY <1>3, <1>4
<1>6. FreeToken \in 1 .. Len(presets) + 1 /\ IndexOf(FreeToken) = {}
  BY <1>5 DEF FreeToken
<1>7. QED
  BY <1>1, <1>6 DEF IndexOf

LEMMA SetPresetKeeps ==
  ASSUME HeadInv, SetPreset
  PROVE  PresetsOk'
<1> DEFINE here == Position(Advance(head, lag))
<1>1. /\ here \in [Axes -> Int]
      /\ Len(presets) \in Nat /\ DOMAIN presets = 1 .. Len(presets)
      /\ presets \in Seq(Stored) /\ PresetsFit
  <2>1. here \in [Axes -> Int]
    BY AdvanceSound, PositionInside DEF HeadInv, SignalsOk
  <2>2. presets \in Seq(Stored) /\ PresetsFit
    BY DEF HeadInv, PresetsOk
  <2>3. Len(presets) \in Nat /\ DOMAIN presets = 1 .. Len(presets)
    BY <2>2, LenProperties
  <2>4. QED
    BY <2>1, <2>2, <2>3
<1>2. \A i \in 1 .. Len(presets) : presets[i] \in Stored
  BY <1>1, ElementOfSeq
<1>3. CASE \E token \in Tokens : \E i \in IndexOf(token) : presets' = [presets EXCEPT ![i].at = here]
  <2>1. PICK i \in 1 .. Len(presets) : presets' = [presets EXCEPT ![i].at = here]
    BY <1>1, <1>3 DEF IndexOf
  <2> HIDE DEF here
  <2>2. presets' = [j \in 1 .. Len(presets) |->
                      IF j = i THEN [presets[j] EXCEPT !.at = here] ELSE presets[j]]
    BY <1>1, <2>1
  <2>3. \A j \in 1 .. Len(presets) : presets'[j] \in Stored /\ presets'[j].token = presets[j].token
    BY <1>1, <1>2, <2>2 DEF Stored
  <2>4. presets' \in Seq(Stored) /\ Len(presets') = Len(presets) /\ DOMAIN presets' = 1 .. Len(presets)
    <3>1. presets' = [j \in 1 .. Len(presets) |-> presets'[j]]
      BY <2>2
    <3>2. presets' \in Seq(Stored) /\ DOMAIN presets' = 1 .. Len(presets)
      BY <1>1, <2>3, <3>1, IsASeq
    <3>3. QED
      BY <1>1, <3>2, LenProperties
  <2>5. QED
    BY <1>1, <2>3, <2>4 DEF PresetsOk, PresetsFit
<1>4. CASE /\ Len(presets) < MaxPresets
           /\ \E token \in {t \in Tokens : IndexOf(t) = {}} \cup {FreeToken} :
                presets' = Append(presets, [token |-> token, at |-> here])
  <2>1. PICK token \in {t \in Tokens : IndexOf(t) = {}} \cup {FreeToken} :
          presets' = Append(presets, [token |-> token, at |-> here])
    BY <1>4
  <2>2. token \in Tokens \cup Nat /\ \A i \in 1 .. Len(presets) : presets[i].token # token
    BY <1>1, FreeTokenFresh DEF IndexOf, HeadInv
  <2>3. [token |-> token, at |-> here] \in Stored
    BY <1>1, <2>2 DEF Stored
  <2> DEFINE e == [token |-> token, at |-> here]
  <2>4. e.token = token
    OBVIOUS
  <2> HIDE DEF e, here
  <2>5. /\ presets' \in Seq(Stored) /\ Len(presets') = Len(presets) + 1
        /\ presets'[Len(presets) + 1] = e
        /\ \A i \in 1 .. Len(presets) : presets'[i] = presets[i]
    BY <1>1, <2>1, <2>3, AppendProperties DEF e
  <2>6. DOMAIN presets' = 1 .. Len(presets) + 1
    BY <2>5, LenProperties
  <2>7. ASSUME NEW i \in 1 .. Len(presets) + 1, NEW j \in 1 .. Len(presets) + 1,
               presets'[i].token = presets'[j].token
        PROVE  i = j
    <3>1. CASE i \in 1 .. Len(presets) /\ j \in 1 .. Len(presets)
      BY <1>1, <2>5, <2>7, <3>1 DEF PresetsFit
    <3>2. CASE i = Len(presets) + 1 /\ j \in 1 .. Len(presets)
      BY <2>2, <2>4, <2>5, <2>7, <3>2
    <3>3. CASE j = Len(presets) + 1 /\ i \in 1 .. Len(presets)
      BY <2>2, <2>4, <2>5, <2>7, <3>3
    <3>4. QED
      BY <1>1, <3>1, <3>2, <3>3
  <2>8. Len(presets') <= MaxPresets
    BY <1>1, <1>4, <2>5, PtzAssumption
  <2>9. QED
    BY <2>5, <2>6, <2>7, <2>8 DEF PresetsOk, PresetsFit
<1>5. CASE UNCHANGED presets
  BY <1>5 DEF HeadInv, PresetsOk, PresetsFit
<1>6. QED
  BY <1>3, <1>4, <1>5 DEF SetPreset

LEMMA RemovePresetKeeps ==
  ASSUME HeadInv, RemovePreset
  PROVE  PresetsOk'
<1>1. PICK i \in DOMAIN presets : presets' = RemoveAt(presets, i)
  BY DEF RemovePreset
<1>2. /\ presets \in Seq(Stored) /\ PresetsFit
      /\ Len(presets) \in Nat /\ DOMAIN presets = 1 .. Len(presets)
  BY LenProperties DEF HeadInv, PresetsOk
<1>3. /\ presets' \in Seq(Stored) /\ Len(presets') = Len(presets) - 1
      /\ DOMAIN presets' = 1 .. Len(presets) - 1
      /\ \A k \in 1 .. Len(presets) - 1 :
           presets'[k] = IF k < i THEN presets[k] ELSE presets[k + 1]
  BY <1>1, <1>2, WithoutOne
<1>4. ASSUME NEW j \in 1 .. Len(presets) - 1, NEW k \in 1 .. Len(presets) - 1,
             presets'[j].token = presets'[k].token
      PROVE  j = k
  <2> DEFINE J == IF j < i THEN j ELSE j + 1  K == IF k < i THEN k ELSE k + 1
  <2>1. J \in DOMAIN presets /\ K \in DOMAIN presets /\ presets'[j] = presets[J] /\ presets'[k] = presets[K]
    BY <1>2, <1>3
  <2>2. J = K
    BY <1>2, <1>4, <2>1 DEF PresetsFit
  <2>3. QED
    BY <1>2, <2>2
<1>5. Len(presets') <= MaxPresets
  BY <1>2, <1>3, PtzAssumption DEF PresetsFit
<1>6. QED
  BY <1>3, <1>4, <1>5 DEF PresetsOk, PresetsFit

LEMMA FactoryFits ==
  /\ Factory \in Seq(Stored) /\ Len(Factory) <= MaxPresets
  /\ \A i, j \in DOMAIN Factory : Factory[i].token = Factory[j].token => i = j
<1> DEFINE n == IF MaxPresets > 0 /\ FactoryCount > MaxPresets THEN MaxPresets ELSE FactoryCount
           at == [a \in Axes |-> IF a = "tilt" THEN Hi[a] ELSE Clamp(0, Lo[a], Hi[a])]
<1>1. n \in Nat /\ n <= MaxPresets
  BY PtzAssumption
<1>2. at \in [Axes -> Int]
  <2> SUFFICES ASSUME NEW a \in Axes PROVE Hi[a] \in Int /\ Clamp(0, Lo[a], Hi[a]) \in Int
    OBVIOUS
  <2>1. Lo[a] \in Int /\ Hi[a] \in Int
    BY PtzAssumption
  <2>2. QED
    BY <2>1 DEF Clamp
<1>3. Factory = [i \in 1 .. n |-> [token |-> i, at |-> at]]
  BY DEF Factory
<1> HIDE DEF n, at
<1>4. \A i \in 1 .. n : [token |-> i, at |-> at] \in Stored
  BY <1>1, <1>2 DEF Stored
<1>5. Factory \in Seq(Stored) /\ DOMAIN Factory = 1 .. n
  BY <1>1, <1>3, <1>4, IsASeq
<1>6. Len(Factory) = n
  BY <1>1, <1>5, LenProperties
<1>7. \A i \in 1 .. n : Factory[i].token = i
  BY <1>3
<1>8. QED
  BY <1>1, <1>5, <1>6, <1>7

-----------------------------------------------------------------------------
LEMMA InitHead == PtzInit => HeadInv
<1> SUFFICES ASSUME PtzInit PROVE HeadInv
  OBVIOUS
<1>1. \A g \in Groups : head[g] = AtRest(g)
  BY DEF PtzInit
<1>2. ASSUME NEW g \in Groups PROVE Sound(AtRest(g), GroupAxes[g], Lo, Hi)
  <2>1. \A a \in GroupAxes[g] : Clamp(0, Lo[a], Hi[a]) \in Int /\ Clamp(0, Lo[a], Hi[a]) \in Lo[a] .. Hi[a]
    <3> SUFFICES ASSUME NEW a \in GroupAxes[g]
                 PROVE  Clamp(0, Lo[a], Hi[a]) \in Int /\ Clamp(0, Lo[a], Hi[a]) \in Lo[a] .. Hi[a]
      OBVIOUS
    <3>1. Lo[a] \in Int /\ Hi[a] \in Int /\ Lo[a] <= Hi[a]
      BY AxisLimits DEF Limits
    <3>2. QED
      BY <3>1 DEF Clamp
  <2> DEFINE n == AtRest(g)
  <2>2. /\ n.mode = "idle" /\ n.vel = [a \in GroupAxes[g] |-> 0]
        /\ n.value = [a \in GroupAxes[g] |-> Clamp(0, Lo[a], Hi[a])]
    BY DEF AtRest
  <2>3. n \in Motions(GroupAxes[g])
    BY <2>1 DEF AtRest, Motions
  <2> HIDE DEF n
  <2>4. QED
    BY <2>1, <2>2, <2>3 DEF Sound, n
<1>3. HeadSound(head)
  <2>1. head = [q \in Groups |-> head[q]]
    BY DEF PtzInit
  <2>2. QED
    BY <1>1, <1>2, <2>1 DEF HeadSound
<1>4. ~Moving(head)
  <2>1. \A g \in Groups : AtRest(g).mode = "idle"
    BY DEF AtRest
  <2>2. QED
    BY <1>1, <2>1 DEF Moving
<1>5. SignalsOk
  <2>1. lag = 0 /\ ticker = FALSE /\ notified = FALSE /\ pad = TRUE
    BY DEF PtzInit
  <2>2. lag \in 0 .. MaxLag
    BY <2>1, PtzAssumption
  <2>3. QED
    BY <1>4, <2>1, <2>2, Zenon DEF SignalsOk, StatusFollowed, PadSettles
<1>6. PresetsOk
  <2>1. CASE presets = <<>>
    <3>1. presets \in Seq(Stored) /\ Len(presets) = 0 /\ DOMAIN presets = {}
      BY <2>1
    <3>2. QED
      BY <3>1, PtzAssumption DEF PresetsOk, PresetsFit
  <2>2. CASE presets = Factory
    BY <2>2, FactoryFits DEF PresetsOk, PresetsFit
  <2>3. QED
    BY <2>1, <2>2 DEF PtzInit
<1>7. QED
  BY <1>3, <1>5, <1>6 DEF PtzInit, HeadInv

LEMMA HeadKept ==
  ASSUME HeadInv, UNCHANGED <<head, lag, ticker, notified, pad>>
  PROVE  HeadSound(head') /\ SignalsOk'
<1>1. Moving(head') = Moving(head)
  BY DEF Moving
<1>2. QED
  BY <1>1 DEF HeadInv, HeadSound, SignalsOk, StatusFollowed, PadSettles

LEMMA PresetsKept ==
  ASSUME HeadInv, UNCHANGED presets
  PROVE  PresetsOk'
BY DEF HeadInv, PresetsOk, PresetsFit

LEMMA HeadStep == HeadInv /\ [PtzNext]_ptzVars => HeadInv'
<1> SUFFICES ASSUME HeadInv, [PtzNext]_ptzVars PROVE HeadInv'
  OBVIOUS
<1>1. HeadSound(head') /\ SignalsOk'
  <2>1. CASE Command
    BY <2>1, ContinuousMoveKeeps, AbsoluteMoveKeeps, RelativeMoveKeeps, StopKeeps,
       SetPositionKeeps, GotoPresetKeeps, GotoHomeKeeps DEF Command
  <2>2. CASE SetPreset \/ SetHomePosition \/ GetStatus
    BY <2>2, ReadKeeps DEF SetPreset, SetHomePosition, GetStatus
  <2>3. CASE RemovePreset \/ FactoryPresets \/ ClearPresets \/ SwitchQuirk \/ Leave \/ UNCHANGED ptzVars
    BY <2>3, HeadKept DEF RemovePreset, FactoryPresets, ClearPresets, SwitchQuirk, Leave, ptzVars
  <2>4. CASE Elapse
    <3>1. lag' \in 0 .. MaxLag
      BY <2>4, PtzAssumption DEF Elapse, HeadInv, SignalsOk
    <3>2. UNCHANGED <<head, ticker, notified, pad>>
      BY <2>4 DEF Elapse
    <3>3. Moving(head') = Moving(head)
      BY <3>2 DEF Moving
    <3>4. QED
      BY <3>1, <3>2, <3>3 DEF HeadInv, HeadSound, SignalsOk, StatusFollowed, PadSettles
  <2>5. CASE Ticker
    BY <2>5, TickerKeeps
  <2>6. QED
    BY <2>1, <2>2, <2>3, <2>4, <2>5 DEF PtzNext, Bookkeeping
<1>2. PresetsOk'
  <2>1. CASE SetPreset
    BY <2>1, SetPresetKeeps
  <2>2. CASE RemovePreset
    BY <2>2, RemovePresetKeeps
  <2>3. CASE FactoryPresets
    BY <2>3, FactoryFits DEF FactoryPresets, PresetsOk, PresetsFit
  <2>4. CASE ClearPresets
    <3>1. presets' \in Seq(Stored) /\ Len(presets') = 0 /\ DOMAIN presets' = {}
      BY <2>4 DEF ClearPresets
    <3>2. QED
      BY <3>1, PtzAssumption DEF PresetsOk, PresetsFit
  <2>5. CASE UNCHANGED presets
    BY <2>5, PresetsKept
  <2>6. QED
    BY <2>1, <2>2, <2>3, <2>4, <2>5
    DEF PtzNext, Command, Bookkeeping, ContinuousMove, AbsoluteMove, RelativeMove, Stop, SetPosition,
        GotoPreset, GotoHomePosition, SetHomePosition, SwitchQuirk, GetStatus, Elapse, Ticker,
        Leave, ptzVars
<1>3. home' = NoHome \/ home' \in [Axes -> Int]
  <2>1. CASE SetHomePosition
    BY <2>1, AdvanceSound, PositionInside DEF SetHomePosition, HeadInv, SignalsOk
  <2>2. CASE UNCHANGED home
    BY <2>2 DEF HeadInv
  <2>3. QED
    BY <2>1, <2>2
    DEF PtzNext, Command, Bookkeeping, ContinuousMove, AbsoluteMove, RelativeMove, Stop, SetPosition,
        GotoPreset, GotoHomePosition, SetPreset, RemovePreset, FactoryPresets, ClearPresets,
        SwitchQuirk, GetStatus, Elapse, Ticker, Leave, ptzVars
<1>4. QED
  BY <1>1, <1>2, <1>3 DEF HeadInv

LEMMA HeadImplies == HeadInv => HeadConsistent
<1> SUFFICES ASSUME HeadInv PROVE HeadConsistent
  OBVIOUS
<1>1. \A g \in Groups : Sound(head[g], GroupAxes[g], Lo, Hi)
  BY DEF HeadInv, HeadSound
<1>2. \A g \in Groups : MotionOK(head[g], GroupAxes[g])
  BY <1>1 DEF Sound, Motions, MotionOK
<1>3. DOMAIN head = Groups
  BY DEF HeadInv, HeadSound
<1>4. HeadTypeOK
  BY <1>2, <1>3 DEF HeadInv, SignalsOk, HeadTypeOK
<1>5. WithinLimits
  BY <1>1 DEF Sound, WithinLimits
<1>6. QED
  BY <1>4, <1>5 DEF HeadConsistent, HeadInv, SignalsOk, PresetsOk

\* Whoever drives it with finite coordinates, the head stays within its limits, says
\* IDLE exactly when it has come to rest, and keeps presets that fit (every command and
\* read of PtzState).
THEOREM HeadStaysConsistent == PtzSpec => []HeadConsistent
<1>1. QED
  BY InitHead, HeadStep, HeadImplies, PTL DEF PtzSpec

\* The position computed lazily is the one a head would have that moves at every tick
\* (PtzState::Private::advance): integrating never moves it, time moves it one tick's way.
THEOREM LazyIsLive == PtzSpec => MovesOnItsOwn
<1>1. HeadInv /\ [PtzNext]_ptzVars =>
        [/\ lag' = lag + 1 => Now' = Advance(Now, 1)
         /\ head' = Now /\ lag' = 0 => Now' = Now]_<<head, lag>>
  <2> SUFFICES ASSUME HeadInv, [PtzNext]_ptzVars
               PROVE  /\ lag' = lag + 1 => Now' = Advance(Now, 1)
                      /\ head' = Now /\ lag' = 0 => Now' = Now
    OBVIOUS
  <2>1. HeadSound(head) /\ lag \in Nat
    BY DEF HeadInv, SignalsOk
  <2>2. lag' = lag + 1 => head' = head
    <3>1. SUFFICES ASSUME lag' = lag + 1, lag' # 0, lag' # lag PROVE head' = head
      BY <2>1
    <3>2. \A h, moved : Settle(h, moved) => lag' = 0
      BY DEF Settle
    <3>3. Read => lag' = 0
      BY DEF Read
    <3>4. \A gs, goal, speed, slow : StartTarget(gs, goal, speed, slow) => lag' \in {0, lag}
      BY <3>2 DEF StartTarget
    <3>5. ~Command
      BY <3>1, <3>2, <3>3, <3>4
      DEF Command, ContinuousMove, AbsoluteMove, RelativeMove, Stop, SetPosition, GotoPreset,
          GotoHomePosition
    <3>6. ~Bookkeeping /\ ~GetStatus /\ ~Ticker
      BY <3>1, <3>2, <3>3
      DEF Bookkeeping, SetPreset, RemovePreset, FactoryPresets, ClearPresets, SetHomePosition,
          SwitchQuirk, GetStatus, Ticker
    <3>7. QED
      BY <3>1, <3>5, <3>6 DEF PtzNext, Elapse, Leave, ptzVars
  <2>3. ASSUME lag' = lag + 1 PROVE Now' = Advance(Now, 1)
    <3>1. Now' = Advance(head, lag + 1)
      BY <2>2, <2>3 DEF Now, Advance
    <3>2. QED
      BY <2>1, <3>1, AdvanceTwice DEF Now
  <2>4. ASSUME head' = Now, lag' = 0 PROVE Now' = Now
    <3>1. Now' = Advance(Advance(head, lag), 0)
      BY <2>4 DEF Now, Advance
    <3>2. Advance(Advance(head, lag), 0) = Advance(head, lag + 0) /\ lag + 0 = lag
      BY <2>1, AdvanceTwice
    <3>3. QED
      BY <3>1, <3>2 DEF Now
  <2>5. QED
    BY <2>3, <2>4
<1>2. QED
  BY <1>1, InitHead, HeadStep, PTL DEF PtzSpec, MovesOnItsOwn

-----------------------------------------------------------------------------
(* ImagingState.                                                           *)

\* What the invariant rests on: a focus that was sent somewhere is there, or on its way
\* without a deadline.
Heading(m, goal) ==
  \/ m.mode = "idle" /\ Where(m) = goal
  \/ m.mode = "target" /\ m.target["f"] = goal /\ m.left = None /\ m.hold = None
FocusSound(m) == Sound(m, {"f"}, FocusLo, FocusHi) /\ m.target["f"] \in 0 .. FocusMax
Settings ==
  [level : 0 .. Top, irCut : CutModes \cup {"AUTO"}, focusMode : {"AUTO", "MANUAL"},
   light : BOOLEAN, lightLevel : 0 .. Top]

FocusInv ==
  /\ FocusSound(focus) /\ focusLag \in 0 .. MaxFocusLag
  /\ sent \in 0 .. FocusMax \cup {NoGoal}
  /\ sent # NoGoal => Heading(focus, sent)
PictureInv == settings \in Settings /\ panel = settings
ImagingInv == FocusInv /\ PictureInv

-----------------------------------------------------------------------------
LEMMA FocusLimits ==
  /\ Limits({"f"}, FocusLo, FocusHi) /\ FocusLo["f"] = 0 /\ FocusHi["f"] = FocusMax
BY ImagingAssumption DEF Limits, FocusLo, FocusHi

LEMMA FocusFields ==
  ASSUME NEW m, FocusSound(m)
  PROVE  /\ Where(m) \in 0 .. FocusMax /\ m.value \in [{"f"} -> Int] /\ m.vel \in [{"f"} -> Int]
         /\ m.mode \in {"idle", "continuous", "target"} /\ m \in Motions({"f"})
         /\ DOMAIN m.value = {"f"}
BY FocusLimits DEF FocusSound, Sound, Motions, Where

\* Integrating keeps the focus sound and on its way.
LEMMA FocusSteps ==
  ASSUME NEW m, FocusSound(m), NEW d, d \in Nat
  PROVE  /\ FocusSound(StepGroup(m, d, FocusLo, FocusHi))
         /\ \A goal : Heading(m, goal) => Heading(StepGroup(m, d, FocusLo, FocusHi), goal)
<1> DEFINE n == StepGroup(m, d, FocusLo, FocusHi)  val == Values(m, d, FocusLo, FocusHi)
<1>1. Sound(n, {"f"}, FocusLo, FocusHi)
  BY FocusLimits, StepSound DEF FocusSound
<1>2. CASE m.mode = "idle"
  BY <1>2 DEF StepGroup
<1>3. CASE m.mode # "idle" /\ Finished(m, val, d, FocusLo, FocusHi)
  <2>1. n = Still(m, val)
    BY <1>3 DEF StepGroup
  <2>2. val \in [{"f"} -> Int]
    BY <1>3, FocusLimits, ValuesInside DEF FocusSound
  <2>3. n.mode = "idle" /\ n.value = val /\ n.target["f"] = 0
    <3> HIDE DEF val, n
    <3>1. n = [mode |-> "idle", value |-> val, vel |-> [a \in {"f"} |-> 0],
               target |-> [a \in {"f"} |-> 0], left |-> None, hold |-> None]
      BY <2>1, <2>2, FocusFields, StillFields
    <3>2. QED
      BY <3>1
  <2>4. ASSUME NEW goal, Heading(m, goal) PROVE Heading(n, goal)
    <3>1. m.mode = "target" /\ m.target["f"] = goal /\ m.left = None
      BY <1>3, <2>4 DEF Heading
    <3>2. ~Driving(m, val, FocusLo, FocusHi)
      BY <1>3, <3>1 DEF Finished
    <3>3. val["f"] = m.target["f"]
      BY <3>1, <3>2, FocusFields DEF Driving
    <3> HIDE DEF val, n
    <3>4. QED
      BY <2>3, <3>1, <3>3 DEF Heading, Where
  <2>5. QED
    BY <1>1, <2>3, <2>4, ImagingAssumption DEF FocusSound
<1>4. CASE m.mode # "idle" /\ ~Finished(m, val, d, FocusLo, FocusHi)
  <2>1. n = Running(m, val, d)
    BY <1>4 DEF StepGroup
  <2>2. /\ n.mode = m.mode /\ n.target = m.target
        /\ n.left = Later(m.left, d) /\ n.hold = Later(m.hold, d)
    BY <2>1 DEF Running
  <2> HIDE DEF n
  <2>3. \A goal : Heading(m, goal) => Heading(n, goal)
    BY <1>4, <2>2 DEF Heading, Later
  <2>4. QED
    BY <1>1, <2>2, <2>3 DEF FocusSound, n
<1>5. QED
  BY <1>2, <1>3, <1>4

LEMMA StillFocus ==
  ASSUME NEW m, FocusSound(m)
  PROVE  FocusSound(Still(m, m.value))
<1>1. /\ m \in Motions({"f"}) /\ m.value \in [{"f"} -> Int]
      /\ \A a \in {"f"} : m.value[a] \in FocusLo[a] .. FocusHi[a]
  BY FocusFields DEF FocusSound, Sound
<1>2. Sound(Still(m, m.value), {"f"}, FocusLo, FocusHi)
  BY <1>1, StillSound
<1>3. Still(m, m.value).target = [a \in {"f"} |-> 0]
  BY <1>1, StillFields
<1>4. QED
  BY <1>2, <1>3, ImagingAssumption DEF FocusSound

\* A manual move, and what it means for the goal.
LEMMA RefocusedSound ==
  ASSUME NEW m, FocusSound(m), NEW distance, NEW speed, distance \in Int, speed \in Int
  PROVE  /\ FocusSound(Refocused(m, distance, speed))
         /\ distance # 0 =>
              Heading(Refocused(m, distance, speed), Clamp(Where(m) + distance, 0, FocusMax))
<1> DEFINE r == Refocused(m, distance, speed)
<1>1. Sound(m, {"f"}, FocusLo, FocusHi) /\ Where(m) \in Int
  BY FocusFields DEF FocusSound
<1>2. CASE distance # 0
  <2> DEFINE goal == Clamp(Where(m) + distance, 0, FocusMax)
             rate == FocusRate * SpeedFactor(speed, FocusFull)
  <2>1. goal \in Int /\ goal \in 0 .. FocusMax
    <3>1. Where(m) + distance \in Int
      BY <1>1
    <3>2. QED
      BY <3>1, ImagingAssumption DEF Clamp
  <2>2. rate \in Nat
    <3>1. SpeedFactor(speed, FocusFull) \in Nat
      BY ImagingAssumption DEF SpeedFactor, Clamp, Magnitude
    <3>2. QED
      BY <3>1, ImagingAssumption
  <2>3. r = Aim(m, Whole(goal), Whole(rate), 0)
    BY <1>2 DEF Refocused
  <2> HIDE DEF goal, rate, r
  <2> DEFINE to == [a \in {"f"} |-> goal]  by == [a \in {"f"} |-> rate]
  <2>4. Whole(goal) = to /\ Whole(rate) = by
    BY DEF Whole
  <2>5. to \in [{"f"} -> Int] /\ by \in [{"f"} -> Nat]
        /\ \A a \in {"f"} : to[a] \in FocusLo[a] .. FocusHi[a]
    BY <2>1, <2>2, FocusLimits
  <2>6. to["f"] = goal
    OBVIOUS
  <2> HIDE DEF to, by
  <2>7. /\ Sound(r, {"f"}, FocusLo, FocusHi)
        /\ r = [mode |-> "target", value |-> m.value, vel |-> by, target |-> to,
                left |-> None, hold |-> IF 0 > 0 THEN 0 ELSE None]
    BY <1>1, <2>3, <2>4, <2>5, FocusLimits, AimSound
  <2>8. r.mode = "target" /\ r.target["f"] = goal /\ r.left = None /\ r.hold = None
    BY <2>6, <2>7
  <2>9. QED
    BY <1>2, <2>1, <2>7, <2>8 DEF FocusSound, Heading, goal, r
<1>3. CASE distance = 0 /\ speed # 0
  <2> DEFINE v == FocusRate * Clamp(speed, -FocusFull, FocusFull)
  <2>1. v \in Int
    <3>1. Clamp(speed, -FocusFull, FocusFull) \in Int
      BY ImagingAssumption DEF Clamp
    <3>2. QED
      BY <3>1, ImagingAssumption
  <2>2. r = Drive(m, Whole(v), 0)
    BY <1>3 DEF Refocused
  <2> HIDE DEF v, r
  <2>3. Whole(v) \in [{"f"} -> Int]
    BY <2>1 DEF Whole
  <2>4. Sound(r, {"f"}, FocusLo, FocusHi)
    BY <1>1, <2>2, <2>3, DriveSound
  <2>5. DOMAIN m.target = {"f"}
    BY FocusFields DEF Motions
  <2>6. r.target["f"] = 0
    BY <2>2, <2>5 DEF Drive
  <2>7. QED
    BY <1>3, <2>4, <2>6, ImagingAssumption DEF FocusSound, r
<1>4. CASE distance = 0 /\ speed = 0
  <2>1. r = Still(m, m.value)
    BY <1>4 DEF Refocused
  <2>2. QED
    BY <1>4, <2>1, StillFocus
<1>5. QED
  BY <1>2, <1>3, <1>4

LEMMA MoveFocusKeeps ==
  ASSUME ImagingInv, NEW m, FocusSound(m), NEW distance, NEW speed, distance \in Int, speed \in Int,
         MoveFocus(m, distance, speed)
  PROVE  /\ FocusSound(focus') /\ focusLag' \in 0 .. MaxFocusLag
         /\ PictureInv'
         /\ distance # 0 => Heading(focus', Clamp(Where(m) + distance, 0, FocusMax))
<1> DEFINE r == Refocused(m, distance, speed)
<1>2. /\ FocusSound(r)
      /\ distance # 0 => Heading(r, Clamp(Where(m) + distance, 0, FocusMax))
  BY RefocusedSound
<1>3. focus' = StepGroup(r, 0, FocusLo, FocusHi) /\ focusLag' = 0
  BY DEF MoveFocus
<1> HIDE DEF r
<1>4. FocusSound(focus') /\ \A goal : Heading(r, goal) => Heading(focus', goal)
  BY <1>2, <1>3, FocusSteps
<1>5. PictureInv'
  <2>1. settings' = [settings EXCEPT !.focusMode = "MANUAL"] /\ settings \in Settings
        /\ panel = settings
    BY DEF MoveFocus, ImagingInv, PictureInv
  <2>2. settings' \in Settings
    BY <2>1 DEF Settings
  <2>3. CASE settings.focusMode # "MANUAL"
    BY <2>2, <2>3 DEF MoveFocus, PictureInv
  <2>4. CASE settings.focusMode = "MANUAL"
    <3>1. settings' = settings
      BY <2>1, <2>4 DEF Settings
    <3>2. QED
      BY <2>1, <2>2, <2>4, <3>1 DEF MoveFocus, PictureInv
  <2>5. QED
    BY <2>3, <2>4
<1>6. QED
  BY <1>2, <1>3, <1>4, <1>5, ImagingAssumption

\* Where the focus is, now and a moment later.
LEMMA NowSound ==
  ASSUME ImagingInv, NEW d \in Nat
  PROVE  /\ FocusSound(FocusNow) /\ Where(FocusNow) \in 0 .. FocusMax
         /\ FocusSound(StepGroup(FocusNow, d, FocusLo, FocusHi))
         /\ Where(StepGroup(FocusNow, d, FocusLo, FocusHi)) \in 0 .. FocusMax
<1>1. FocusSound(FocusNow)
  BY FocusSteps DEF ImagingInv, FocusInv, FocusNow
<1> DEFINE m == FocusNow
<1> HIDE DEF m
<1>2. FocusSound(m)
  BY <1>1 DEF m
<1> DEFINE n == StepGroup(m, d, FocusLo, FocusHi)
<1>3. FocusSound(n)
  BY <1>2, FocusSteps
<1> HIDE DEF n
<1>4. Where(m) \in 0 .. FocusMax /\ Where(n) \in 0 .. FocusMax
  BY <1>2, <1>3, FocusFields
<1>5. QED
  BY <1>2, <1>3, <1>4 DEF m, n

\* An absolute move.
LEMMA AbsoluteKeeps ==
  ASSUME ImagingInv, FocusAbsolute
  PROVE  FocusInv' /\ PictureInv'
<1>1. PICK goal \in 0 .. FocusMax, speed \in {s \in FocusSpeeds : s > 0} \cup {DefaultSpeed},
           moment \in 0 .. 1 :
        /\ MoveFocus(StepGroup(FocusNow, moment, FocusLo, FocusHi), goal - Where(FocusNow), speed)
        /\ sent' = IF goal - Where(FocusNow) = 0 THEN NoGoal
                   ELSE Clamp(Where(StepGroup(FocusNow, moment, FocusLo, FocusHi))
                                + (goal - Where(FocusNow)), 0, FocusMax)
  BY DEF FocusAbsolute
<1> DEFINE m == StepGroup(FocusNow, moment, FocusLo, FocusHi)
           distance == goal - Where(FocusNow)
<1>2. FocusSound(m) /\ Where(m) \in 0 .. FocusMax /\ Where(FocusNow) \in 0 .. FocusMax
  <2>1. moment \in Nat
    OBVIOUS
  <2>2. QED
    BY <2>1, NowSound
<1>3. distance \in Int /\ speed \in Int
  BY <1>2, ImagingAssumption
<1>4. MoveFocus(m, distance, speed)
  BY <1>1
<1>5. sent' = IF distance = 0 THEN NoGoal ELSE Clamp(Where(m) + distance, 0, FocusMax)
  BY <1>1
<1> HIDE DEF m, distance
<1>6. /\ FocusSound(focus') /\ focusLag' \in 0 .. MaxFocusLag /\ PictureInv'
      /\ distance # 0 => Heading(focus', Clamp(Where(m) + distance, 0, FocusMax))
  BY <1>2, <1>3, <1>4, MoveFocusKeeps
<1>7. Clamp(Where(m) + distance, 0, FocusMax) \in 0 .. FocusMax
  <2>1. Where(m) + distance \in Int
    BY <1>2, <1>3
  <2>2. QED
    BY <2>1, ImagingAssumption DEF Clamp
<1>8. QED
  BY <1>5, <1>6, <1>7 DEF FocusInv

\* Whoever changes the settings, the desktop is told.
LEMMA ChangedKeeps ==
  ASSUME PictureInv, NEW new \in Settings, Changed(new)
  PROVE  PictureInv'
BY DEF Changed, PictureInv

LEMMA LevelInRange == ASSUME NEW level, level \in Int PROVE Clamp(level, 0, Top) \in 0 .. Top
BY ImagingAssumption DEF Clamp

LEMMA PictureStep == ImagingInv /\ [ImagingNext]_imagingVars => PictureInv'
<1> SUFFICES ASSUME ImagingInv, [ImagingNext]_imagingVars PROVE PictureInv'
  OBVIOUS
<1>0. FocusSound(FocusNow)
  BY NowSound
<1>1. settings \in Settings /\ panel = settings
  BY DEF ImagingInv, PictureInv
<1>2. CASE FocusAbsolute
  BY <1>2, AbsoluteKeeps
<1>3. CASE FocusRelative
  <2>1. PICK distance \in {-1, 0, 1}, speed \in {s \in FocusSpeeds : s > 0} \cup {DefaultSpeed} :
          MoveFocus(FocusNow, distance, speed)
    BY <1>3 DEF FocusRelative
  <2>2. distance \in Int /\ speed \in Int
    BY ImagingAssumption
  <2>3. QED
    BY <2>1, <2>2, <1>0, MoveFocusKeeps
<1>4. CASE FocusContinuous
  <2>1. PICK speed \in FocusSpeeds \cup {0} : MoveFocus(FocusNow, 0, speed)
    BY <1>4 DEF FocusContinuous
  <2>2. speed \in Int
    BY ImagingAssumption
  <2>3. QED
    BY <2>1, <2>2, <1>0, MoveFocusKeeps
<1>5. CASE FocusStop \/ FocusStatus \/ FocusElapse \/ UNCHANGED imagingVars
  BY <1>1, <1>5 DEF FocusStop, FocusStatus, FocusElapse, imagingVars, PictureInv
<1>6. CASE SetImagingSettings
  <2>1. PICK level \in Levels \cup {settings.level}, cut \in CutModes, mode \in {"AUTO", "MANUAL"} :
          /\ settings' = [settings EXCEPT !.level = Clamp(level, 0, Top), !.irCut = cut,
                                          !.focusMode = mode]
          /\ panel' = settings'
    BY <1>6 DEF SetImagingSettings
  <2>2. level \in Int
    BY <1>1, ImagingAssumption DEF Settings
  <2>3. Clamp(level, 0, Top) \in 0 .. Top
    BY <2>2, LevelInRange
  <2>4. settings' \in Settings
    BY <1>1, <2>1, <2>3 DEF Settings
  <2>5. QED
    BY <2>1, <2>4 DEF PictureInv
<1>7. CASE SetLevel
  <2>1. PICK level \in Levels : Changed([settings EXCEPT !.level = Clamp(level, 0, Top)])
    BY <1>7 DEF SetLevel
  <2>2. Clamp(level, 0, Top) \in 0 .. Top
    BY LevelInRange, ImagingAssumption
  <2>3. [settings EXCEPT !.level = Clamp(level, 0, Top)] \in Settings
    BY <1>1, <2>2 DEF Settings
  <2>4. QED
    BY <2>1, <2>3, ChangedKeeps DEF ImagingInv
<1>8. CASE SetIrCutFilter
  <2>1. PICK cut \in CutModes : Changed([settings EXCEPT !.irCut = cut])
    BY <1>8 DEF SetIrCutFilter
  <2>2. [settings EXCEPT !.irCut = cut] \in Settings
    BY <1>1 DEF Settings
  <2>3. QED
    BY <2>1, <2>2, ChangedKeeps DEF ImagingInv
<1>9. CASE SetWhiteLight
  <2>1. PICK on \in BOOLEAN, level \in Levels :
          Changed([settings EXCEPT !.light = on,
                     !.lightLevel = IF level < 0 THEN @ ELSE Clamp(level, 0, Top)])
    BY <1>9 DEF SetWhiteLight
  <2> DEFINE l == IF level < 0 THEN settings.lightLevel ELSE Clamp(level, 0, Top)
  <2>2. Changed([settings EXCEPT !.light = on, !.lightLevel = l])
    BY <2>1
  <2>3. l \in 0 .. Top
    <3>1. settings.lightLevel \in 0 .. Top
      BY <1>1 DEF Settings
    <3>2. Clamp(level, 0, Top) \in 0 .. Top
      BY LevelInRange, ImagingAssumption
    <3>3. QED
      BY <3>1, <3>2
  <2> HIDE DEF l
  <2>4. [settings EXCEPT !.light = on, !.lightLevel = l] \in Settings
    BY <1>1, <2>3 DEF Settings
  <2>5. QED
    BY <2>2, <2>4, ChangedKeeps DEF ImagingInv
<1>10. QED
  BY <1>2, <1>3, <1>4, <1>5, <1>6, <1>7, <1>8, <1>9 DEF ImagingNext

LEMMA FocusStep == ImagingInv /\ [ImagingNext]_imagingVars => FocusInv'
<1> SUFFICES ASSUME ImagingInv, [ImagingNext]_imagingVars PROVE FocusInv'
  OBVIOUS
<1>1. /\ FocusSound(focus) /\ focusLag \in 0 .. MaxFocusLag
      /\ sent \in 0 .. FocusMax \cup {NoGoal} /\ (sent # NoGoal => Heading(focus, sent))
  BY DEF ImagingInv, FocusInv
<1>2. FocusSound(FocusNow) /\ (sent # NoGoal => Heading(FocusNow, sent))
  BY <1>1, FocusSteps DEF FocusNow
<1>3. Where(FocusNow) \in 0 .. FocusMax
  BY <1>2, FocusFields
<1>4. CASE FocusAbsolute
  BY <1>4, AbsoluteKeeps
<1>5. CASE FocusRelative
  <2>1. PICK distance \in {-1, 0, 1}, speed \in {s \in FocusSpeeds : s > 0} \cup {DefaultSpeed} :
          MoveFocus(FocusNow, distance, speed)
    BY <1>5 DEF FocusRelative
  <2>2. distance \in Int /\ speed \in Int /\ sent' = NoGoal
    BY <1>5, ImagingAssumption DEF FocusRelative
  <2>3. QED
    BY <1>2, <2>1, <2>2, MoveFocusKeeps DEF FocusInv
<1>6. CASE FocusContinuous
  <2>1. PICK speed \in FocusSpeeds \cup {0} : MoveFocus(FocusNow, 0, speed)
    BY <1>6 DEF FocusContinuous
  <2>2. speed \in Int /\ sent' = NoGoal
    BY <1>6, ImagingAssumption DEF FocusContinuous
  <2>3. QED
    BY <1>2, <2>1, <2>2, MoveFocusKeeps DEF FocusInv
<1>7. CASE FocusStop
  <2>1. FocusSound(focus')
    BY <1>2, <1>7, StillFocus DEF FocusStop
  <2>2. focusLag' \in 0 .. MaxFocusLag /\ sent' = NoGoal
    BY <1>7, ImagingAssumption DEF FocusStop
  <2>3. QED
    BY <2>1, <2>2 DEF FocusInv
<1>8. CASE FocusStatus
  BY <1>1, <1>2, <1>8, ImagingAssumption DEF FocusStatus, FocusInv
<1>9. CASE FocusElapse
  BY <1>1, <1>9, ImagingAssumption DEF FocusElapse, FocusInv
<1>10. CASE \/ SetImagingSettings \/ SetLevel \/ SetIrCutFilter \/ SetWhiteLight
            \/ UNCHANGED imagingVars
  <2>1. UNCHANGED <<focus, focusLag, sent>>
    BY <1>10 DEF SetImagingSettings, SetLevel, SetIrCutFilter, SetWhiteLight, Changed, imagingVars
  <2>2. QED
    BY <1>1, <2>1 DEF FocusInv
<1>11. QED
  BY <1>4, <1>5, <1>6, <1>7, <1>8, <1>9, <1>10 DEF ImagingNext

LEMMA InitPicture == ImagingInit => ImagingInv
<1> SUFFICES ASSUME ImagingInit PROVE ImagingInv
  OBVIOUS
<1>1. FocusMax \div 2 \in 0 .. FocusMax /\ Top \div 2 \in 0 .. Top
  BY ImagingAssumption
<1> DEFINE half == FocusMax \div 2
<1>2. focus = [mode |-> "idle", value |-> [a \in {"f"} |-> half], vel |-> [a \in {"f"} |-> 0],
               target |-> [a \in {"f"} |-> 0], left |-> None, hold |-> None]
  BY DEF ImagingInit, Whole
<1> HIDE DEF half
<1>3. half \in 0 .. FocusMax
  BY <1>1 DEF half
<1>4. focus \in Motions({"f"})
  BY <1>2, <1>3, ImagingAssumption DEF Motions
<1>5. focus.mode = "idle" /\ focus.value["f"] = half /\ focus.vel["f"] = 0 /\ focus.target["f"] = 0
  BY <1>2
<1>6. FocusSound(focus)
  BY <1>3, <1>4, <1>5, FocusLimits, ImagingAssumption DEF FocusSound, Sound
<1>7. settings \in Settings /\ panel = settings
  BY <1>1, ImagingAssumption DEF ImagingInit, Settings
<1>8. QED
  BY <1>6, <1>7, ImagingAssumption DEF ImagingInit, ImagingInv, FocusInv, PictureInv

LEMMA PictureImplies == ImagingInv => ImagingConsistent
<1> SUFFICES ASSUME ImagingInv PROVE ImagingConsistent
  OBVIOUS
<1>1. FocusTypeOK
  <2>1. focus.vel \in [{"f"} -> Int] /\ Where(focus) \in 0 .. FocusMax
    BY FocusFields DEF ImagingInv, FocusInv
  <2>2. QED
    BY <2>1, FocusFields DEF ImagingInv, FocusInv, FocusSound, FocusTypeOK
<1>2. OneState
  BY DEF ImagingInv, PictureInv, Settings, OneState
<1>3. FocusArrives
  <2>1. sent # NoGoal => Heading(FocusNow, sent)
    BY FocusSteps DEF ImagingInv, FocusInv, FocusNow
  <2>2. QED
    BY <2>1 DEF FocusArrives, Heading
<1>4. FocusRests
  BY DEF ImagingInv, FocusInv, FocusSound, Sound, FocusRests
<1>5. QED
  BY <1>1, <1>2, <1>3, <1>4 DEF ImagingConsistent

\* Whoever changes the picture, the desktop shows what is in force, and a focus that was
\* sent somewhere is there when it says IDLE (moveFocus, setWhiteLight, SetImagingSettings).
THEOREM PictureStaysConsistent == ImagingSpec => []ImagingConsistent
<1>1. ImagingInv /\ [ImagingNext]_imagingVars => ImagingInv'
  BY PictureStep, FocusStep DEF ImagingInv
<1>2. QED
  BY <1>1, InitPicture, PictureImplies, PTL DEF ImagingSpec

-----------------------------------------------------------------------------
(* MediaConfig.                                                            *)

\* What the invariant rests on.
Fixed == Len(FactorySizes)
Video == [token : Nat, size : [w : Nat, h : Nat]]
Audio == [token : Nat, rate : Nat]
Profile ==
  [token : Nat, fixed : BOOLEAN, path : Personas \X Nat, video : Video,
   hasAudio : BOOLEAN, audio : Audio, bound : SUBSET Kinds, talk : [Kinds -> {Device}],
   hasPtz : BOOLEAN, asset : Builtin \cup {"own"}]

\* The encoder of the n-th stream: what is not a factory profile is a copy of the first.
Origin(n) == IF n <= Fixed THEN n ELSE 1

\* The i-th profile: the factory's come first and stay; its encoder is the one its place
\* and its path tell, and what it streams is its own resolution.
InPlace(p, i) ==
  /\ p.fixed <=> i <= Fixed
  /\ p.video.token = Origin(i) /\ p.video.token = Origin(p.path[2])
  /\ p.asset \in Builtin => p.asset = AssetForResolution(p.video.size)

\* Two profiles: their tokens differ, and what they share is the same.
Agree(p, q) ==
  /\ p.video.token = q.video.token => p.video = q.video
  /\ p.hasAudio /\ q.hasAudio /\ p.audio.token = q.audio.token => p.audio = q.audio

ProfilesOk(ps) ==
  /\ ps \in Seq(Profile) /\ Len(ps) \in Fixed .. MaxProfiles
  /\ \A i \in DOMAIN ps : InPlace(ps[i], i)
  /\ \A i, j \in DOMAIN ps : i # j => ps[i].token # ps[j].token
  /\ \A i, j \in DOMAIN ps : Agree(ps[i], ps[j])

MediaInv == ProfilesOk(profiles) /\ persona \in Personas

-----------------------------------------------------------------------------
LEMMA ProfilesShape ==
  ASSUME NEW ps, ProfilesOk(ps)
  PROVE  /\ Len(ps) \in Nat /\ Len(ps) >= 1 /\ Len(ps) <= MaxProfiles /\ DOMAIN ps = 1 .. Len(ps)
         /\ Fixed \in Nat /\ 1 <= Fixed /\ Fixed <= Len(ps)
         /\ ps \in Seq(Profile) /\ \A i \in 1 .. Len(ps) : ps[i] \in Profile
<1>1. /\ ps \in Seq(Profile) /\ Fixed \in Nat /\ 1 <= Fixed
      /\ Len(ps) \in Fixed .. MaxProfiles
  BY MediaAssumption DEF ProfilesOk, Fixed
<1>2. Len(ps) \in Nat /\ DOMAIN ps = 1 .. Len(ps)
  BY <1>1, LenProperties
<1>3. \A i \in 1 .. Len(ps) : ps[i] \in Profile
  BY <1>1, <1>2, ElementOfSeq
<1>4. QED
  BY <1>1, <1>2, <1>3, MediaAssumption

\* An operation that changes profiles where they are.
LEMMA InPlaceKeeps ==
  ASSUME NEW ps, ProfilesOk(ps), NEW qs, qs = [i \in DOMAIN ps |-> qs[i]],
         \A i \in DOMAIN ps : /\ qs[i] \in Profile /\ qs[i].token = ps[i].token
                              /\ InPlace(qs[i], i),
         \A i, j \in DOMAIN ps : Agree(qs[i], qs[j])
  PROVE  ProfilesOk(qs)
<1>1. /\ Len(ps) \in Nat /\ DOMAIN ps = 1 .. Len(ps)
      /\ \A i, j \in DOMAIN ps : i # j => ps[i].token # ps[j].token
      /\ Len(ps) \in Fixed .. MaxProfiles
  BY ProfilesShape DEF ProfilesOk
<1>2. qs \in Seq(Profile) /\ Len(qs) = Len(ps) /\ DOMAIN qs = DOMAIN ps
  BY <1>1
<1>3. QED
  BY <1>1, <1>2 DEF ProfilesOk

LEMMA InitMedia == MediaInit => MediaInv
<1> SUFFICES ASSUME MediaInit PROVE MediaInv
  OBVIOUS
<1> DEFINE F == FactorySizes
<1>1. PICK own \in BOOLEAN, mute \in BOOLEAN, turns \in BOOLEAN :
       profiles = [i \in DOMAIN F |->
         [token |-> i, fixed |-> TRUE, path |-> <<persona, i>>,
          video |-> [token |-> i, size |-> F[i]],
          hasAudio |-> ~(mute /\ i = Len(F)),
          audio |-> [token |-> i, rate |-> DefaultRate],
          bound |-> {}, talk |-> [k \in Kinds |-> Device],
          hasPtz |-> turns \/ i = 1,
          asset |-> IF own /\ i = Len(F) THEN "own"
                    ELSE AssetForResolution(F[i])]]
  BY DEF MediaInit
<1>2. /\ Len(F) \in Nat /\ Len(F) >= 1 /\ Len(F) <= MaxProfiles /\ DOMAIN F = 1 .. Len(F)
      /\ \A i \in 1 .. Len(F) : F[i] \in [w : Nat, h : Nat]
  <2>1. F \in Seq([w : Nat, h : Nat]) /\ Len(F) \in 1 .. MaxProfiles /\ MaxProfiles \in Nat
    BY MediaAssumption
  <2>2. Len(F) \in Nat /\ DOMAIN F = 1 .. Len(F)
    BY <2>1, LenProperties
  <2>3. \A i \in 1 .. Len(F) : F[i] \in [w : Nat, h : Nat]
    BY <2>1, <2>2, ElementOfSeq
  <2>4. QED
    BY <2>1, <2>2, <2>3
<1>3. persona \in Personas
  BY DEF MediaInit
<1>4. \A i \in 1 .. Len(F) : AssetForResolution(F[i]) \in Builtin
  BY DEF AssetForResolution, Builtin
<1> DEFINE path(i) == <<persona, i>>
           video(i) == [token |-> i, size |-> F[i]]
           audio(i) == [token |-> i, rate |-> DefaultRate]
           asset(i) == IF own /\ i = Len(F) THEN "own" ELSE AssetForResolution(F[i])
           p(i) == [token |-> i, fixed |-> TRUE, path |-> path(i), video |-> video(i),
                    hasAudio |-> ~(mute /\ i = Len(F)), audio |-> audio(i), bound |-> {},
                    talk |-> [k \in Kinds |-> Device], hasPtz |-> turns \/ i = 1,
                    asset |-> asset(i)]
<1>5. ASSUME NEW i \in 1 .. Len(F)
      PROVE  /\ p(i) \in Profile /\ InPlace(p(i), i)
             /\ p(i).token = i /\ p(i).video.token = i /\ p(i).audio.token = i
  <2>1. path(i) \in Personas \X Nat /\ path(i)[2] = i
    BY <1>2, <1>3
  <2>2. video(i) \in Video /\ video(i).token = i /\ video(i).size = F[i]
    BY <1>2 DEF Video
  <2>3. audio(i) \in Audio /\ audio(i).token = i
    BY <1>2 DEF Audio, DefaultRate
  <2>4. asset(i) \in Builtin \cup {"own"} /\ (asset(i) \in Builtin => asset(i) = AssetForResolution(F[i]))
    BY <1>4 DEF Builtin
  <2>5. Origin(i) = i
    BY <1>2 DEF Origin, Fixed
  <2>6. [k \in Kinds |-> Device] \in [Kinds -> {Device}] /\ {} \in SUBSET Kinds
    OBVIOUS
  <2> HIDE DEF path, video, audio, asset
  <2>7. p(i) \in Profile
    BY <1>2, <2>1, <2>2, <2>3, <2>4, <2>6 DEF Profile
  <2>8. InPlace(p(i), i)
    BY <1>2, <2>1, <2>2, <2>4, <2>5 DEF InPlace, Fixed
  <2>9. QED
    BY <2>2, <2>3, <2>7, <2>8
<1>6. profiles = [i \in 1 .. Len(F) |-> p(i)]
  BY <1>1, <1>2
<1> HIDE DEF p
<1>7. profiles \in Seq(Profile) /\ Len(profiles) = Len(F) /\ DOMAIN profiles = 1 .. Len(F)
      /\ \A i \in 1 .. Len(F) : profiles[i] = p(i)
  BY <1>2, <1>5, <1>6
<1>8. QED
  BY <1>2, <1>3, <1>5, <1>7 DEF MediaInv, ProfilesOk, Agree, Fixed

LEMMA CreateKeeps == ASSUME MediaInv, CreateProfile PROVE ProfilesOk(profiles')
<1>1. /\ ProfilesOk(profiles)
      /\ Len(profiles) \in Nat /\ Len(profiles) >= 1 /\ DOMAIN profiles = 1 .. Len(profiles)
      /\ Fixed \in Nat /\ 1 <= Fixed /\ Fixed <= Len(profiles)
      /\ Len(profiles) < MaxProfiles /\ MaxProfiles \in Nat
      /\ profiles \in Seq(Profile) /\ \A i \in 1 .. Len(profiles) : profiles[i] \in Profile
  BY ProfilesShape, MediaAssumption DEF MediaInv, CreateProfile
<1> DEFINE n == Len(profiles)
<1>2. PICK asked \in Asked \cup {0} :
        LET token == IF asked = 0 THEN n + 1 ELSE asked
        IN  /\ token \notin ProfileTokens(profiles)
            /\ profiles' = Append(profiles, [profiles[1] EXCEPT
                             !.token = token, !.fixed = FALSE, !.bound = {}])
  BY DEF CreateProfile
<1> DEFINE token == IF asked = 0 THEN n + 1 ELSE asked
           p == profiles[1]
           q == [p EXCEPT !.token = token, !.fixed = FALSE, !.bound = {}]
<1>3. token \in Nat /\ \A i \in 1 .. n : profiles[i].token # token
  <2>1. Asked \subseteq Nat
    BY MediaAssumption
  <2>2. token \in Nat
    BY <1>1, <2>1
  <2>3. token \notin {profiles[i].token : i \in 1 .. n}
    BY <1>1, <1>2 DEF ProfileTokens
  <2>4. QED
    BY <2>2, <2>3
<1>4. profiles' = Append(profiles, q)
  BY <1>2
<1>5. p \in Profile
  BY <1>1
<1> HIDE DEF token
<1>6. /\ q \in Profile /\ q.token = token /\ q.fixed = FALSE /\ q.video = p.video
      /\ q.path = p.path /\ q.hasAudio = p.hasAudio /\ q.audio = p.audio /\ q.asset = p.asset
  BY <1>3, <1>5 DEF Profile
<1> HIDE DEF q
<1>7. /\ profiles' \in Seq(Profile) /\ Len(profiles') = n + 1 /\ DOMAIN profiles' = 1 .. n + 1
      /\ profiles'[n + 1] = q /\ \A i \in 1 .. n : profiles'[i] = profiles[i]
  <2>1. /\ Append(profiles, q) \in Seq(Profile) /\ Len(Append(profiles, q)) = n + 1
        /\ \A i \in 1 .. n : Append(profiles, q)[i] = profiles[i]
        /\ Append(profiles, q)[n + 1] = q
    BY <1>1, <1>6, AppendProperties
  <2>2. DOMAIN profiles' = 1 .. n + 1
    BY <1>4, <2>1, LenProperties
  <2>3. QED
    BY <1>4, <2>1, <2>2
<1>8. /\ InPlace(p, 1) /\ \A i \in 1 .. n : InPlace(profiles[i], i) /\ Agree(profiles[i], p) /\ Agree(p, profiles[i])
      /\ \A i, j \in 1 .. n : /\ i # j => profiles[i].token # profiles[j].token
                              /\ Agree(profiles[i], profiles[j])
  BY <1>1 DEF ProfilesOk
<1>9. InPlace(q, n + 1)
  BY <1>1, <1>6, <1>8 DEF InPlace, Origin
<1>10. Agree(q, q) /\ \A i \in 1 .. n : Agree(profiles[i], q) /\ Agree(q, profiles[i])
  BY <1>6, <1>8 DEF Agree
<1>11. \A i \in 1 .. n + 1 : i \in 1 .. n \/ i = n + 1
  BY <1>1
<1>12. \A i \in 1 .. n + 1 : InPlace(profiles'[i], i)
  BY <1>7, <1>8, <1>9, <1>11
<1>13. \A i, j \in 1 .. n + 1 : Agree(profiles'[i], profiles'[j])
  BY <1>7, <1>8, <1>10, <1>11
<1>14. \A i, j \in 1 .. n + 1 : i # j => profiles'[i].token # profiles'[j].token
  BY <1>3, <1>6, <1>7, <1>8, <1>11
<1>15. Len(profiles') \in Fixed .. MaxProfiles
  BY <1>1, <1>7
<1>16. QED
  BY <1>7, <1>12, <1>13, <1>14, <1>15 DEF ProfilesOk

LEMMA DeleteKeeps == ASSUME MediaInv, DeleteProfile PROVE ProfilesOk(profiles')
<1> DEFINE n == Len(profiles)
<1>1. /\ ProfilesOk(profiles)
      /\ n \in Nat /\ n >= 1 /\ n <= MaxProfiles /\ DOMAIN profiles = 1 .. n
      /\ Fixed \in Nat /\ 1 <= Fixed /\ Fixed <= n /\ MaxProfiles \in Nat
      /\ profiles \in Seq(Profile)
  BY ProfilesShape, MediaAssumption DEF MediaInv
<1>2. PICK i \in 1 .. n : ~profiles[i].fixed /\ profiles' = RemoveAt(profiles, i)
  BY <1>1 DEF DeleteProfile
<1>3. /\ \A k \in 1 .. n : InPlace(profiles[k], k)
      /\ \A k, m \in 1 .. n : /\ k # m => profiles[k].token # profiles[m].token
                              /\ Agree(profiles[k], profiles[m])
  BY <1>1 DEF ProfilesOk
<1>4. Fixed < i
  BY <1>1, <1>2, <1>3 DEF InPlace
<1> DEFINE from(k) == IF k < i THEN k ELSE k + 1
<1>5. /\ profiles' \in Seq(Profile) /\ Len(profiles') = n - 1 /\ DOMAIN profiles' = 1 .. n - 1
      /\ \A k \in 1 .. n - 1 : profiles'[k] = profiles[from(k)]
  <2>1. /\ RemoveAt(profiles, i) \in Seq(Profile) /\ Len(RemoveAt(profiles, i)) = n - 1
        /\ DOMAIN RemoveAt(profiles, i) = 1 .. n - 1
        /\ \A k \in 1 .. n - 1 :
              RemoveAt(profiles, i)[k] = IF k < i THEN profiles[k] ELSE profiles[k + 1]
    BY <1>1, WithoutOne
  <2>2. QED
    BY <1>2, <2>1
<1>6. \A k \in 1 .. n - 1 : /\ from(k) \in 1 .. n /\ (from(k) <= Fixed <=> k <= Fixed)
                            /\ Origin(from(k)) = Origin(k)
  BY <1>1, <1>4 DEF Origin
<1>7. \A k, m \in 1 .. n - 1 : k # m => from(k) # from(m)
  BY <1>1
<1> HIDE DEF from
<1>8. \A k \in 1 .. n - 1 : InPlace(profiles'[k], k)
  BY <1>3, <1>5, <1>6 DEF InPlace
<1>9. \A k, m \in 1 .. n - 1 : /\ k # m => profiles'[k].token # profiles'[m].token
                               /\ Agree(profiles'[k], profiles'[m])
  BY <1>3, <1>5, <1>6, <1>7
<1>10. Len(profiles') \in Fixed .. MaxProfiles
  BY <1>1, <1>4, <1>5
<1>11. QED
  BY <1>5, <1>8, <1>9, <1>10 DEF ProfilesOk

LEMMA SetVideoKeeps ==
  ASSUME MediaInv, SetVideoEncoderConfiguration
  PROVE  ProfilesOk(profiles')
<1> DEFINE n == Len(profiles)
<1>1. /\ ProfilesOk(profiles) /\ DOMAIN profiles = 1 .. n
      /\ \A i \in 1 .. n : profiles[i] \in Profile
      /\ \A i \in 1 .. n : InPlace(profiles[i], i)
      /\ \A i, j \in 1 .. n : Agree(profiles[i], profiles[j])
  BY ProfilesShape DEF MediaInv, ProfilesOk
<1>2. PICK config \in VideoEncoders, size \in Sizes :
        profiles' = [i \in 1 .. n |->
          IF profiles[i].video.token = config.token THEN Resized(profiles[i], size)
          ELSE profiles[i]]
  BY <1>1 DEF SetVideoEncoderConfiguration
<1>3. size \in [w : Nat, h : Nat] /\ AssetForResolution(size) \in Builtin
  BY MediaAssumption DEF AssetForResolution, Builtin
<1>4. ASSUME NEW p \in Profile
      PROVE  LET q == Resized(p, size) IN
             /\ q \in Profile /\ q.token = p.token /\ q.fixed = p.fixed /\ q.path = p.path
             /\ q.hasAudio = p.hasAudio /\ q.audio = p.audio
             /\ q.video = [token |-> p.video.token, size |-> size]
             /\ q.video.token = p.video.token /\ q.video.size = size
             /\ q.asset \in Builtin => q.asset = AssetForResolution(size)
  <2>1. [token |-> p.video.token, size |-> size] \in Video
    BY <1>3 DEF Profile, Video
  <2> DEFINE v == [token |-> p.video.token, size |-> size]
             a == IF p.asset \in Builtin THEN AssetForResolution(size) ELSE p.asset
  <2>2. v.token = p.video.token /\ v.size = size /\ v \in Video
    BY <2>1
  <2>3. a \in Builtin \cup {"own"} /\ (a \in Builtin => a = AssetForResolution(size))
    BY <1>3 DEF Profile
  <2>4. Resized(p, size) = [p EXCEPT !.video = v, !.asset = a]
    BY DEF Resized
  <2> HIDE DEF v, a
  <2> DEFINE q == [p EXCEPT !.video = v, !.asset = a]
  <2>5. q \in Profile
    BY <2>2, <2>3 DEF Profile
  <2>6. /\ q.token = p.token /\ q.fixed = p.fixed /\ q.path = p.path /\ q.hasAudio = p.hasAudio
        /\ q.audio = p.audio /\ q.video = v /\ q.asset = a
    BY <2>2, <2>3 DEF Profile
  <2> HIDE DEF q
  <2>7. Resized(p, size) = q
    BY <2>4 DEF q
  <2>8. QED
    BY <2>2, <2>3, <2>5, <2>6, <2>7 DEF v
<1> DEFINE hit(i) == profiles[i].video.token = config.token
<1>5. ASSUME NEW i \in 1 .. n
      PROVE  /\ profiles'[i] \in Profile /\ profiles'[i].token = profiles[i].token
             /\ InPlace(profiles'[i], i)
             /\ profiles'[i].video = IF hit(i) THEN [token |-> config.token, size |-> size]
                                     ELSE profiles[i].video
             /\ profiles'[i].video.token = profiles[i].video.token
             /\ profiles'[i].hasAudio = profiles[i].hasAudio
             /\ profiles'[i].audio = profiles[i].audio
  <2>1. profiles'[i] = IF hit(i) THEN Resized(profiles[i], size) ELSE profiles[i]
    BY <1>2
  <2>2. profiles[i] \in Profile /\ InPlace(profiles[i], i)
    BY <1>1
  <2> HIDE DEF hit
  <2>3. CASE ~hit(i)
    BY <2>1, <2>2, <2>3
  <2>4. CASE hit(i)
    <3>1. profiles[i].video.token = config.token
      BY <2>4 DEF hit
    <3> DEFINE q == Resized(profiles[i], size)
    <3>2. /\ q \in Profile /\ q.token = profiles[i].token /\ q.fixed = profiles[i].fixed
          /\ q.path = profiles[i].path /\ q.hasAudio = profiles[i].hasAudio
          /\ q.audio = profiles[i].audio /\ q.video = [token |-> config.token, size |-> size]
          /\ q.video.token = profiles[i].video.token /\ q.video.size = size
          /\ q.asset \in Builtin => q.asset = AssetForResolution(size)
      BY <1>4, <2>2, <3>1
    <3> HIDE DEF q
    <3>3. InPlace(q, i)
      BY <2>2, <3>2 DEF InPlace
    <3>4. profiles'[i] = q
      BY <2>1, <2>4 DEF q
    <3>5. QED
      BY <2>4, <3>2, <3>3, <3>4
  <2>5. QED
    BY <2>3, <2>4
<1>6. ASSUME NEW i \in 1 .. n, NEW j \in 1 .. n
      PROVE  Agree(profiles'[i], profiles'[j])
  <2>1. Agree(profiles[i], profiles[j])
    BY <1>1
  <2>2. profiles[i].video.token = profiles[j].video.token => (hit(i) <=> hit(j))
    OBVIOUS
  <2> HIDE DEF hit
  <2>3. QED
    BY <1>5, <2>1, <2>2 DEF Agree
<1>7. profiles' = [i \in DOMAIN profiles |-> profiles'[i]]
  BY <1>1, <1>2
<1>8. QED
  BY <1>1, <1>5, <1>6, <1>7, InPlaceKeeps

LEMMA SetAudioKeeps ==
  ASSUME MediaInv, SetAudioEncoderConfiguration
  PROVE  ProfilesOk(profiles')
<1> DEFINE n == Len(profiles)
<1>1. /\ ProfilesOk(profiles) /\ DOMAIN profiles = 1 .. n
      /\ \A i \in 1 .. n : profiles[i] \in Profile
      /\ \A i \in 1 .. n : InPlace(profiles[i], i)
      /\ \A i, j \in 1 .. n : Agree(profiles[i], profiles[j])
  BY ProfilesShape DEF MediaInv, ProfilesOk
<1>2. PICK config \in AudioEncoders, rate \in Rates :
        profiles' = [i \in 1 .. n |->
          IF profiles[i].hasAudio /\ profiles[i].audio.token = config.token
          THEN [profiles[i] EXCEPT !.audio.rate = Kilohertz(rate)]
          ELSE profiles[i]]
  BY <1>1 DEF SetAudioEncoderConfiguration
<1> DEFINE khz == Kilohertz(rate)
<1>3. khz \in Nat
  BY MediaAssumption DEF Kilohertz
<1> HIDE DEF khz
<1>4. ASSUME NEW p \in Profile
      PROVE  LET q == [p EXCEPT !.audio.rate = khz] IN
             /\ q \in Profile /\ q.token = p.token /\ q.fixed = p.fixed /\ q.path = p.path
             /\ q.hasAudio = p.hasAudio /\ q.video = p.video /\ q.asset = p.asset
             /\ q.audio = [token |-> p.audio.token, rate |-> khz]
             /\ q.audio.token = p.audio.token
  <2> DEFINE b == [p.audio EXCEPT !.rate = khz]
  <2>1. p.audio \in Audio
    BY DEF Profile
  <2>2. b \in Audio /\ b = [token |-> p.audio.token, rate |-> khz] /\ b.token = p.audio.token
    BY <1>3, <2>1 DEF Audio
  <2>3. [p EXCEPT !.audio.rate = khz] = [p EXCEPT !.audio = b]
    OBVIOUS
  <2> HIDE DEF b
  <2>4. QED
    BY <2>2, <2>3 DEF Profile
<1> DEFINE hit(i) == profiles[i].hasAudio /\ profiles[i].audio.token = config.token
<1>5. ASSUME NEW i \in 1 .. n
      PROVE  /\ profiles'[i] \in Profile /\ profiles'[i].token = profiles[i].token
             /\ InPlace(profiles'[i], i)
             /\ profiles'[i].audio = IF hit(i) THEN [token |-> config.token, rate |-> khz]
                                     ELSE profiles[i].audio
             /\ profiles'[i].audio.token = profiles[i].audio.token
             /\ profiles'[i].hasAudio = profiles[i].hasAudio
             /\ profiles'[i].video = profiles[i].video
  <2>1. profiles'[i] = IF hit(i) THEN [profiles[i] EXCEPT !.audio.rate = khz] ELSE profiles[i]
    BY <1>2 DEF khz
  <2>2. profiles[i] \in Profile /\ InPlace(profiles[i], i)
    BY <1>1
  <2> HIDE DEF hit
  <2>3. CASE ~hit(i)
    BY <2>1, <2>2, <2>3
  <2>4. CASE hit(i)
    <3>1. profiles[i].audio.token = config.token
      BY <2>4 DEF hit
    <3>2. QED
      BY <1>4, <2>1, <2>2, <2>4, <3>1 DEF InPlace
  <2>5. QED
    BY <2>3, <2>4
<1>6. ASSUME NEW i \in 1 .. n, NEW j \in 1 .. n
      PROVE  Agree(profiles'[i], profiles'[j])
  <2>1. Agree(profiles[i], profiles[j])
    BY <1>1
  <2>2. profiles[i].hasAudio /\ profiles[j].hasAudio /\ profiles[i].audio.token = profiles[j].audio.token
        => (hit(i) <=> hit(j))
    OBVIOUS
  <2> HIDE DEF hit
  <2>3. QED
    BY <1>5, <2>1, <2>2 DEF Agree
<1>7. profiles' = [i \in DOMAIN profiles |-> profiles'[i]]
  BY <1>1, <1>2
<1>8. QED
  BY <1>1, <1>5, <1>6, <1>7, InPlaceKeeps

\* An operation on one profile that leaves what other profiles share with it.
LEMMA TalkKeeps == ASSUME MediaInv, AddTalk \/ RemoveTalk PROVE ProfilesOk(profiles')
<1> DEFINE n == Len(profiles)
<1>1. /\ ProfilesOk(profiles) /\ DOMAIN profiles = 1 .. n /\ n \in Nat /\ n >= 1
      /\ \A i \in 1 .. n : profiles[i] \in Profile
      /\ \A i \in 1 .. n : InPlace(profiles[i], i)
      /\ \A i, j \in 1 .. n : Agree(profiles[i], profiles[j])
  BY ProfilesShape DEF MediaInv, ProfilesOk
<1>2. \A kind \in Kinds : DeviceConfig(kind) = Device
  BY <1>1 DEF DeviceConfig, Profile
<1>3. PICK i \in 1 .. n, kind \in Kinds :
        \/ profiles' = [profiles EXCEPT ![i].talk[kind] = DeviceConfig(kind),
                                        ![i].bound = @ \cup {kind}]
        \/ profiles' = [profiles EXCEPT ![i].bound = @ \ {kind}]
  BY <1>1 DEF AddTalk, RemoveTalk
<1> DEFINE p == profiles[i]
           a == [p EXCEPT !.talk[kind] = Device, !.bound = @ \cup {kind}]
           b == [p EXCEPT !.bound = @ \ {kind}]
           Same(q) == /\ q \in Profile /\ q.token = p.token /\ q.fixed = p.fixed
                      /\ q.path = p.path /\ q.video = p.video /\ q.asset = p.asset
                      /\ q.hasAudio = p.hasAudio /\ q.audio = p.audio
<1>4. p \in Profile
  BY <1>1
<1>5. Same(a)
  BY <1>4 DEF Profile
<1>6. Same(b)
  BY <1>4 DEF Profile
<1>7. \E q : Same(q) /\ profiles' = [profiles EXCEPT ![i] = q]
  <2>1. CASE profiles' = [profiles EXCEPT ![i].bound = @ \ {kind}]
    BY <1>6, <2>1
  <2>2. CASE profiles' = [profiles EXCEPT ![i].talk[kind] = DeviceConfig(kind),
                                          ![i].bound = @ \cup {kind}]
    <3>1. profiles' = [[profiles EXCEPT ![i] = [p EXCEPT !.talk[kind] = Device]] EXCEPT
                          ![i].bound = @ \cup {kind}]
      BY <1>2, <2>2
    <3>2. profiles' = [profiles EXCEPT ![i] = a]
      BY <1>1, <1>4, <3>1
    <3>3. QED
      BY <1>5, <3>2
  <2>3. QED
    BY <1>3, <2>1, <2>2
<1>8. PICK q : Same(q) /\ profiles' = [profiles EXCEPT ![i] = q]
  BY <1>7
<1>9. /\ profiles' = [k \in DOMAIN profiles |-> profiles'[k]]
      /\ \A k \in 1 .. n : profiles'[k] = IF k = i THEN q ELSE profiles[k]
  BY <1>1, <1>8
<1>10. InPlace(q, i)
  BY <1>1, <1>8 DEF InPlace
<1>11. \A k \in 1 .. n : /\ profiles'[k] \in Profile /\ profiles'[k].token = profiles[k].token
                         /\ InPlace(profiles'[k], k)
                         /\ profiles'[k].video = profiles[k].video
                         /\ profiles'[k].hasAudio = profiles[k].hasAudio
                         /\ profiles'[k].audio = profiles[k].audio
  BY <1>1, <1>8, <1>9, <1>10
<1>12. \A k, m \in 1 .. n : Agree(profiles'[k], profiles'[m])
  BY <1>1, <1>11 DEF Agree
<1>13. QED
  BY <1>1, <1>9, <1>11, <1>12, InPlaceKeeps

LEMMA SetPersonaKeeps == ASSUME MediaInv, SetPersona PROVE MediaInv'
<1> DEFINE n == Len(profiles)
<1>1. /\ ProfilesOk(profiles) /\ DOMAIN profiles = 1 .. n /\ n \in Nat
      /\ \A i \in 1 .. n : profiles[i] \in Profile
      /\ \A i \in 1 .. n : InPlace(profiles[i], i)
      /\ \A i, j \in 1 .. n : Agree(profiles[i], profiles[j])
  BY ProfilesShape DEF MediaInv, ProfilesOk
<1>2. PICK who \in Personas : persona' = who /\ profiles' = PathsOf(who, profiles)
  BY DEF SetPersona
<1>3. ASSUME NEW p \in Profile, NEW i \in 1 .. n
      PROVE  LET q == [p EXCEPT !.path = <<who, i>>] IN
             /\ q \in Profile /\ q.token = p.token /\ q.fixed = p.fixed
             /\ q.path = <<who, i>> /\ q.video = p.video /\ q.asset = p.asset
             /\ q.hasAudio = p.hasAudio /\ q.audio = p.audio
  <2> DEFINE w == <<who, i>>
  <2>1. w \in Personas \X Nat
    BY <1>1
  <2> HIDE DEF w
  <2>2. LET q == [p EXCEPT !.path = w] IN
             /\ q \in Profile /\ q.token = p.token /\ q.fixed = p.fixed
             /\ q.path = w /\ q.video = p.video /\ q.asset = p.asset
             /\ q.hasAudio = p.hasAudio /\ q.audio = p.audio
    BY <2>1 DEF Profile
  <2>3. QED
    BY <2>2 DEF w
<1>4. /\ profiles' = [i \in DOMAIN profiles |-> profiles'[i]]
      /\ \A i \in 1 .. n :
            profiles'[i] = IF i <= 3 THEN [profiles[i] EXCEPT !.path = <<who, i>>] ELSE profiles[i]
  BY <1>1, <1>2 DEF PathsOf
<1>5. ASSUME NEW i \in 1 .. n
      PROVE  /\ profiles'[i] \in Profile /\ profiles'[i].token = profiles[i].token
             /\ InPlace(profiles'[i], i)
             /\ profiles'[i].video = profiles[i].video
             /\ profiles'[i].hasAudio = profiles[i].hasAudio
             /\ profiles'[i].audio = profiles[i].audio
  <2>1. profiles[i] \in Profile /\ InPlace(profiles[i], i)
    BY <1>1
  <2>2. CASE i > 3
    BY <1>1, <1>4, <2>1, <2>2
  <2>3. CASE i <= 3
    <3> DEFINE q == [profiles[i] EXCEPT !.path = <<who, i>>]
    <3>1. /\ q \in Profile /\ q.token = profiles[i].token /\ q.fixed = profiles[i].fixed
          /\ q.path = <<who, i>> /\ q.video = profiles[i].video /\ q.asset = profiles[i].asset
          /\ q.hasAudio = profiles[i].hasAudio /\ q.audio = profiles[i].audio
      BY <1>3, <2>1
    <3>2. profiles'[i] = q
      BY <1>4, <2>3
    <3> HIDE DEF q
    <3>3. q.path[2] = i
      BY <3>1
    <3>4. InPlace(q, i)
      BY <2>1, <3>1, <3>3 DEF InPlace
    <3>5. QED
      BY <3>1, <3>2, <3>4
  <2>4. QED
    BY <1>1, <2>2, <2>3
<1>6. \A k, m \in 1 .. n : Agree(profiles'[k], profiles'[m])
  BY <1>1, <1>5 DEF Agree
<1>7. ProfilesOk(profiles')
  BY <1>1, <1>4, <1>5, <1>6, InPlaceKeeps
<1>8. QED
  BY <1>2, <1>7 DEF MediaInv

\* What a scenario file keeps of a profile.
LEMMA Kept ==
  ASSUME NEW p \in Profile
  PROVE  LET q == ProfileFromJson(ProfileToJson(p)) IN
         /\ q \in Profile /\ q.token = p.token /\ q.fixed = p.fixed /\ q.path = p.path
         /\ q.video = p.video /\ q.asset = p.asset /\ q.hasAudio = p.hasAudio
         /\ p.hasAudio => q.audio = p.audio
         /\ q.bound = p.bound /\ q.talk = p.talk /\ q.hasPtz = p.hasPtz
<1> DEFINE ja == IF p.hasAudio THEN p.audio ELSE Absent
           jt == [k \in Kinds |-> IF k \in p.bound THEN p.talk[k] ELSE Absent]
           o == ProfileToJson(p)
           a == IF o.audio = Absent THEN [token |-> 1, rate |-> DefaultRate] ELSE o.audio
           t == [k \in Kinds |-> IF o.talk[k] = Absent THEN Device ELSE o.talk[k]]
           q == ProfileFromJson(o)
<1>1. /\ p.audio \in Audio /\ p.talk \in [Kinds -> {Device}] /\ p.bound \in SUBSET Kinds
      /\ p.hasAudio \in BOOLEAN
  BY DEF Profile
<1>2. o = [p EXCEPT !.audio = ja, !.talk = jt]
  BY DEF ProfileToJson
<1> HIDE DEF ja, jt
<1>3. /\ o.audio = ja /\ o.talk = jt
      /\ o.token = p.token /\ o.fixed = p.fixed /\ o.path = p.path /\ o.video = p.video
      /\ o.asset = p.asset /\ o.hasAudio = p.hasAudio /\ o.bound = p.bound /\ o.hasPtz = p.hasPtz
  BY <1>2 DEF Profile
<1>4. q = [o EXCEPT !.audio = a, !.talk = t]
  BY DEF ProfileFromJson
<1>5. a \in Audio /\ (p.hasAudio => a = p.audio)
  <2>1. [token |-> 1, rate |-> DefaultRate] \in Audio
    BY DEF Audio, DefaultRate
  <2>2. Absent \notin Audio
    BY MediaAssumption DEF Audio
  <2>3. a = IF ja = Absent THEN [token |-> 1, rate |-> DefaultRate] ELSE ja
    BY <1>3
  <2> HIDE DEF a
  <2>4. QED
    BY <1>1, <2>1, <2>2, <2>3 DEF ja
<1>6. t = p.talk
  <2>1. Absent # Device
    BY MediaAssumption DEF Device
  <2>2. \A k \in Kinds : t[k] = Device
    BY <1>1, <1>3, <2>1 DEF jt
  <2>3. QED
    BY <1>1, <2>2
<1> HIDE DEF a, t
<1>7. q = [[p EXCEPT !.audio = ja, !.talk = jt] EXCEPT !.audio = a, !.talk = p.talk]
  BY <1>2, <1>4, <1>6
<1> HIDE DEF o, q
<1>8. q = [p EXCEPT !.audio = a]
  BY <1>7 DEF Profile
<1>9. /\ q \in Profile /\ q.audio = a /\ q.token = p.token /\ q.fixed = p.fixed
      /\ q.path = p.path /\ q.video = p.video /\ q.asset = p.asset
      /\ q.hasAudio = p.hasAudio /\ q.bound = p.bound /\ q.talk = p.talk /\ q.hasPtz = p.hasPtz
  BY <1>5, <1>8 DEF Profile
<1>10. QED
  BY <1>5, <1>9 DEF q, o


LEMMA ReloadKeeps == ASSUME MediaInv, Reload PROVE ProfilesOk(profiles')
<1> DEFINE n == Len(profiles)
<1>1. /\ ProfilesOk(profiles) /\ DOMAIN profiles = 1 .. n /\ n \in Nat
      /\ \A i \in 1 .. n : profiles[i] \in Profile
      /\ \A i \in 1 .. n : InPlace(profiles[i], i)
      /\ \A i, j \in 1 .. n : Agree(profiles[i], profiles[j])
  BY ProfilesShape DEF MediaInv, ProfilesOk
<1>2. /\ profiles' = [i \in DOMAIN profiles |-> profiles'[i]]
      /\ \A i \in 1 .. n : profiles'[i] = ProfileFromJson(ProfileToJson(profiles[i]))
  BY <1>1 DEF Reload, Reloaded
<1>3. ASSUME NEW i \in 1 .. n
      PROVE  /\ profiles'[i] \in Profile /\ profiles'[i].token = profiles[i].token
             /\ InPlace(profiles'[i], i)
             /\ profiles'[i].video = profiles[i].video
             /\ profiles'[i].hasAudio = profiles[i].hasAudio
             /\ profiles[i].hasAudio => profiles'[i].audio = profiles[i].audio
  <2>1. profiles[i] \in Profile /\ InPlace(profiles[i], i)
    BY <1>1
  <2>2. LET q == profiles'[i]  p == profiles[i] IN
        /\ q \in Profile /\ q.token = p.token /\ q.fixed = p.fixed /\ q.path = p.path
        /\ q.video = p.video /\ q.asset = p.asset /\ q.hasAudio = p.hasAudio
        /\ p.hasAudio => q.audio = p.audio
    BY <1>2, <2>1, Kept
  <2>3. QED
    BY <2>1, <2>2 DEF InPlace
<1>4. \A k, m \in 1 .. n : Agree(profiles'[k], profiles'[m])
  BY <1>1, <1>3 DEF Agree
<1>5. QED
  BY <1>1, <1>2, <1>3, <1>4, InPlaceKeeps

LEMMA MediaStep == MediaInv /\ [MediaNext]_mediaVars => MediaInv'
<1> SUFFICES ASSUME MediaInv, [MediaNext]_mediaVars PROVE MediaInv'
  OBVIOUS
<1>1. CASE CreateProfile
  BY <1>1, CreateKeeps DEF MediaInv, CreateProfile
<1>2. CASE DeleteProfile
  BY <1>2, DeleteKeeps DEF MediaInv, DeleteProfile
<1>3. CASE SetVideoEncoderConfiguration
  BY <1>3, SetVideoKeeps DEF MediaInv, SetVideoEncoderConfiguration
<1>4. CASE SetAudioEncoderConfiguration
  BY <1>4, SetAudioKeeps DEF MediaInv, SetAudioEncoderConfiguration
<1>5. CASE AddTalk \/ RemoveTalk
  BY <1>5, TalkKeeps DEF MediaInv, AddTalk, RemoveTalk
<1>6. CASE SetPersona
  BY <1>6, SetPersonaKeeps
<1>7. CASE Reload
  BY <1>7, ReloadKeeps DEF MediaInv, Reload
<1>8. CASE UNCHANGED mediaVars
  BY <1>8 DEF MediaInv, mediaVars
<1>9. QED
  BY <1>1, <1>2, <1>3, <1>4, <1>5, <1>6, <1>7, <1>8 DEF MediaNext

-----------------------------------------------------------------------------
LEMMA TokensCounted ==
  ASSUME ProfilesOk(profiles)
  PROVE  TokensDiffer
<1> DEFINE n == Len(profiles)  f == [i \in 1 .. n |-> profiles[i].token]
<1>1. n \in Nat /\ DOMAIN profiles = 1 .. n
  BY ProfilesShape
<1>2. f \in Bijection(1 .. n, ProfileTokens(profiles))
  <2>1. f \in [1 .. n -> ProfileTokens(profiles)]
    BY <1>1 DEF ProfileTokens
  <2>2. \A i, j \in 1 .. n : f[i] = f[j] => i = j
    BY <1>1 DEF ProfilesOk
  <2>3. \A t \in ProfileTokens(profiles) : \E i \in 1 .. n : f[i] = t
    BY <1>1 DEF ProfileTokens
  <2>4. QED
    BY <2>1, <2>2, <2>3 DEF Bijection, Injection, Surjection, IsInjective
<1>3. ExistsBijection(1 .. n, ProfileTokens(profiles))
  BY <1>2 DEF ExistsBijection
<1>4. QED
  BY <1>1, <1>3, FS_CountingElements DEF TokensDiffer

\* Where equal tokens mean equal configurations, every configuration is in the list.
LEMMA InTheList ==
  ASSUME NEW D \in SUBSET Nat, NEW configs, DOMAIN configs = D, NEW i \in D,
         \A j, k \in D : configs[j].token = configs[k].token => configs[j] = configs[k]
  PROVE  configs[i] \in UniqueConfigs(configs)
<1> DEFINE S == {j \in D : configs[j].token = configs[i].token}
<1>1. PICK f \in S : \A j \in S : f <= j
  BY Smallest
<1>2. \A j \in D : j < f => configs[j].token # configs[f].token
  BY <1>1
<1>3. configs[f] = configs[i]
  BY <1>1
<1>4. QED
  BY <1>1, <1>2, <1>3 DEF UniqueConfigs

LEMMA ListsAgree ==
  ASSUME ProfilesOk(profiles)
  PROVE  ConfigurationsAgree
<1> DEFINE n == Len(profiles)  heard == {i \in 1 .. n : profiles[i].hasAudio}
           vs == [i \in 1 .. n |-> profiles[i].video]
           as == [i \in heard |-> profiles[i].audio]
<1>1. /\ n \in Nat /\ DOMAIN profiles = 1 .. n
      /\ \A i, j \in 1 .. n : Agree(profiles[i], profiles[j])
  BY ProfilesShape DEF ProfilesOk
<1>2. VideoEncoders = UniqueConfigs(vs) /\ AudioEncoders = UniqueConfigs(as)
  BY <1>1 DEF VideoEncoders, AudioEncoders
<1>3. ASSUME NEW i \in 1 .. n PROVE profiles[i].video \in VideoEncoders
  <2>1. \A j, k \in 1 .. n : vs[j].token = vs[k].token => vs[j] = vs[k]
    BY <1>1 DEF Agree
  <2>2. 1 .. n \in SUBSET Nat /\ DOMAIN vs = 1 .. n /\ vs[i] = profiles[i].video
    BY <1>1
  <2> HIDE DEF vs
  <2>3. vs[i] \in UniqueConfigs(vs)
    BY <2>1, <2>2, InTheList
  <2>4. QED
    BY <1>2, <2>2, <2>3
<1>4. ASSUME NEW i \in heard PROVE profiles[i].audio \in AudioEncoders
  <2>1. \A j, k \in heard : as[j].token = as[k].token => as[j] = as[k]
    BY <1>1 DEF Agree
  <2>2. heard \in SUBSET Nat /\ DOMAIN as = heard /\ as[i] = profiles[i].audio
    BY <1>1
  <2> HIDE DEF as, heard
  <2>3. as[i] \in UniqueConfigs(as)
    BY <1>4, <2>1, <2>2, InTheList
  <2>4. QED
    BY <1>2, <2>2, <2>3
<1>5. QED
  BY <1>1, <1>3, <1>4 DEF ConfigurationsAgree, Range

LEMMA UriHolds ==
  ASSUME ProfilesOk(profiles)
  PROVE  UriLeadsToDeclared
<1> DEFINE n == Len(profiles)
<1>1. /\ n \in Nat /\ DOMAIN profiles = 1 .. n
      /\ \A i \in 1 .. n : InPlace(profiles[i], i)
      /\ \A i, j \in 1 .. n : Agree(profiles[i], profiles[j])
  BY ProfilesShape DEF ProfilesOk
<1> SUFFICES ASSUME NEW i \in 1 .. n
             PROVE  ServedFor(i).asset \in Builtin =>
                      ServedFor(i).asset = AssetForResolution(profiles[i].video.size)
  BY <1>1 DEF UriLeadsToDeclared
<1> DEFINE S == {k \in 1 .. n : profiles[k].path = profiles[i].path}
<1>2. PICK f \in S : \A k \in S : f <= k
  <2>1. S \in SUBSET Nat /\ i \in S
    BY <1>1
  <2> HIDE DEF S
  <2>2. QED
    BY <2>1, Smallest
<1>3. \A j \in 1 .. (f - 1) : profiles[j].path # profiles[i].path
  BY <1>1, <1>2
<1>4. \E k \in DOMAIN profiles :
        /\ profiles[k].path = profiles[i].path
        /\ \A j \in 1..(k - 1) : profiles[j].path # profiles[i].path
  BY <1>1, <1>2, <1>3
<1>5. PICK k \in 1 .. n : ServedFor(i) = profiles[k] /\ profiles[k].path = profiles[i].path
  BY <1>1, <1>4 DEF ServedFor
<1>6. profiles[k].video.token = profiles[i].video.token
  BY <1>1, <1>5 DEF InPlace
<1>7. profiles[k].video = profiles[i].video
  BY <1>1, <1>6 DEF Agree
<1>8. QED
  BY <1>1, <1>5, <1>7 DEF InPlace

LEMMA ReloadHolds ==
  ASSUME ProfilesOk(profiles)
  PROVE  ReloadShowsSame
<1> DEFINE n == Len(profiles)
<1>1. n \in Nat /\ DOMAIN profiles = 1 .. n /\ \A i \in 1 .. n : profiles[i] \in Profile
  BY ProfilesShape
<1> SUFFICES ASSUME NEW mode \in PtzModes
             PROVE  GetProfiles(Reloaded(profiles), mode) = GetProfiles(profiles, mode)
  BY DEF ReloadShowsSame
<1>2. /\ DOMAIN Reloaded(profiles) = 1 .. n
      /\ \A i \in 1 .. n : Reloaded(profiles)[i] = ProfileFromJson(ProfileToJson(profiles[i]))
  BY <1>1 DEF Reloaded
<1>3. ASSUME NEW i \in 1 .. n
      PROVE  WriteProfile(Reloaded(profiles)[i], mode, i) = WriteProfile(profiles[i], mode, i)
  <2> DEFINE q == Reloaded(profiles)[i]  p == profiles[i]
  <2>1. p \in Profile /\ q = ProfileFromJson(ProfileToJson(p))
    BY <1>1, <1>2
  <2>2. /\ q.token = p.token /\ q.fixed = p.fixed /\ q.path = p.path
        /\ q.video = p.video /\ q.hasAudio = p.hasAudio
        /\ p.hasAudio => q.audio = p.audio
        /\ q.bound = p.bound /\ q.talk = p.talk /\ q.hasPtz = p.hasPtz
    BY <2>1, Kept
  <2> HIDE DEF q, p
  <2>3. /\ AdvertisesPtz(q, mode, i) = AdvertisesPtz(p, mode, i)
        /\ (IF q.hasAudio THEN q.audio ELSE Absent) = (IF p.hasAudio THEN p.audio ELSE Absent)
        /\ [k \in q.bound |-> q.talk[k]] = [k \in p.bound |-> p.talk[k]]
    BY <2>2 DEF AdvertisesPtz
  <2>4. WriteProfile(q, mode, i) = WriteProfile(p, mode, i)
    BY <2>2, <2>3 DEF WriteProfile
  <2>5. QED
    BY <2>4 DEF q, p
<1>4. QED
  BY <1>1, <1>2, <1>3 DEF GetProfiles

\* However profiles are created, deleted, reconfigured, bound, renamed by a persona or
\* reloaded (MediaService, Media2Service, setPersona, CameraModel): tokens differ, what
\* shares a configuration shares its settings, the URI of a profile leads to a stream of
\* the declared resolution, and a scenario file loses nothing a client can see.
THEOREM MediaStaysConsistent == MediaSpec => []MediaConsistent
<1>1. MediaInv => MediaConsistent
  <2> SUFFICES ASSUME MediaInv PROVE MediaConsistent
    OBVIOUS
  <2>1. /\ Len(profiles) \in Nat /\ Len(profiles) >= 1 /\ Len(profiles) <= MaxProfiles
        /\ DOMAIN profiles = 1 .. Len(profiles)
        /\ profiles \in Seq(Profile) /\ \A i \in 1 .. Len(profiles) : profiles[i] \in Profile
    BY ProfilesShape DEF MediaInv
  <2>2. profiles # <<>>
    BY <2>1
  <2>3. \A p \in Range(profiles) : p.bound \subseteq Kinds
    BY <2>1 DEF Range, Profile
  <2>4. MediaTypeOK
    BY <2>1, <2>2, <2>3 DEF MediaTypeOK, MediaInv
  <2>5. QED
    BY <2>4, TokensCounted, ListsAgree, UriHolds, ReloadHolds DEF MediaConsistent, MediaInv
<1>2. QED
  BY <1>1, InitMedia, MediaStep, PTL DEF MediaSpec

-----------------------------------------------------------------------------

(* Fleet.                                                                  *)

Apart(cams) ==
  \A i, j \in DOMAIN cams : i # j =>
    cams[i].id # cams[j].id /\ Ports(cams[i]) \cap Ports(cams[j]) = {}
Ours(cams) == \A i \in DOMAIN cams : Ports(cams[i]) \cap Foreign = {}

FleetInv ==
  /\ cameras \in Seq(CameraRecords) /\ Len(cameras) <= MaxCameras
  /\ nextIndex \in 0 .. MaxIndex + 1 /\ global \in Tables
  /\ Apart(cameras) /\ Ours(cameras)

-----------------------------------------------------------------------------
\* Quirk tables.
LEMMA TablesClosed ==
  /\ NoQuirks \in Tables
  /\ \A t, o \in Tables : Merged(t, o) \in Tables
  /\ \A t \in Tables : \A keys : \A w \in BOOLEAN : Switched(t, keys, w) \in Tables
  /\ \A t \in Tables : FromFile(t) \in Tables
<1>1. NoQuirks \in Tables
  BY DEF NoQuirks, Unset, Tables, States
<1>2. ASSUME NEW t \in Tables, NEW o \in Tables PROVE Merged(t, o) \in Tables
  <2>1. \A q \in QuirkKeys : /\ t[q] \in [state : States, params : BOOLEAN]
                             /\ o[q] \in [state : States, params : BOOLEAN]
    BY DEF Tables
  <2>2. \A q \in QuirkKeys :
          (IF o[q].state = "unset" THEN t[q]
           ELSE [state |-> o[q].state, params |-> t[q].params \/ o[q].params])
             \in [state : States, params : BOOLEAN]
    BY <2>1
  <2>3. QED
    BY <2>2 DEF Merged, Tables
<1>3. ASSUME NEW t \in Tables, NEW keys, NEW w \in BOOLEAN PROVE Switched(t, keys, w) \in Tables
  <2>1. \A q \in QuirkKeys : t[q] \in [state : States, params : BOOLEAN]
    BY DEF Tables
  <2>2. \A q \in QuirkKeys :
          (IF q \in keys
           THEN [state |-> "on", params |-> t[q].params \/ (w /\ q \in Tuned)]
           ELSE t[q]) \in [state : States, params : BOOLEAN]
    BY <2>1 DEF States
  <2>3. QED
    BY <2>2 DEF Switched, Tables
<1>4. ASSUME NEW t \in Tables PROVE FromFile(t) \in Tables
  BY DEF FromFile, Unset, Tables, States
<1>5. QED
  BY <1>1, <1>2, <1>3, <1>4

LEMMA BornType ==
  ASSUME NEW c \in CameraRecords, NEW globally
  PROVE  /\ Born(c, globally) \in CameraRecords
         /\ Born(c, globally).id = c.id /\ Born(c, globally).preset = c.preset
         /\ Born(c, globally).http = c.http /\ Born(c, globally).rtsp = c.rtsp
         /\ Ports(Born(c, globally)) = Ports(c)
         /\ Born(c, globally).quirks = Merged(Defaults(c.preset, globally), c.quirks)
<1> DEFINE table == Merged(Defaults(c.preset, globally), c.quirks)
<1>1. c.quirks \in Tables /\ Defaults(c.preset, globally) \in Tables
  BY TablesClosed DEF CameraRecords, Defaults
<1>2. table \in Tables
  BY <1>1, TablesClosed
<1>3. Born(c, globally) = [c EXCEPT !.quirks = table]
  BY DEF Born
<1> HIDE DEF table
<1>4. /\ Born(c, globally) \in CameraRecords
      /\ Born(c, globally).id = c.id /\ Born(c, globally).http = c.http
      /\ Born(c, globally).rtsp = c.rtsp /\ Born(c, globally).preset = c.preset
      /\ Born(c, globally).quirks = table
  BY <1>2, <1>3 DEF CameraRecords
<1>5. QED
  BY <1>4 DEF Ports, table

-----------------------------------------------------------------------------
\* Lists of cameras.
LEMMA IdsOf ==
  ASSUME NEW cams \in Seq(CameraRecords)
  PROVE  /\ DOMAIN cams = 1 .. Len(cams) /\ Len(cams) \in Nat
         /\ \A i \in DOMAIN cams : cams[i] \in CameraRecords
         /\ \A id : id \in IdsIn(cams) <=> \E i \in DOMAIN cams : cams[i].id = id
         /\ \A p : p \in HeldBy(cams) <=> \E i \in DOMAIN cams : p \in Ports(cams[i])
<1>1. DOMAIN cams = 1 .. Len(cams) /\ Len(cams) \in Nat
  BY LenProperties
<1>2. \A i \in DOMAIN cams : cams[i] \in CameraRecords
  BY <1>1, ElementOfSeq
<1>3. \A id : id \in IdsIn(cams) <=> \E i \in DOMAIN cams : cams[i].id = id
  BY DEF IdsIn, Range
<1>4. \A p : p \in HeldBy(cams) <=> \E i \in DOMAIN cams : p \in Ports(cams[i])
  BY DEF HeldBy, Range
<1>5. QED
  BY <1>1, <1>2, <1>3, <1>4

LEMMA Appended ==
  ASSUME NEW cams \in Seq(CameraRecords), NEW c \in CameraRecords
  PROVE  /\ Append(cams, c) \in Seq(CameraRecords)
         /\ DOMAIN Append(cams, c) = 1 .. Len(cams) + 1
         /\ Len(Append(cams, c)) = Len(cams) + 1
         /\ \A i \in 1 .. Len(cams) : Append(cams, c)[i] = cams[i]
         /\ Append(cams, c)[Len(cams) + 1] = c
BY AppendProperties, LenProperties

\* A camera with an id and ports of its own joins.
LEMMA JoinedApart ==
  ASSUME NEW cams \in Seq(CameraRecords), NEW c \in CameraRecords, Apart(cams), Ours(cams),
         c.id \notin IdsIn(cams), Ports(c) \cap (HeldBy(cams) \cup Foreign) = {}
  PROVE  Apart(Append(cams, c)) /\ Ours(Append(cams, c))
<1> DEFINE s == Append(cams, c)  L == Len(cams)
<1>1. /\ DOMAIN cams = 1 .. L /\ L \in Nat
      /\ DOMAIN s = 1 .. L + 1
      /\ \A i \in 1 .. L : s[i] = cams[i]
      /\ s[L + 1] = c
  BY Appended, IdsOf
<1>2. \A i \in 1 .. L : cams[i].id # c.id /\ Ports(cams[i]) \cap Ports(c) = {}
  BY <1>1, IdsOf
<1>3. Ports(c) \cap Foreign = {}
  OBVIOUS
<1> HIDE DEF s, L
<1>4. ASSUME NEW i \in DOMAIN s, NEW j \in DOMAIN s, i # j
      PROVE  s[i].id # s[j].id /\ Ports(s[i]) \cap Ports(s[j]) = {}
  <2>1. CASE i \in 1 .. L /\ j \in 1 .. L
    BY <1>1, <1>4, <2>1 DEF Apart
  <2>2. CASE i \in 1 .. L /\ j = L + 1
    BY <1>1, <1>2, <2>2
  <2>3. CASE i = L + 1 /\ j \in 1 .. L
    BY <1>1, <1>2, <2>3
  <2>4. QED
    BY <1>1, <1>4, <2>1, <2>2, <2>3
<1>5. ASSUME NEW i \in DOMAIN s PROVE Ports(s[i]) \cap Foreign = {}
  <2>1. CASE i \in 1 .. L
    BY <1>1, <2>1 DEF Ours
  <2>2. CASE i = L + 1
    BY <1>1, <1>3, <2>2
  <2>3. QED
    BY <1>1, <2>1, <2>2
<1>6. QED
  BY <1>4, <1>5 DEF Apart, Ours, s

\* What has the ids and ports of one list, has its ports apart.
LEMMA SameApart ==
  ASSUME NEW a, NEW b, DOMAIN b = DOMAIN a,
         \A i \in DOMAIN a : b[i].id = a[i].id /\ Ports(b[i]) = Ports(a[i]),
         Apart(a), Ours(a)
  PROVE  Apart(b) /\ Ours(b)
BY DEF Apart, Ours

\* nextCameraId() finds an id: among more numbers than there are cameras.
LEMMA NextIdFresh ==
  ASSUME NEW cams \in Seq(CameraRecords)
  PROVE  NextId(cams) \in Int /\ NextId(cams) \notin IdsIn(cams)
<1> DEFINE L == Len(cams)  I == L + 1 .. 2 * L + 1  free == I \ IdsIn(cams)
<1>1. L \in Nat /\ DOMAIN cams = 1 .. L
  BY IdsOf
<1>2. IsFiniteSet(IdsIn(cams)) /\ Cardinality(IdsIn(cams)) <= L
  <2> DEFINE f == [i \in 1 .. L |-> cams[i].id]
  <2>1. f \in Surjection(1 .. L, IdsIn(cams))
    <3>1. f \in [1 .. L -> IdsIn(cams)]
      BY <1>1, IdsOf
    <3>2. \A t \in IdsIn(cams) : \E i \in 1 .. L : f[i] = t
      BY <1>1, IdsOf
    <3>3. QED
      BY <3>1, <3>2 DEF Surjection
  <2>2. IsFiniteSet(1 .. L) /\ Cardinality(1 .. L) = L
    BY <1>1, FS_Interval
  <2> HIDE DEF f, L
  <2>3. QED
    BY <2>1, <2>2, FS_Surjection
<1>3. free # {}
  <2>1. SUFFICES ASSUME I \subseteq IdsIn(cams) PROVE FALSE
    OBVIOUS
  <2>2. Cardinality(I) <= Cardinality(IdsIn(cams))
    BY <1>2, <2>1, FS_Subset
  <2>3. Cardinality(I) = L + 1
    <3> DEFINE a == L + 1  b == 2 * L + 1
    <3>1. a \in Int /\ b \in Int /\ a <= b /\ b - a + 1 = L + 1 /\ I = a .. b
      BY <1>1
    <3> HIDE DEF a, b, I
    <3>2. QED
      BY <3>1, FS_Interval
  <2>4. Cardinality(IdsIn(cams)) \in Nat
    BY <1>2, FS_CardinalityType
  <2>5. QED
    BY <1>1, <1>2, <2>2, <2>3, <2>4
<1>4. free \in SUBSET Nat
  BY <1>1
<1>5. NextId(cams) = Least(free)
  BY DEF NextId
<1> HIDE DEF free
<1>6. \E n \in free : \A m \in free : n <= m
  BY <1>3, <1>4, Smallest
<1>7. Least(free) \in free
  BY <1>6 DEF Least
<1>8. QED
  BY <1>4, <1>5, <1>7 DEF free

-----------------------------------------------------------------------------
\* Loading: one camera after the other joins those there already.
LoadsBy(scenario, L, G) ==
  /\ G[0] = <<>>
  /\ \A n \in 1 .. L : G[n] = Brought(G[n - 1], scenario.cameras[n], scenario.global)
  /\ Loaded(scenario) = G[L]

LEMMA BroughtType ==
  ASSUME NEW cams \in Seq(CameraRecords), NEW c \in CameraRecords, NEW globally
  PROVE  Brought(cams, c, globally) \in Seq(CameraRecords)
BY BornType, Appended DEF Brought

LEMMA LoadedRecurs ==
  ASSUME NEW scenario, NEW L \in Nat, Len(scenario.cameras) = L,
         \A n \in 1 .. L : scenario.cameras[n] \in CameraRecords
  PROVE  \E G : LoadsBy(scenario, L, G)
<1> DEFINE X == Seq(CameraRecords)
           T(acc, n) == Brought(acc, scenario.cameras[n], scenario.global)
           B(g, n) == IF n = 0 THEN <<>> ELSE T(g[n - 1], n)
           G == CHOOSE g : g = [n \in 0 .. L |->
                  IF n = 0 THEN <<>>
                  ELSE Brought(g[n - 1], scenario.cameras[n], scenario.global)]
           H == [n \in 1 .. L |-> [acc \in X |-> T(acc, n)]]
<1>1. \A n \in 1 .. L : H[n] \in [X -> X]
  BY BroughtType
<1>2. \E f \in [0 .. L -> X] : f[0] = <<>> /\ \A n \in 1 .. L : f[n] = H[n][f[n - 1]]
  <2>1. <<>> \in X
    OBVIOUS
  <2> HIDE DEF H, X
  <2>2. HasRun(L, X, <<>>, H)
    BY <1>1, <2>1, Iterates
  <2>3. QED
    BY <2>2 DEF HasRun
<1>3. PICK f \in [0 .. L -> X] : f[0] = <<>> /\ \A n \in 1 .. L : f[n] = H[n][f[n - 1]]
  BY <1>2
<1>4. \A n \in 1 .. L : f[n] = T(f[n - 1], n)
  <2> SUFFICES ASSUME NEW n \in 1 .. L PROVE f[n] = T(f[n - 1], n)
    OBVIOUS
  <2>1. f[n - 1] \in X
    <3>1. n - 1 \in 0 .. L
      OBVIOUS
    <3> HIDE DEF X
    <3>2. QED
      BY <3>1
  <2> HIDE DEF T, X
  <2>2. QED
    BY <1>3, <2>1
<1>5. f = [n \in 0 .. L |-> B(f, n)]
  <2>1. f = [n \in 0 .. L |-> f[n]]
    OBVIOUS
  <2>2. \A n \in 0 .. L : f[n] = B(f, n)
    <3> SUFFICES ASSUME NEW n \in 0 .. L PROVE f[n] = B(f, n)
      OBVIOUS
    <3> HIDE DEF T
    <3>1. CASE n = 0
      BY <1>3, <3>1
    <3>2. CASE n # 0
      BY <1>4, <3>2
    <3>3. QED
      BY <3>1, <3>2
  <2> HIDE DEF B
  <2>3. QED
    BY <2>1, <2>2
<1>6. G = [n \in 0 .. L |-> B(G, n)]
  <2>1. \E g : g = [n \in 0 .. L |-> B(g, n)]
    BY <1>5
  <2>2. QED
    BY <2>1
<1>7. Loaded(scenario) = G[L]
  BY DEF Loaded
<1> HIDE DEF G
<1>8. \A n \in 1 .. L : G[n] = T(G[n - 1], n)
  <2> SUFFICES ASSUME NEW n \in 1 .. L PROVE G[n] = T(G[n - 1], n)
    OBVIOUS
  <2>1. n \in 0 .. L /\ n # 0
    OBVIOUS
  <2>2. G[n] = B(G, n)
    <3> HIDE DEF B
    <3>1. QED
      BY <1>6, <2>1
  <2> HIDE DEF T
  <2>3. QED
    BY <2>1, <2>2
<1>9. G[0] = <<>>
  BY <1>6
<1>10. LoadsBy(scenario, L, G)
  BY <1>7, <1>8, <1>9 DEF LoadsBy
<1>11. QED
  BY <1>10

\* Every camera that a load leaves is one of those the scenario names.
Named(cams, scenario, n) ==
  \A i \in DOMAIN cams : \E k \in 1 .. n :
    cams[i].id = scenario.cameras[k].id /\ Ports(cams[i]) = Ports(scenario.cameras[k])

\* A scenario whose ports are apart leaves cameras whose ports are.
LEMMA LoadedApart ==
  ASSUME NEW scenario, NEW L \in Nat, Len(scenario.cameras) = L,
         \A n \in 1 .. L : scenario.cameras[n] \in CameraRecords,
         \A i, j \in 1 .. L : i # j =>
           Ports(scenario.cameras[i]) \cap Ports(scenario.cameras[j]) = {},
         \A n \in 1 .. L : Ports(scenario.cameras[n]) \cap Foreign = {}
  PROVE  /\ Loaded(scenario) \in Seq(CameraRecords) /\ Len(Loaded(scenario)) <= L
         /\ Apart(Loaded(scenario)) /\ Ours(Loaded(scenario))
<1>1. PICK G : LoadsBy(scenario, L, G)
  BY LoadedRecurs
<1> DEFINE C == scenario.cameras
           Good(cams, n) == /\ cams \in Seq(CameraRecords) /\ Len(cams) <= n
                            /\ Apart(cams) /\ Ours(cams) /\ Named(cams, scenario, n)
           P == {n \in 0 .. L : Good(G[n], n)}
<1>2. 0 \in P
  <2>1. Good(<<>>, 0)
    BY DEF Apart, Ours, Named
  <2>2. Good(G[0], 0)
    BY <1>1, <2>1 DEF LoadsBy
  <2> HIDE DEF Good
  <2>3. QED
    BY <2>2
<1>3. ASSUME NEW n \in 1 .. L, n - 1 \in P PROVE n \in P
  <2> DEFINE cams == G[n - 1]  c == scenario.cameras[n]
  <2>1. Good(cams, n - 1) /\ n - 1 \in Nat
    BY <1>3
  <2>2. c \in CameraRecords
    OBVIOUS
  <2>3. G[n] = Brought(cams, c, scenario.global)
    BY <1>1 DEF LoadsBy
  <2> DEFINE new == Born(c, scenario.global)
  <2>4. new \in CameraRecords /\ new.id = c.id /\ Ports(new) = Ports(c)
    BY <2>2, BornType
  <2>5. \A i \in DOMAIN cams : Ports(cams[i]) \cap Ports(c) = {}
    <3> SUFFICES ASSUME NEW i \in DOMAIN cams PROVE Ports(cams[i]) \cap Ports(c) = {}
      OBVIOUS
    <3>1. PICK k \in 1 .. n - 1 : Ports(cams[i]) = Ports(scenario.cameras[k])
      BY <2>1 DEF Named
    <3>2. k \in 1 .. L /\ k # n
      OBVIOUS
    <3>3. QED
      BY <3>1, <3>2
  <2>6. Ports(c) \cap (HeldBy(cams) \cup Foreign) = {}
    BY <2>1, <2>5, IdsOf
  <2>7. Named(cams, scenario, n)
    BY <2>1 DEF Named
  <2> HIDE DEF cams, new
  <2>8. CASE c.id \in IdsIn(cams)
    <3>1. G[n] = cams
      BY <2>3, <2>8 DEF Brought
    <3>2. Good(G[n], n)
      BY <2>1, <2>7, <3>1, IdsOf
    <3> HIDE DEF Good
    <3>3. QED
      BY <3>2
  <2>9. CASE c.id \notin IdsIn(cams)
    <3>1. G[n] = Append(cams, new)
      BY <2>3, <2>9 DEF Brought, new
    <3>2. Apart(Append(cams, new)) /\ Ours(Append(cams, new))
      BY <2>1, <2>4, <2>6, <2>9, JoinedApart
    <3>3. Append(cams, new) \in Seq(CameraRecords) /\ Len(Append(cams, new)) <= n
      BY <2>1, <2>4, Appended, IdsOf
    <3>4. Named(Append(cams, new), scenario, n)
      <4> SUFFICES ASSUME NEW i \in DOMAIN Append(cams, new)
                   PROVE  \E k \in 1 .. n :
                            /\ Append(cams, new)[i].id = scenario.cameras[k].id
                            /\ Ports(Append(cams, new)[i]) = Ports(scenario.cameras[k])
        BY DEF Named
      <4>1. /\ Len(cams) \in Nat /\ DOMAIN cams = 1 .. Len(cams) /\ i \in 1 .. Len(cams) + 1
            /\ \A j \in 1 .. Len(cams) : Append(cams, new)[j] = cams[j]
            /\ Append(cams, new)[Len(cams) + 1] = new
        BY <2>1, <2>4, Appended, IdsOf
      <4>2. CASE i \in 1 .. Len(cams)
        BY <2>7, <4>1, <4>2 DEF Named
      <4>3. CASE i = Len(cams) + 1
        <5>1. Append(cams, new)[i] = new
          BY <4>1, <4>3
        <5>2. n \in 1 .. n
          OBVIOUS
        <5>3. QED
          BY <2>4, <5>1, <5>2
      <4>4. QED
        BY <4>1, <4>2, <4>3
    <3>5. Good(G[n], n)
      BY <3>1, <3>2, <3>3, <3>4
    <3> HIDE DEF Good
    <3>6. QED
      BY <3>5
  <2>10. QED
    BY <2>8, <2>9
<1>4. \A n \in 0 .. L : n \in P
  <2> HIDE DEF P
  <2>1. QED
    BY <1>2, <1>3, Climb
<1>5. Good(G[L], L)
  <2> HIDE DEF Good
  <2>1. QED
    BY <1>4
<1>6. QED
  BY <1>1, <1>5 DEF LoadsBy

\* A scenario with ids of its own for every camera brings all of them, in their order.
LEMMA LoadedAll ==
  ASSUME NEW scenario, NEW L \in Nat, Len(scenario.cameras) = L,
         \A n \in 1 .. L : scenario.cameras[n] \in CameraRecords,
         \A i, j \in 1 .. L : i # j => scenario.cameras[i].id # scenario.cameras[j].id
  PROVE  /\ Loaded(scenario) \in Seq(CameraRecords) /\ Len(Loaded(scenario)) = L
         /\ \A i \in 1 .. L : Loaded(scenario)[i] = Born(scenario.cameras[i], scenario.global)
<1>1. PICK G : LoadsBy(scenario, L, G)
  BY LoadedRecurs
<1> DEFINE Good(cams, n) ==
             /\ cams \in Seq(CameraRecords) /\ Len(cams) = n
             /\ \A i \in 1 .. n : cams[i] = Born(scenario.cameras[i], scenario.global)
           P == {n \in 0 .. L : Good(G[n], n)}
<1>2. 0 \in P
  <2>1. Good(<<>>, 0)
    OBVIOUS
  <2>2. Good(G[0], 0)
    BY <1>1, <2>1 DEF LoadsBy
  <2> HIDE DEF Good
  <2>3. QED
    BY <2>2
<1>3. ASSUME NEW n \in 1 .. L, n - 1 \in P PROVE n \in P
  <2> DEFINE cams == G[n - 1]  c == scenario.cameras[n]
  <2>1. Good(cams, n - 1) /\ n - 1 \in Nat
    BY <1>3
  <2>2. c \in CameraRecords
    OBVIOUS
  <2>3. G[n] = Brought(cams, c, scenario.global)
    BY <1>1 DEF LoadsBy
  <2> DEFINE new == Born(c, scenario.global)
  <2>4. new \in CameraRecords
    BY <2>2, BornType
  <2>5. c.id \notin IdsIn(cams)
    <3>1. SUFFICES ASSUME NEW i \in DOMAIN cams, cams[i].id = c.id PROVE FALSE
      BY <2>1, IdsOf
    <3>2. i \in 1 .. n - 1
      BY <2>1, IdsOf
    <3>3. i \in 1 .. L /\ i # n /\ scenario.cameras[i] \in CameraRecords
      BY <3>2
    <3>4. cams[i].id = scenario.cameras[i].id
      <4>1. cams[i] = Born(scenario.cameras[i], scenario.global)
        BY <2>1, <3>2
      <4>2. QED
        BY <3>3, <4>1, BornType
    <3>5. QED
      BY <3>1, <3>3, <3>4
  <2> HIDE DEF cams, new
  <2>6. G[n] = Append(cams, new)
    BY <2>3, <2>5 DEF Brought, new
  <2>7. /\ Append(cams, new) \in Seq(CameraRecords) /\ Len(Append(cams, new)) = n
        /\ \A i \in 1 .. n - 1 : Append(cams, new)[i] = cams[i]
        /\ Append(cams, new)[n] = new
    <3>1. Len(cams) = n - 1 /\ n - 1 + 1 = n
      BY <2>1
    <3>2. QED
      BY <2>1, <2>4, <3>1, Appended
  <2>8. \A i \in 1 .. n : Append(cams, new)[i] = Born(scenario.cameras[i], scenario.global)
    <3> SUFFICES ASSUME NEW i \in 1 .. n
                 PROVE  Append(cams, new)[i] = Born(scenario.cameras[i], scenario.global)
      OBVIOUS
    <3>1. CASE i = n
      BY <2>7, <3>1 DEF new
    <3>2. CASE i # n
      <4>1. i \in 1 .. n - 1
        BY <3>2
      <4>2. QED
        BY <2>1, <2>7, <4>1
    <3>3. QED
      BY <3>1, <3>2
  <2>9. Good(G[n], n)
    BY <2>6, <2>7, <2>8
  <2> HIDE DEF Good
  <2>10. QED
    BY <2>9
<1>4. \A n \in 0 .. L : n \in P
  <2> HIDE DEF P
  <2>1. QED
    BY <1>2, <1>3, Climb
<1>5. Good(G[L], L)
  <2> HIDE DEF Good
  <2>1. QED
    BY <1>4
<1>6. QED
  BY <1>1, <1>5 DEF LoadsBy

-----------------------------------------------------------------------------
\* An exported scenario brings everything back but what "off" alone said.
LEMMA ExportLoaded ==
  ASSUME cameras \in Seq(CameraRecords), global \in Tables, Apart(cameras)
  PROVE  /\ Loaded(Exported) \in Seq(CameraRecords) /\ Len(Loaded(Exported)) = Len(cameras)
         /\ \A i \in DOMAIN cameras :
              Loaded(Exported)[i] =
                Born([cameras[i] EXCEPT !.quirks = FromFile(cameras[i].quirks)], FromFile(global))
<1> DEFINE C == [i \in DOMAIN cameras |->
                   [cameras[i] EXCEPT !.quirks = FromFile(cameras[i].quirks)]]
           L == Len(cameras)
<1>1. L \in Nat /\ DOMAIN cameras = 1 .. L /\ \A i \in 1 .. L : cameras[i] \in CameraRecords
  BY IdsOf
<1>2. Exported.global = FromFile(global) /\ Exported.cameras = C
  BY DEF Exported
<1>3. \A i \in 1 .. L : C[i] \in CameraRecords /\ C[i].id = cameras[i].id
  <2> SUFFICES ASSUME NEW i \in 1 .. L PROVE C[i] \in CameraRecords /\ C[i].id = cameras[i].id
    OBVIOUS
  <2> DEFINE table == FromFile(cameras[i].quirks)
  <2>1. cameras[i] \in CameraRecords /\ table \in Tables
    BY <1>1, TablesClosed DEF CameraRecords
  <2>2. C[i] = [cameras[i] EXCEPT !.quirks = table]
    BY <1>1
  <2> HIDE DEF table, C
  <2>3. QED
    BY <2>1, <2>2 DEF CameraRecords
<1>4. Len(C) = L
  BY <1>1
<1>5. \A i, j \in 1 .. L : i # j => C[i].id # C[j].id
  <2> HIDE DEF C, L
  <2>1. QED
    BY <1>1, <1>3 DEF Apart
<1> HIDE DEF L
<1>6. \A i \in 1 .. L : C[i] = [cameras[i] EXCEPT !.quirks = FromFile(cameras[i].quirks)]
  BY <1>1
<1> HIDE DEF C
<1>7. /\ Loaded(Exported) \in Seq(CameraRecords) /\ Len(Loaded(Exported)) = L
      /\ \A i \in 1 .. L : Loaded(Exported)[i] = Born(C[i], FromFile(global))
  BY <1>1, <1>2, <1>3, <1>4, <1>5, LoadedAll
<1>8. QED
  BY <1>1, <1>6, <1>7 DEF L

LEMMA OnSurvives ==
  ASSUME NEW c \in CameraRecords, NEW g \in Tables
  PROVE  LET again == Born([c EXCEPT !.quirks = FromFile(c.quirks)], FromFile(g))
         IN  /\ again.id = c.id /\ again.preset = c.preset
             /\ again.http = c.http /\ again.rtsp = c.rtsp
             /\ OnIn(c.quirks) \subseteq OnIn(again.quirks)
             /\ OnIn(again.quirks) \subseteq OnIn(c.quirks) \cup Presets[c.preset] \cup OnIn(g)
<1> DEFINE file == FromFile(c.quirks)
           saved == [c EXCEPT !.quirks = file]
           again == Born(saved, FromFile(g))
           base == Defaults(c.preset, FromFile(g))
<1>1. /\ c.quirks \in Tables /\ file \in Tables /\ FromFile(g) \in Tables /\ base \in Tables
      /\ c.preset \in DOMAIN Presets
  BY TablesClosed DEF CameraRecords, Defaults
<1>2. /\ saved \in CameraRecords /\ saved.id = c.id /\ saved.preset = c.preset
      /\ saved.http = c.http /\ saved.rtsp = c.rtsp /\ saved.quirks = file
  <2> HIDE DEF file
  <2>1. QED
    BY <1>1 DEF CameraRecords
<1> HIDE DEF saved
<1>3. /\ again.id = c.id /\ again.preset = c.preset /\ again.http = c.http
      /\ again.rtsp = c.rtsp
  BY <1>2, BornType
<1>4. again.quirks = Merged(base, file)
  BY <1>2, BornType
<1>5. OnIn(FromFile(g)) = OnIn(g)
  BY DEF OnIn, FromFile, Unset
<1>6. Presets[c.preset] \subseteq QuirkKeys
  BY <1>1, FleetAssumption
<1>7. \A q \in QuirkKeys :
        base[q].state = "on" <=> q \in Presets[c.preset] \cup OnIn(g)
  <2> SUFFICES ASSUME NEW q \in QuirkKeys
               PROVE  base[q].state = "on" <=> q \in Presets[c.preset] \cup OnIn(g)
    OBVIOUS
  <2> DEFINE inner == Switched(NoQuirks, Presets[c.preset], FALSE)
  <2>1. inner[q].state = IF q \in Presets[c.preset] THEN "on" ELSE "unset"
    BY DEF Switched, NoQuirks, Unset
  <2>2. base = Switched(inner, OnIn(g), TRUE)
    BY <1>5 DEF Defaults
  <2> HIDE DEF inner, base
  <2>3. base[q].state = IF q \in OnIn(g) THEN "on" ELSE inner[q].state
    BY <2>2 DEF Switched
  <2>4. QED
    BY <2>1, <2>3
<1> HIDE DEF base
<1>8. \A q \in QuirkKeys :
        /\ file[q].state = "on" <=> c.quirks[q].state = "on"
        /\ file[q].state \in States
  BY <1>1 DEF FromFile, Unset, Tables, States
<1> HIDE DEF file
<1>9. \A q \in QuirkKeys : again.quirks[q].state =
        IF file[q].state = "unset" THEN base[q].state ELSE file[q].state
  <2>1. \A q \in QuirkKeys : Merged(base, file)[q].state =
          IF file[q].state = "unset" THEN base[q].state ELSE file[q].state
    BY DEF Merged
  <2> HIDE DEF again
  <2>2. QED
    BY <1>4, <2>1
<1> HIDE DEF again
<1>10. \A q \in QuirkKeys : again.quirks[q].state = "on" <=>
         \/ c.quirks[q].state = "on"
         \/ q \in Presets[c.preset] \cup OnIn(g) /\ file[q].state # "off"
  BY <1>7, <1>8, <1>9 DEF States
<1>11. /\ OnIn(c.quirks) \subseteq OnIn(again.quirks)
       /\ OnIn(again.quirks) \subseteq OnIn(c.quirks) \cup Presets[c.preset] \cup OnIn(g)
  BY <1>10 DEF OnIn
<1>12. QED
  BY <1>3, <1>11 DEF again, saved, file

LEMMA ExportsKeep == FleetInv => ExportKeeps
<1> SUFFICES ASSUME FleetInv PROVE ExportKeeps
  OBVIOUS
<1>1. /\ Len(Loaded(Exported)) = Len(cameras)
      /\ \A i \in DOMAIN cameras :
           Loaded(Exported)[i] =
             Born([cameras[i] EXCEPT !.quirks = FromFile(cameras[i].quirks)], FromFile(global))
  BY ExportLoaded DEF FleetInv
<1>2. \A i \in DOMAIN cameras : cameras[i] \in CameraRecords
  BY IdsOf DEF FleetInv
<1>3. global \in Tables
  BY DEF FleetInv
<1>4. ASSUME NEW i \in DOMAIN cameras
      PROVE  /\ Loaded(Exported)[i].id = cameras[i].id
             /\ Loaded(Exported)[i].preset = cameras[i].preset
             /\ Loaded(Exported)[i].http = cameras[i].http
             /\ Loaded(Exported)[i].rtsp = cameras[i].rtsp
             /\ OnIn(cameras[i].quirks) \subseteq OnIn(Loaded(Exported)[i].quirks)
             /\ OnIn(Loaded(Exported)[i].quirks) \subseteq
                  OnIn(cameras[i].quirks) \cup Presets[cameras[i].preset] \cup OnIn(global)
  <2>1. cameras[i] \in CameraRecords
    BY <1>2
  <2>2. Loaded(Exported)[i] =
          Born([cameras[i] EXCEPT !.quirks = FromFile(cameras[i].quirks)], FromFile(global))
    BY <1>1
  <2>3. QED
    BY <1>3, <2>1, <2>2, OnSurvives
<1>5. QED
  BY <1>1, <1>4 DEF ExportKeeps

-----------------------------------------------------------------------------
\* Changes that leave ids and ports alone.
LEMMA SamePlaces ==
  ASSUME cameras \in Seq(CameraRecords), Apart(cameras), Ours(cameras), NEW next,
         DOMAIN next = DOMAIN cameras,
         \A i \in DOMAIN cameras :
           /\ next[i] \in CameraRecords /\ next[i].id = cameras[i].id
           /\ next[i].http = cameras[i].http /\ next[i].rtsp = cameras[i].rtsp,
         next = [i \in DOMAIN cameras |-> next[i]]
  PROVE  /\ next \in Seq(CameraRecords) /\ Len(next) = Len(cameras)
         /\ Apart(next) /\ Ours(next)
<1>1. DOMAIN cameras = 1 .. Len(cameras) /\ Len(cameras) \in Nat
  BY IdsOf
<1>2. next \in Seq(CameraRecords) /\ Len(next) = Len(cameras)
  <2> DEFINE L == Len(cameras)
  <2>1. L \in Nat /\ next \in [1 .. L -> CameraRecords]
    BY <1>1
  <2> HIDE DEF L
  <2>2. next \in Seq(CameraRecords) /\ Len(next) = L
    BY <2>1
  <2>3. QED
    BY <2>2 DEF L
<1>3. \A i \in DOMAIN cameras : next[i].id = cameras[i].id /\ Ports(next[i]) = Ports(cameras[i])
  BY DEF Ports
<1>4. QED
  BY <1>2, <1>3, SameApart

LEMMA Requirked ==
  ASSUME NEW c \in CameraRecords, NEW table \in Tables
  PROVE  LET next == [c EXCEPT !.quirks = Merged(c.quirks, table)]
         IN  next \in CameraRecords /\ next.id = c.id /\ next.http = c.http /\ next.rtsp = c.rtsp
<1> DEFINE merged == Merged(c.quirks, table)
<1>1. merged \in Tables
  BY TablesClosed DEF CameraRecords
<1> HIDE DEF merged
<1>2. LET next == [c EXCEPT !.quirks = merged]
      IN  next \in CameraRecords /\ next.id = c.id /\ next.http = c.http /\ next.rtsp = c.rtsp
  BY <1>1 DEF CameraRecords
<1>3. QED
  BY <1>2 DEF merged

LEMMA AddKeeps == ASSUME FleetInv, AddCamera PROVE FleetInv'
<1>1. PICK preset \in DOMAIN Presets, wish \in Wishes \cup {NoQuirks} :
        LET index == Least(FreeIndices)
            new == [id |-> NextId(cameras), preset |-> preset,
                    http |-> HttpBase + index, rtsp |-> RtspBase + index, quirks |-> wish]
        IN  /\ cameras' = Append(cameras, Born(new, global))
            /\ nextIndex' = index + 1
  BY DEF AddCamera
<1>2. Len(cameras) < MaxCameras /\ FreeIndices # {} /\ global' = global
  BY DEF AddCamera
<1> DEFINE index == Least(FreeIndices)
           new == [id |-> NextId(cameras), preset |-> preset,
                   http |-> HttpBase + index, rtsp |-> RtspBase + index, quirks |-> wish]
           born == Born(new, global)
<1>3. MaxIndex \in Nat /\ HttpBase \in Int /\ RtspBase \in Int /\ nextIndex \in Nat
  BY FleetAssumption DEF FleetInv
<1>4. index \in FreeIndices
  <2>1. FreeIndices \in SUBSET Nat
    BY <1>3 DEF FreeIndices
  <2>2. \E n \in FreeIndices : \A m \in FreeIndices : n <= m
    BY <1>2, <2>1, Smallest
  <2>3. QED
    BY <2>2 DEF Least
<1> HIDE DEF index
<1>5. index \in Nat /\ index <= MaxIndex /\ ~Taken(cameras, index)
  BY <1>3, <1>4 DEF FreeIndices
<1>6. cameras \in Seq(CameraRecords) /\ Apart(cameras) /\ Ours(cameras)
  BY DEF FleetInv
<1>7. NextId(cameras) \in Int /\ NextId(cameras) \notin IdsIn(cameras)
  BY <1>6, NextIdFresh
<1>8. wish \in Tables
  BY TablesClosed, FleetAssumption
<1>9. /\ new \in CameraRecords /\ new.id = NextId(cameras)
      /\ new.http = HttpBase + index /\ new.rtsp = RtspBase + index
  BY <1>3, <1>5, <1>7, <1>8 DEF CameraRecords
<1>10. Ports(new) \cap (HeldBy(cameras) \cup Foreign) = {}
  BY <1>5, <1>9 DEF Taken, Ports
<1> HIDE DEF new
<1>11. born \in CameraRecords /\ born.id \notin IdsIn(cameras)
       /\ Ports(born) \cap (HeldBy(cameras) \cup Foreign) = {}
  BY <1>7, <1>9, <1>10, BornType
<1>12. cameras' = Append(cameras, born) /\ nextIndex' = index + 1
  BY <1>1 DEF born, index, new
<1> HIDE DEF born
<1>13. /\ cameras' \in Seq(CameraRecords) /\ Len(cameras') <= MaxCameras
       /\ Apart(cameras') /\ Ours(cameras')
  <2>1. Len(cameras') = Len(cameras) + 1 /\ cameras' \in Seq(CameraRecords) /\ Len(cameras) \in Nat
    BY <1>6, <1>11, <1>12, Appended, IdsOf
  <2>2. Len(cameras') <= MaxCameras
    BY <1>2, <2>1, FleetAssumption
  <2>3. QED
    BY <1>6, <1>11, <1>12, <2>1, <2>2, JoinedApart
<1>14. nextIndex' \in 0 .. MaxIndex + 1
  BY <1>3, <1>5, <1>12
<1>15. global' \in Tables
  BY <1>2 DEF FleetInv
<1>16. QED
  BY <1>13, <1>14, <1>15 DEF FleetInv, Apart, Ours

LEMMA RemoveKeeps == ASSUME FleetInv, RemoveCamera PROVE FleetInv'
<1>1. PICK i \in DOMAIN cameras : cameras' = RemoveAt(cameras, i)
  BY DEF RemoveCamera
<1>2. nextIndex' = nextIndex /\ global' = global
  BY DEF RemoveCamera
<1>3. cameras \in Seq(CameraRecords) /\ DOMAIN cameras = 1 .. Len(cameras) /\ Len(cameras) \in Nat
  BY IdsOf DEF FleetInv
<1>4. /\ cameras' \in Seq(CameraRecords) /\ Len(cameras') = Len(cameras) - 1
      /\ DOMAIN cameras' = 1 .. Len(cameras) - 1
      /\ \A k \in 1 .. Len(cameras) - 1 :
           cameras'[k] = IF k < i THEN cameras[k] ELSE cameras[k + 1]
  BY <1>1, <1>3, WithoutOne
<1> DEFINE at(k) == IF k < i THEN k ELSE k + 1
<1>5. \A k \in DOMAIN cameras' : at(k) \in DOMAIN cameras /\ cameras'[k] = cameras[at(k)]
  BY <1>3, <1>4
<1>6. \A k, m \in DOMAIN cameras' : k # m => at(k) # at(m)
  BY <1>3, <1>4
<1>7. Apart(cameras)' /\ Ours(cameras)'
  <2> HIDE DEF at
  <2>1. QED
    BY <1>5, <1>6 DEF FleetInv, Apart, Ours
<1>8. Len(cameras') <= MaxCameras
  BY <1>3, <1>4, FleetAssumption DEF FleetInv
<1>9. QED
  BY <1>2, <1>4, <1>7, <1>8 DEF FleetInv

LEMMA PatchQuirksKeeps == ASSUME FleetInv, PatchQuirks PROVE FleetInv'
<1>1. PICK i \in DOMAIN cameras, wish \in Wishes :
        cameras' = [cameras EXCEPT ![i] = [cameras[i] EXCEPT !.quirks = Merged(cameras[i].quirks, wish)]]
  BY DEF PatchQuirks
<1>2. nextIndex' = nextIndex /\ global' = global
  BY DEF PatchQuirks
<1> DEFINE next == [cameras[i] EXCEPT !.quirks = Merged(cameras[i].quirks, wish)]
<1>3. cameras \in Seq(CameraRecords) /\ \A k \in DOMAIN cameras : cameras[k] \in CameraRecords
  BY IdsOf DEF FleetInv
<1>4. wish \in Tables
  BY FleetAssumption
<1>5. /\ next \in CameraRecords /\ next.id = cameras[i].id
      /\ next.http = cameras[i].http /\ next.rtsp = cameras[i].rtsp
  BY <1>3, <1>4, Requirked
<1> HIDE DEF next
<1>6. cameras' = [cameras EXCEPT ![i] = next]
  BY <1>1 DEF next
<1>7. /\ DOMAIN cameras' = DOMAIN cameras
      /\ \A k \in DOMAIN cameras : cameras'[k] = IF k = i THEN next ELSE cameras[k]
      /\ cameras' = [k \in DOMAIN cameras |-> cameras'[k]]
  BY <1>3, <1>6
<1>8. /\ cameras' \in Seq(CameraRecords) /\ Len(cameras') = Len(cameras)
      /\ Apart(cameras') /\ Ours(cameras')
  BY <1>3, <1>5, <1>7, SamePlaces DEF FleetInv
<1>9. QED
  BY <1>2, <1>8 DEF FleetInv, Apart, Ours

LEMMA PatchPresetKeeps == ASSUME FleetInv, PatchPreset PROVE FleetInv'
<1>1. PICK i \in DOMAIN cameras, preset \in DOMAIN Presets :
        cameras' = [cameras EXCEPT ![i] = [cameras[i] EXCEPT !.preset = preset]]
  BY DEF PatchPreset
<1>2. nextIndex' = nextIndex /\ global' = global
  BY DEF PatchPreset
<1> DEFINE next == [cameras[i] EXCEPT !.preset = preset]
<1>3. cameras \in Seq(CameraRecords) /\ \A k \in DOMAIN cameras : cameras[k] \in CameraRecords
  BY IdsOf DEF FleetInv
<1>4. cameras[i] \in CameraRecords
  BY <1>3
<1>5. /\ next \in CameraRecords /\ next.id = cameras[i].id
      /\ next.http = cameras[i].http /\ next.rtsp = cameras[i].rtsp
  BY <1>4 DEF CameraRecords
<1> HIDE DEF next
<1>6. cameras' = [cameras EXCEPT ![i] = next]
  BY <1>1 DEF next
<1>7. /\ DOMAIN cameras' = DOMAIN cameras
      /\ \A k \in DOMAIN cameras : cameras'[k] = IF k = i THEN next ELSE cameras[k]
      /\ cameras' = [k \in DOMAIN cameras |-> cameras'[k]]
  BY <1>3, <1>6
<1>8. /\ cameras' \in Seq(CameraRecords) /\ Len(cameras') = Len(cameras)
      /\ Apart(cameras') /\ Ours(cameras')
  BY <1>3, <1>5, <1>7, SamePlaces DEF FleetInv
<1>9. QED
  BY <1>2, <1>8 DEF FleetInv, Apart, Ours

LEMMA ApplyToAllKeeps == ASSUME FleetInv, ApplyGlobalQuirksToAll PROVE FleetInv'
<1>1. nextIndex' = nextIndex /\ global' = global
  BY DEF ApplyGlobalQuirksToAll
<1>2. cameras \in Seq(CameraRecords) /\ \A k \in DOMAIN cameras : cameras[k] \in CameraRecords
  BY IdsOf DEF FleetInv
<1>3. /\ DOMAIN cameras' = DOMAIN cameras
      /\ \A k \in DOMAIN cameras :
           cameras'[k] = [cameras[k] EXCEPT !.quirks = Merged(cameras[k].quirks, global)]
      /\ cameras' = [k \in DOMAIN cameras |-> cameras'[k]]
  BY DEF ApplyGlobalQuirksToAll
<1>4. global \in Tables
  BY DEF FleetInv
<1>5. \A k \in DOMAIN cameras :
        /\ cameras'[k] \in CameraRecords /\ cameras'[k].id = cameras[k].id
        /\ cameras'[k].http = cameras[k].http /\ cameras'[k].rtsp = cameras[k].rtsp
  <2> SUFFICES ASSUME NEW k \in DOMAIN cameras
               PROVE  /\ cameras'[k] \in CameraRecords /\ cameras'[k].id = cameras[k].id
                      /\ cameras'[k].http = cameras[k].http /\ cameras'[k].rtsp = cameras[k].rtsp
    OBVIOUS
  <2>1. cameras[k] \in CameraRecords
    BY <1>2
  <2>2. cameras'[k] = [cameras[k] EXCEPT !.quirks = Merged(cameras[k].quirks, global)]
    BY <1>3
  <2>3. QED
    BY <1>4, <2>1, <2>2, Requirked
<1>6. /\ cameras' \in Seq(CameraRecords) /\ Len(cameras') = Len(cameras)
      /\ Apart(cameras') /\ Ours(cameras')
  BY <1>2, <1>3, <1>5, SamePlaces DEF FleetInv
<1>7. QED
  BY <1>1, <1>6 DEF FleetInv, Apart, Ours

LEMMA LoadKeeps == ASSUME FleetInv, LoadScenario PROVE FleetInv'
<1>1. MaxIndex \in Nat /\ MaxCameras \in Nat
  BY FleetAssumption
<1>2. ASSUME cameras' = Loaded(Exported), global' = Exported.global
      PROVE  /\ cameras' \in Seq(CameraRecords) /\ Len(cameras') <= MaxCameras
             /\ global' \in Tables /\ Apart(cameras') /\ Ours(cameras')
  <2>1. /\ Loaded(Exported) \in Seq(CameraRecords) /\ Len(Loaded(Exported)) = Len(cameras)
        /\ DOMAIN Loaded(Exported) = DOMAIN cameras
    BY ExportLoaded, IdsOf DEF FleetInv
  <2>2. ExportKeeps
    BY ExportsKeep
  <2>3. \A i \in DOMAIN cameras : /\ Loaded(Exported)[i].id = cameras[i].id
                                  /\ Ports(Loaded(Exported)[i]) = Ports(cameras[i])
    BY <2>2 DEF ExportKeeps, Ports
  <2>4. Apart(Loaded(Exported)) /\ Ours(Loaded(Exported))
    BY <2>1, <2>3, SameApart DEF FleetInv
  <2>5. Exported.global \in Tables
    BY TablesClosed DEF Exported, FleetInv
  <2>6. QED
    BY <1>2, <2>1, <2>4, <2>5 DEF FleetInv
<1>3. ASSUME cameras' = Loaded(HandWritten), global' = HandWritten.global
      PROVE  /\ cameras' \in Seq(CameraRecords) /\ Len(cameras') <= MaxCameras
             /\ global' \in Tables /\ Apart(cameras') /\ Ours(cameras')
  <2> DEFINE L == Len(Written)
  <2>1. L \in Nat /\ DOMAIN Written = 1 .. L /\ \A n \in 1 .. L : Written[n] \in CameraRecords
    BY FleetAssumption, IdsOf
  <2>2. HandWritten.cameras = Written /\ HandWritten.global = NoQuirks
    BY DEF HandWritten
  <2>3. /\ \A i, j \in 1 .. L : i # j => Ports(Written[i]) \cap Ports(Written[j]) = {}
        /\ \A n \in 1 .. L : Ports(Written[n]) \cap Foreign = {}
    BY <2>1, FleetAssumption DEF Ports
  <2>4. L <= MaxCameras
    BY FleetAssumption
  <2> HIDE DEF L
  <2>5. Len(HandWritten.cameras) = L
    BY <2>2 DEF L
  <2>6. /\ Loaded(HandWritten) \in Seq(CameraRecords) /\ Len(Loaded(HandWritten)) <= L
        /\ Apart(Loaded(HandWritten)) /\ Ours(Loaded(HandWritten))
    BY <2>1, <2>2, <2>3, <2>5, LoadedApart
  <2>7. Len(Loaded(HandWritten)) <= MaxCameras
    BY <1>1, <2>1, <2>4, <2>6, IdsOf
  <2>8. QED
    BY <1>3, <2>2, <2>6, <2>7, TablesClosed
<1>4. nextIndex' \in 0 .. MaxIndex + 1
  BY <1>1 DEF LoadScenario
<1>5. QED
  BY <1>2, <1>3, <1>4 DEF LoadScenario, FleetInv, Apart, Ours

LEMMA FleetStep == FleetInv /\ [FleetNext]_fleetVars => FleetInv'
<1> SUFFICES ASSUME FleetInv, [FleetNext]_fleetVars PROVE FleetInv'
  OBVIOUS
<1>1. CASE SetGlobalQuirks
  BY <1>1, FleetAssumption DEF SetGlobalQuirks, FleetInv, Apart, Ours
<1>2. CASE UNCHANGED fleetVars
  BY <1>2 DEF fleetVars, FleetInv, Apart, Ours
<1>3. QED
  BY <1>1, <1>2, AddKeeps, RemoveKeeps, PatchQuirksKeeps, PatchPresetKeeps, ApplyToAllKeeps,
     LoadKeeps DEF FleetNext

LEMMA FleetStart == FleetInit => FleetInv
BY FleetAssumption, TablesClosed DEF FleetInit, FleetInv, Apart, Ours

LEMMA FleetImplies == FleetInv => FleetConsistent
<1> SUFFICES ASSUME FleetInv PROVE FleetConsistent
  OBVIOUS
<1>1. Separate
  <2>1. HeldBy(cameras) \cap Foreign = {}
    BY IdsOf DEF FleetInv, Ours
  <2>2. QED
    BY <2>1 DEF FleetInv, Apart, Separate
<1>2. \A q \in QuirkKeys : global[q].state \in States
  BY DEF FleetInv, Tables
<1>3. Len(cameras) <= MaxCameras /\ nextIndex <= MaxIndex + 1
  BY FleetAssumption DEF FleetInv
<1>4. QED
  BY <1>1, <1>2, <1>3, ExportsKeep DEF FleetConsistent

\* However cameras are added, removed, changed and loaded, each has an id and ports of
\* its own that no other process holds; what is exported brings back the same cameras,
\* with their presets and ports, and loses no quirk that is on.  That nothing comes on
\* besides is not said: it is not so (Simulator::addCamera, nextCameraId,
\* applyScenario, Quirks::toJson).
THEOREM FleetStaysConsistent == FleetSpec => []FleetConsistent
<1>1. FleetSpec => []FleetInv
  BY FleetStart, FleetStep, PTL DEF FleetSpec
<1>2. QED
  BY <1>1, FleetImplies, PTL
=============================================================================
