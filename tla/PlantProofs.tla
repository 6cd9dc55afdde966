----------------------------- MODULE PlantProofs ----------------------------
(***************************************************************************)
(* Theorems about the parts of the plant that keep their own accounts, for *)
(* every value of their constants: VendorSessions (tokens and challenges   *)
(* belong to one client at a time), IpAlias (every address on the          *)
(* interface is accounted for, whatever fails halfway), Discovery (what    *)
(* clients were told of the cameras is so, and every answer is usable),    *)
(* CameraLifecycle (a camera's listeners, flags and announcements agree    *)
(* whatever happens to it), EventEngine (topic table, states, timers and   *)
(* what clients heard agree), VendorStreams (every open stream gets each   *)
(* event once), VendorControl (a command does what it says in every        *)
(* dialect), LogPanel (what is shown, kept and counted is what was posted) *)
(* and Desktop (the window shows the cameras there are, as they are).      *)
(***************************************************************************)
EXTENDS VendorSessions, IpAlias, Discovery, CameraLifecycle, EventEngine, VendorStreams,
        VendorControl, LogPanel, Desktop, SelectionProofs, FiniteSetTheorems

(* VendorSessions.                                                         *)

\* What the invariant rests on: tokens and nonces come from one counter, so what is
\* handed out is new to everybody, and no two clients were ever given the same.
Counted ==
  /\ issued \in Nat /\ now \in Nat /\ expiry \in Nat
  /\ token \in 0 .. issued /\ nonce \in 0 .. issued
  /\ held \in [Clients -> 0 .. issued] /\ challenge \in [Clients -> 0 .. issued]
  /\ bought \in Seq(1 .. issued)
HeldApart == \A c, d \in Clients : held[c] = held[d] /\ held[c] # 0 => c = d

SessionsInv == SessionsTrue /\ Counted /\ HeldApart

\* What a step leaves alone when it neither gives nor takes a challenge.
ChallengesKept == UNCHANGED <<nonce, challenge, bought>>
\* The parts of the invariant, each in its own variables.
TokensOk ==
  /\ issued \in Nat /\ now \in Nat /\ expiry \in Nat /\ expiry <= now + Lease
  /\ token \in 0 .. issued /\ held \in [Clients -> 0 .. issued]
  /\ HeldApart
ChallengesOk ==
  /\ nonce \in 0 .. issued /\ challenge \in [Clients -> 0 .. issued]
  /\ bought \in Seq(1 .. issued)
  /\ IsInjective(bought) /\ nonce \notin ToSet(bought)
  /\ \A c \in Clients : challenge[c] <= nonce \/ nonce = 0

-----------------------------------------------------------------------------
LEMMA Unfolded == ASSUME SessionsInv PROVE TokensOk /\ ChallengesOk /\ ~foul
BY DEF SessionsInv, SessionsTrue, Counted, TokensOk, ChallengesOk

LEMMA Folded == ASSUME TokensOk', ChallengesOk', ~foul' PROVE SessionsInv'
<1>1. \A c, d \in Clients : Accepted(held[c])' /\ Accepted(held[d])' => c = d
  BY DEF TokensOk, HeldApart, Accepted
<1>2. QED
  BY <1>1 DEF SessionsInv, SessionsTrue, Counted, TokensOk, ChallengesOk

\* Numbers handed out earlier are numbers handed out so far.
LEMMA StillIssued ==
  ASSUME NEW m \in Nat, NEW n \in Nat, m <= n, NEW s \in Seq(1 .. m)
  PROVE  s \in Seq(1 .. n) /\ \A i \in DOMAIN s : s[i] \in 1 .. m
<1>1. \A i \in 1 .. Len(s) : s[i] \in 1 .. m
  BY ElementOfSeq
<1>2. 1 .. m \subseteq 1 .. n
  OBVIOUS
<1>3. DOMAIN s = 1 .. Len(s)
  BY LenProperties
<1>4. QED
  BY <1>1, <1>2, <1>3

LEMMA TokenIssued ==
  ASSUME TokensOk, NEW c \in Clients, IssueToken(c), now' = now
  PROVE  TokensOk' /\ issued' = issued + 1
<1>1. /\ issued' = issued + 1 /\ issued' \in Nat /\ issued' \notin 0 .. issued
      /\ token' = issued' /\ expiry' = now + Lease
      /\ held' = [held EXCEPT ![c] = issued']
  BY DEF IssueToken, TokensOk
<1>2. \A d \in Clients : held[d] \in 0 .. issued' /\ held[d] # issued'
  BY <1>1 DEF TokensOk
<1>3. /\ held' \in [Clients -> 0 .. issued'] /\ held'[c] = issued'
      /\ \A d \in Clients \ {c} : held'[d] = held[d]
  BY <1>1, <1>2 DEF TokensOk
<1>4. HeldApart'
  BY <1>2, <1>3 DEF TokensOk, HeldApart
<1>5. QED
  BY <1>1, <1>3, <1>4, VendorSessionsAssumption DEF TokensOk

LEMMA TokensStay ==
  ASSUME TokensOk, UNCHANGED <<token, expiry, held, now>>, issued' \in Nat, issued <= issued'
  PROVE  TokensOk'
<1>1. \A n \in 0 .. issued : n \in 0 .. issued'
  BY DEF TokensOk
<1>2. held' \in [Clients -> 0 .. issued'] /\ token' \in 0 .. issued'
  BY <1>1 DEF TokensOk
<1>3. QED
  BY <1>2 DEF TokensOk, HeldApart

LEMMA ChallengesStay ==
  ASSUME ChallengesOk, ChallengesKept, issued \in Nat, issued' \in Nat, issued <= issued'
  PROVE  ChallengesOk'
<1>1. \A n \in 0 .. issued : n \in 0 .. issued'
  OBVIOUS
<1>2. 1 .. issued \subseteq 1 .. issued'
  OBVIOUS
<1>3. bought' \in Seq(1 .. issued')
  BY <1>2 DEF ChallengesOk, ChallengesKept
<1>4. challenge' \in [Clients -> 0 .. issued'] /\ nonce' \in 0 .. issued'
  BY <1>1 DEF ChallengesOk, ChallengesKept
<1>5. QED
  BY <1>3, <1>4 DEF ChallengesOk, ChallengesKept

LEMMA ReolinkKeeps ==
  ASSUME NEW c \in Clients, NEW cmds \in Batches PROVE SessionsInv /\ ReolinkRequest(c, cmds) => SessionsInv'
<1> SUFFICES ASSUME SessionsInv, ReolinkRequest(c, cmds) PROVE SessionsInv'
  OBVIOUS
<1> USE Unfolded
<1>1. ChallengesKept /\ now' = now /\ issued \in Nat
  BY DEF ReolinkRequest, ChallengesKept, TokensOk
<1>2. CASE cmds[1] = "snap"
  <2>1. UNCHANGED <<token, expiry, issued, held, foul>>
    BY <1>2 DEF ReolinkRequest
  <2>2. TokensOk' /\ ChallengesOk'
    BY <1>1, <2>1, TokensStay, ChallengesStay
  <2>3. QED
    BY <2>1, <2>2, Folded
<1>3. CASE cmds[1] # "snap"
  <2>1. /\ answers' = [i \in DOMAIN cmds |-> Answer(held[c], cmds, i)]
        /\ foul' = (foul \/ \E i \in DOMAIN cmds :
                      /\ cmds[i] = "work" /\ answers'[i] = 0
                      /\ held[c] # IF Renewed(cmds, i) THEN issued' ELSE token)
    BY <1>3 DEF ReolinkRequest
  <2>2. ASSUME NEW i \in DOMAIN cmds, cmds[i] = "work", answers'[i] = 0
        PROVE  ~Renewed(cmds, i) /\ held[c] = token
    <3>1. Answer(held[c], cmds, i) = 0
      BY <2>1, <2>2
    <3>2. ~(~Accepted(held[c]) \/ Renewed(cmds, i))
      BY <2>2, <3>1 DEF Answer
    <3>3. QED
      BY <3>2 DEF Accepted
  <2>3. ~foul'
    BY <2>1, <2>2
  <2>4. TokensOk' /\ issued' \in Nat /\ issued <= issued'
    <3>1. CASE IssueToken(c)
      BY <1>1, <3>1, TokenIssued
    <3>2. CASE UNCHANGED <<token, expiry, issued, held>>
      BY <1>1, <3>2, TokensStay
    <3>3. QED
      BY <1>3, <3>1, <3>2 DEF ReolinkRequest
  <2>5. QED
    BY <1>1, <2>3, <2>4, ChallengesStay, Folded
<1>4. QED
  BY <1>2, <1>3

\* A step that may issue a token and has nothing to do with challenges.
LEMMA LoginKeeps ==
  ASSUME SessionsInv, NEW c \in Clients, ChallengesKept, now' = now, foul' = foul,
         IssueToken(c) \/ UNCHANGED <<token, expiry, issued, held>>
  PROVE  SessionsInv'
<1>1. TokensOk /\ ChallengesOk /\ ~foul /\ issued \in Nat
  BY Unfolded DEF TokensOk
<1>2. TokensOk' /\ issued' \in Nat /\ issued <= issued'
  <2>1. CASE IssueToken(c)
    BY <1>1, <2>1, TokenIssued
  <2>2. CASE UNCHANGED <<token, expiry, issued, held>>
    BY <1>1, <2>2, TokensStay
  <2>3. QED
    BY <2>1, <2>2
<1>3. QED
  BY <1>1, <1>2, ChallengesStay, Folded

LEMMA TplinkLoginKeeps ==
  ASSUME NEW c \in Clients, NEW good \in BOOLEAN PROVE SessionsInv /\ TplinkLogin(c, good) => SessionsInv'
BY LoginKeeps DEF TplinkLogin, ChallengesKept

LEMMA TplinkRequestKeeps ==
  ASSUME NEW c \in Clients, NEW cmds \in Batches PROVE SessionsInv /\ TplinkRequest(c, cmds) => SessionsInv'
BY LoginKeeps DEF TplinkRequest, ChallengesKept

LEMMA VigiCallKeeps ==
  ASSUME NEW c \in Clients, NEW method \in Methods PROVE SessionsInv /\ VigiCall(c, method) => SessionsInv'
<1> SUFFICES ASSUME SessionsInv, VigiCall(c, method) PROVE SessionsInv'
  OBVIOUS
<1>1. UNCHANGED <<api, token, expiry, nonce, now, issued, held, challenge, bought, foul>>
  BY DEF VigiCall
<1>2. QED
  BY <1>1, LoginKeeps DEF ChallengesKept

LEMMA ChallengeKeeps == ASSUME NEW c \in Clients PROVE SessionsInv /\ Challenge(c) => SessionsInv'
<1> SUFFICES ASSUME SessionsInv, Challenge(c) PROVE SessionsInv'
  OBVIOUS
<1>1. TokensOk /\ ChallengesOk /\ ~foul
  BY Unfolded
<1>2. /\ issued \in Nat /\ issued' = issued + 1 /\ nonce' = issued'
      /\ challenge' = [challenge EXCEPT ![c] = issued']
      /\ UNCHANGED <<token, expiry, now, held, bought, foul>>
  BY <1>1 DEF Challenge, TokensOk
<1>3. TokensOk'
  BY <1>1, <1>2, TokensStay
<1>4. \A d \in Clients : challenge[d] \in 0 .. issued /\ challenge[d] \in 0 .. issued'
  BY <1>1, <1>2 DEF ChallengesOk
<1>5. challenge' \in [Clients -> 0 .. issued'] /\ \A d \in Clients : challenge'[d] <= nonce'
  BY <1>1, <1>2, <1>4 DEF ChallengesOk
<1>6. bought' \in Seq(1 .. issued') /\ nonce' \notin ToSet(bought')
  <2>1. issued' \in Nat /\ issued <= issued' /\ issued' \notin 1 .. issued
    BY <1>2
  <2>2. bought \in Seq(1 .. issued') /\ \A i \in DOMAIN bought : bought[i] \in 1 .. issued
    BY <1>1, <1>2, <2>1, StillIssued DEF ChallengesOk
  <2>3. QED
    BY <1>2, <2>1, <2>2 DEF ToSet
<1>7. ChallengesOk'
  BY <1>1, <1>2, <1>5, <1>6 DEF ChallengesOk
<1>8. QED
  BY <1>1, <1>2, <1>3, <1>7, Folded

LEMMA DoAuthKeeps ==
  ASSUME NEW c \in Clients, NEW good \in BOOLEAN PROVE SessionsInv /\ DoAuth(c, good) => SessionsInv'
<1> SUFFICES ASSUME SessionsInv, DoAuth(c, good) PROVE SessionsInv'
  OBVIOUS
<1>1. TokensOk /\ ChallengesOk /\ ~foul /\ issued \in Nat
  BY Unfolded DEF TokensOk
<1>2. nonce' = 0 /\ UNCHANGED <<now, challenge, foul>>
  BY DEF DoAuth
<1>3. CASE IssueToken(c) /\ bought' = Append(bought, nonce) /\ nonce # 0
  <2>1. TokensOk' /\ issued' = issued + 1
    BY <1>1, <1>2, <1>3, TokenIssued
  <2>2. 1 .. issued \subseteq 1 .. issued' /\ nonce \in 1 .. issued
        /\ \A n \in 0 .. issued : n \in 0 .. issued'
    BY <1>1, <1>3, <2>1 DEF ChallengesOk
  <2>3. challenge' \in [Clients -> 0 .. issued']
    BY <1>1, <1>2, <2>2 DEF ChallengesOk
  <2> DEFINE old == bought
  <2>4. old \in Seq(1 .. issued') /\ nonce \in 1 .. issued' /\ Len(old) \in Nat
    <3>1. issued' \in Nat /\ issued <= issued' /\ old \in Seq(1 .. issued)
      BY <1>1, <2>1 DEF ChallengesOk
    <3>2. old \in Seq(1 .. issued')
      BY <1>1, <3>1, StillIssued
    <3>3. QED
      BY <2>2, <3>2
  <2>5. /\ bought' \in Seq(1 .. issued') /\ Len(bought') = Len(old) + 1
        /\ \A i \in 1 .. Len(old) : bought'[i] = old[i]
        /\ bought'[Len(old) + 1] = nonce
    BY <1>3, <2>4
  <2>6. DOMAIN bought' = 1 .. Len(old) + 1 /\ DOMAIN old = 1 .. Len(old)
    BY <2>4, <2>5
  <2>7. \A i \in 1 .. Len(old) : old[i] # nonce
    BY <1>1, <2>6 DEF ChallengesOk, ToSet
  <2>8. \A i, j \in 1 .. Len(old) : old[i] = old[j] => i = j
    BY <1>1, <2>6 DEF ChallengesOk, IsInjective
  <2>9. IsInjective(bought')
    <3>1. ASSUME NEW i \in 1 .. Len(old) + 1, NEW j \in 1 .. Len(old) + 1, bought'[i] = bought'[j]
          PROVE  i = j
      <4>1. CASE i \in 1 .. Len(old) /\ j \in 1 .. Len(old)
        BY <2>5, <2>8, <3>1, <4>1
      <4>2. CASE i = Len(old) + 1 /\ j \in 1 .. Len(old)
        BY <2>5, <2>7, <3>1, <4>2
      <4>3. CASE i \in 1 .. Len(old) /\ j = Len(old) + 1
        BY <2>5, <2>7, <3>1, <4>3
      <4>4. QED
        BY <2>4, <4>1, <4>2, <4>3
    <3>2. QED
      BY <2>6, <3>1 DEF IsInjective
  <2>10. 0 \notin ToSet(bought')
    <3>1. issued' \in Nat /\ bought' \in Seq(1 .. issued')
      BY <1>1, <2>1, <2>5
    <3>2. \A i \in DOMAIN bought' : bought'[i] \in 1 .. issued'
      BY <3>1, StillIssued
    <3>3. QED
      BY <3>1, <3>2 DEF ToSet
  <2>11. ChallengesOk'
    BY <1>2, <2>1, <2>2, <2>3, <2>5, <2>9, <2>10 DEF ChallengesOk
  <2>12. QED
    BY <1>1, <1>2, <2>1, <2>11, Folded
<1>4. CASE UNCHANGED <<token, expiry, issued, held, bought>>
  <2>1. TokensOk'
    BY <1>1, <1>2, <1>4, TokensStay
  <2>2. 0 \notin ToSet(bought)
    BY <1>1 DEF ChallengesOk, ToSet
  <2>3. ChallengesOk'
    BY <1>1, <1>2, <1>4, <2>2 DEF ChallengesOk
  <2>4. QED
    BY <1>1, <1>2, <2>1, <2>3, Folded
<1>5. QED
  BY <1>3, <1>4 DEF DoAuth

LEMMA TimeKeeps == SessionsInv /\ (SessionElapse \/ Expire) => SessionsInv'
<1> SUFFICES ASSUME SessionsInv, SessionElapse \/ Expire PROVE SessionsInv'
  OBVIOUS
<1>1. TokensOk /\ ChallengesOk /\ ~foul /\ issued \in Nat
  BY Unfolded DEF TokensOk
<1>2. /\ UNCHANGED <<token, held, issued, foul>> /\ ChallengesKept
      /\ now' \in Nat /\ expiry' \in Nat /\ expiry' <= now' + Lease
  BY <1>1, VendorSessionsAssumption DEF SessionElapse, Expire, ChallengesKept, TokensOk
<1>3. TokensOk'
  BY <1>1, <1>2 DEF TokensOk, HeldApart
<1>4. QED
  BY <1>1, <1>2, <1>3, ChallengesStay, Folded

-----------------------------------------------------------------------------
LEMMA SessionsInit == SessionInit => SessionsInv
<1> SUFFICES ASSUME SessionInit PROVE SessionsInv
  OBVIOUS
<1>1. /\ token = 0 /\ expiry = 0 /\ nonce = 0 /\ now = 0 /\ issued = 0
      /\ held = [c \in Clients |-> 0] /\ challenge = [c \in Clients |-> 0]
      /\ bought = <<>> /\ foul = FALSE
  BY DEF SessionInit
<1>2. Counted /\ HeldApart
  BY <1>1 DEF Counted, HeldApart
<1>3. IsInjective(bought) /\ nonce \notin ToSet(bought)
  BY <1>1 DEF IsInjective, ToSet
<1>4. SessionsTrue
  BY <1>1, <1>3, VendorSessionsAssumption DEF SessionsTrue, Accepted
<1>5. QED
  BY <1>2, <1>4 DEF SessionsInv

LEMMA SessionsStep == SessionsInv /\ [SessionNext]_sessionVars => SessionsInv'
<1> SUFFICES ASSUME SessionsInv, [SessionNext]_sessionVars PROVE SessionsInv'
  OBVIOUS
<1>1. CASE \E c \in Clients, cmds \in Batches : ReolinkRequest(c, cmds)
  BY <1>1, ReolinkKeeps
<1>2. CASE \E c \in Clients, good \in BOOLEAN : TplinkLogin(c, good)
  BY <1>2, TplinkLoginKeeps
<1>3. CASE \E c \in Clients, cmds \in Batches : TplinkRequest(c, cmds)
  BY <1>3, TplinkRequestKeeps
<1>4. CASE \E c \in Clients : Challenge(c)
  BY <1>4, ChallengeKeeps
<1>5. CASE \E c \in Clients, good \in BOOLEAN : DoAuth(c, good)
  BY <1>5, DoAuthKeeps
<1>6. CASE \E c \in Clients, method \in Methods : VigiCall(c, method)
  BY <1>6, VigiCallKeeps
<1>7. CASE SessionElapse \/ Expire
  BY <1>7, TimeKeeps
<1>8. CASE UNCHANGED sessionVars
  BY <1>8 DEF SessionsInv, SessionsTrue, Counted, HeldApart, Accepted, sessionVars
<1>9. QED
  BY <1>1, <1>2, <1>3, <1>4, <1>5, <1>6, <1>7, <1>8 DEF SessionNext

\* One client at a time has a session, none outlives its lease, a challenge buys
\* one session at most, and no command of an array is done on a token a Login in
\* it has replaced, for any number of clients and any arrays of commands.
THEOREM SessionsStayTrue == SessionSpec => []SessionsTrue
<1>1. SessionInit => SessionsInv
  BY SessionsInit
<1>2. SessionsInv /\ [SessionNext]_sessionVars => SessionsInv'
  BY SessionsStep
<1>3. SessionsInv => SessionsTrue
  BY DEF SessionsInv
<1>4. QED
  BY <1>1, <1>2, <1>3, PTL DEF SessionSpec

-----------------------------------------------------------------------------
(* IpAlias.                                                                 *)

\* What the invariant rests on: an owned address that is not on the interface, or
\* is owned twice, went at some time without the program's knowing it.
OwnedOnce ==
  /\ ours \in Seq(Addresses) /\ DOMAIN given = 1 .. CameraCount
  /\ Range(ours) \ there \subseteq muddled
  /\ \A i, j \in 1 .. Len(ours) : i # j /\ ours[i] = ours[j] => ours[i] \in muddled

AliasInv == AliasesAccounted /\ OwnedOnce

-----------------------------------------------------------------------------
LEMMA PartOfSequence ==
  ASSUME NEW S, NEW s \in Seq(S), NEW m \in Nat \ {0}, NEW n \in Nat, n <= Len(s)
  PROVE  /\ SubSeq(s, m, n) \in Seq(S)
         /\ Len(SubSeq(s, m, n)) = IF m <= n THEN n - m + 1 ELSE 0
         /\ \A i \in 1 .. n - m + 1 : SubSeq(s, m, n)[i] = s[m + i - 1]
         /\ ToSet(SubSeq(s, m, n)) = {s[i] : i \in m .. n}
         /\ Range(SubSeq(s, m, n)) = {s[i] : i \in m .. n}
<1> DEFINE t == SubSeq(s, m, n)
<1>1. \A i \in m .. n : s[i] \in S
  BY ElementOfSeq
<1>2. /\ t \in Seq(S)
      /\ Len(t) = IF m <= n THEN n - m + 1 ELSE 0
      /\ \A i \in 1 .. n - m + 1 : t[i] = s[m + i - 1]
  BY <1>1, SubSeqProperties
<1>3. DOMAIN t = 1 .. Len(t)
  BY <1>2, LenProperties
<1> HIDE DEF t
<1>4. {t[i] : i \in DOMAIN t} = {s[i] : i \in m .. n}
  <2>1. ASSUME NEW i \in DOMAIN t PROVE t[i] \in {s[k] : k \in m .. n}
    <3>1. i \in 1 .. n - m + 1 /\ m + i - 1 \in m .. n
      BY <1>2, <1>3
    <3>2. QED
      BY <1>2, <3>1
  <2>2. ASSUME NEW k \in m .. n PROVE s[k] \in {t[i] : i \in DOMAIN t}
    <3>1. k - m + 1 \in 1 .. n - m + 1 /\ k - m + 1 \in DOMAIN t /\ m + (k - m + 1) - 1 = k
      BY <1>2, <1>3
    <3>2. t[k - m + 1] = s[k]
      BY <1>2, <3>1
    <3>3. QED
      BY <3>1, <3>2
  <2>3. QED
    BY <2>1, <2>2
<1>5. QED
  BY <1>2, <1>4 DEF t, ToSet, Range

LEMMA RangeOfConcat ==
  ASSUME NEW S, NEW s \in Seq(S), NEW t \in Seq(S)
  PROVE  Range(s \o t) = Range(s) \cup Range(t)
BY RangeConcatenation

LEMMA RangeByIndex ==
  ASSUME NEW S, NEW s \in Seq(S)
  PROVE  Range(s) = {s[i] : i \in 1 .. Len(s)} /\ DOMAIN s = 1 .. Len(s)
BY LenProperties DEF Range

\* A sequence without its i-th element.
LEMMA RemovedAt ==
  ASSUME NEW S, NEW s \in Seq(S), NEW i \in 1 .. Len(s)
  PROVE  /\ RemoveAt(s, i) \in Seq(S)
         /\ Len(RemoveAt(s, i)) = Len(s) - 1
         /\ \A j \in 1 .. Len(s) - 1 :
              RemoveAt(s, i)[j] = IF j < i THEN s[j] ELSE s[j + 1]
<1> DEFINE a == SubSeq(s, 1, i - 1)  b == SubSeq(s, i + 1, Len(s))
<1>1. /\ a \in Seq(S) /\ Len(a) = i - 1
      /\ \A j \in 1 .. i - 1 : a[j] = s[j]
  BY PartOfSequence, i - 1 \in Nat, i - 1 <= Len(s)
<1>2. /\ b \in Seq(S) /\ Len(b) = Len(s) - i
      /\ \A j \in 1 .. Len(s) - i : b[j] = s[i + j]
  <2>1. /\ i + 1 \in Nat \ {0} /\ Len(s) \in Nat
    OBVIOUS
  <2>2. /\ b \in Seq(S) /\ Len(b) = IF i + 1 <= Len(s) THEN Len(s) - (i + 1) + 1 ELSE 0
        /\ \A j \in 1 .. Len(s) - (i + 1) + 1 : b[j] = s[(i + 1) + j - 1]
    BY <2>1, PartOfSequence
  <2>3. Len(b) = Len(s) - i
    BY <2>1, <2>2
  <2>4. ASSUME NEW j \in 1 .. Len(s) - i PROVE b[j] = s[i + j]
    <3>1. j \in 1 .. Len(s) - (i + 1) + 1 /\ (i + 1) + j - 1 = i + j
      BY <2>1
    <3>2. b[j] = s[(i + 1) + j - 1]
      BY <2>2, <3>1
    <3>3. QED
      BY <3>1, <3>2
  <2>5. QED
    BY <2>2, <2>3, <2>4
<1>3. RemoveAt(s, i) = a \o b
  BY DEF RemoveAt
<1> HIDE DEF a, b
<1>4. /\ a \o b \in Seq(S) /\ Len(a \o b) = Len(a) + Len(b)
      /\ \A j \in 1 .. Len(a) + Len(b) :
           (a \o b)[j] = IF j <= Len(a) THEN a[j] ELSE b[j - Len(a)]
  BY <1>1, <1>2, ConcatProperties
<1>5. Len(a) + Len(b) = Len(s) - 1
  BY <1>1, <1>2
<1>6. ASSUME NEW j \in 1 .. Len(s) - 1
      PROVE  (a \o b)[j] = IF j < i THEN s[j] ELSE s[j + 1]
  <2>1. CASE j < i
    BY <2>1, <1>1, <1>4, <1>5
  <2>2. CASE ~(j < i)
    <3>1. j - (i - 1) \in 1 .. Len(s) - i /\ i + (j - (i - 1)) = j + 1
      BY <2>2
    <3>2. b[j - (i - 1)] = s[j + 1]
      BY <3>1, <1>2
    <3>3. QED
      BY <2>2, <3>2, <1>1, <1>4, <1>5
  <2>3. QED
    BY <2>1, <2>2
<1>7. QED
  BY <1>3, <1>4, <1>5, <1>6

-----------------------------------------------------------------------------
\* What came of a batch: its first n addresses took effect, and the program knows
\* of k of them.
LEMMA PossibleProperties ==
  ASSUME NEW batch \in Seq(Addresses), NEW fit, NEW o \in Possible(batch, fit)
  PROVE  /\ o.applied \in 0 .. Len(batch) /\ o.done \in 0 .. o.applied
         /\ ToSet(SubSeq(batch, 1, o.applied)) = {batch[i] : i \in 1 .. o.applied}
         /\ ToSet(SubSeq(batch, o.done + 1, o.applied))
              = {batch[i] : i \in o.done + 1 .. o.applied}
         /\ \A i \in 1 .. o.applied : batch[i] \in fit
         /\ \A i, j \in 1 .. o.applied : i # j => batch[i] # batch[j]
<1> DEFINE n == o.applied  k == o.done
<1>1. /\ n \in 0 .. Len(batch) /\ k \in 0 .. Len(batch) /\ k <= n
      /\ \A i \in 1 .. n : batch[i] \in fit /\ \A j \in 1 .. i - 1 : batch[j] # batch[i]
  BY DEF Possible
<1> HIDE DEF n, k
<1>2. \A i, j \in 1 .. n : i # j => batch[i] # batch[j]
  <2>1. \A i, j \in 1 .. n : i # j => i \in 1 .. j - 1 \/ j \in 1 .. i - 1
    BY <1>1
  <2>2. QED
    BY <1>1, <2>1
<1>3. n \in Nat /\ n <= Len(batch) /\ 1 \in Nat \ {0} /\ k + 1 \in Nat \ {0} /\ k \in 0 .. n
  BY <1>1
<1>4. ToSet(SubSeq(batch, 1, n)) = {batch[i] : i \in 1 .. n}
  BY <1>3, PartOfSequence
<1>5. ToSet(SubSeq(batch, k + 1, n)) = {batch[i] : i \in k + 1 .. n}
  BY <1>3, PartOfSequence
<1>6. QED
  BY <1>1, <1>2, <1>3, <1>4, <1>5 DEF n, k

\* A batch that is added, as far as it came: what the program knows of is its own,
\* the rest of what was done are orphans.
LEMMA AddedKeeps ==
  ASSUME AliasInv, NEW batch \in Seq(Addresses), NEW n \in 0 .. Len(batch), NEW k \in 0 .. n,
         \A i \in 1 .. n : batch[i] \notin there,
         \A i, j \in 1 .. n : i # j => batch[i] # batch[j],
         there' = there \cup {batch[i] : i \in 1 .. n},
         orphans' = orphans \cup {batch[i] : i \in k + 1 .. n},
         withdrawn' = withdrawn \ {batch[i] : i \in 1 .. n},
         ours' = ours \o SubSeq(batch, 1, k),
         theirs' = theirs, muddled' = muddled, DOMAIN given' = DOMAIN given,
         \A c \in DOMAIN given' : given'[c] \in there' \cup withdrawn \cup {0}
  PROVE  AliasInv'
<1> USE DEF AliasInv, AliasesAccounted, OwnedOnce
<1> DEFINE mine == SubSeq(batch, 1, k)
<1>2. /\ mine \in Seq(Addresses) /\ Len(mine) = k
      /\ \A i \in 1 .. k : mine[i] = batch[i]
      /\ Range(mine) = {batch[i] : i \in 1 .. k}
  <2>1. k \in Nat /\ k <= Len(batch) /\ 1 \in Nat \ {0}
    OBVIOUS
  <2>2. /\ mine \in Seq(Addresses) /\ Len(mine) = IF 1 <= k THEN k - 1 + 1 ELSE 0
        /\ \A i \in 1 .. k - 1 + 1 : mine[i] = batch[1 + i - 1]
        /\ Range(mine) = {batch[i] : i \in 1 .. k}
    BY <2>1, PartOfSequence
  <2>3. k - 1 + 1 = k /\ \A i \in Nat : 1 + i - 1 = i
    BY <2>1
  <2>4. QED
    BY <2>1, <2>2, <2>3
<1>3. ours' = ours \o mine
  OBVIOUS
<1> HIDE DEF mine
<1>4. /\ ours' \in Seq(Addresses) /\ Len(ours') = Len(ours) + k
      /\ \A i \in 1 .. Len(ours) + k :
           ours'[i] = IF i <= Len(ours) THEN ours[i] ELSE mine[i - Len(ours)]
  BY <1>2, <1>3, ConcatProperties
<1>5. Range(ours') = Range(ours) \cup {batch[i] : i \in 1 .. k}
  <2>1. Range(ours \o mine) = Range(ours) \cup Range(mine)
    BY <1>2, RangeOfConcat
  <2>2. QED
    BY <1>2, <1>3, <2>1
<1>6. \A i \in 1 .. n : batch[i] \in Range(ours) => batch[i] \in muddled
  OBVIOUS
<1>7. \A i \in 1 .. Len(ours) : ours[i] \in Range(ours)
  BY RangeByIndex
<1>8. ASSUME NEW i \in 1 .. Len(ours'), NEW j \in 1 .. Len(ours'), i < j, ours'[i] = ours'[j]
      PROVE  ours'[i] \in muddled
  <2>1. CASE j <= Len(ours)
    BY <1>4, <1>8, <2>1
  <2>2. CASE i <= Len(ours) /\ j > Len(ours)
    <3>1. j - Len(ours) \in 1 .. k /\ j - Len(ours) \in 1 .. n
      BY <1>4, <2>2
    <3>2. ours'[j] = batch[j - Len(ours)] /\ ours'[i] = ours[i]
      BY <1>2, <1>4, <2>2, <3>1
    <3>3. QED
      BY <1>6, <1>7, <1>8, <2>2, <3>1, <3>2
  <2>3. CASE i > Len(ours)
    <3>1. /\ i - Len(ours) \in 1 .. k /\ j - Len(ours) \in 1 .. k
          /\ i - Len(ours) \in 1 .. n /\ j - Len(ours) \in 1 .. n
          /\ i - Len(ours) # j - Len(ours)
      BY <1>4, <1>8, <2>3
    <3>2. ours'[j] = batch[j - Len(ours)] /\ ours'[i] = batch[i - Len(ours)]
      BY <1>2, <1>4, <1>8, <2>3, <3>1
    <3>3. QED
      BY <1>8, <3>1, <3>2
  <2>4. QED
    BY <1>4, <1>8, <2>1, <2>2, <2>3
<1>9. OwnedOnce'
  <2>1. Range(ours') \ there' \subseteq muddled'
    BY <1>5
  <2>2. \A i, j \in 1 .. Len(ours') : i # j => i < j \/ j < i
    BY <1>4
  <2>3. QED
    BY <1>4, <1>8, <2>1, <2>2
<1>10. AliasesAccounted'
  <2>1. {batch[i] : i \in 1 .. n}
          = {batch[i] : i \in 1 .. k} \cup {batch[i] : i \in k + 1 .. n}
    OBVIOUS
  <2>2. there' \subseteq theirs' \cup orphans' \cup Range(ours')
    BY <1>5, <2>1
  <2>3. theirs' \cup orphans' \subseteq there' /\ theirs' \cap orphans' = {}
    BY <2>1
  <2>4. (theirs' \cup orphans') \cap Range(ours') \subseteq muddled'
    BY <1>5, <1>6
  <2>5. \A c \in DOMAIN given' : given'[c] \in there' \cup withdrawn' \cup {0}
    OBVIOUS
  <2>6. QED
    BY <2>2, <2>3, <2>4, <2>5
<1>11. QED
  BY <1>9, <1>10

\* The same in the words of the actions.
LEMMA BatchAdded ==
  ASSUME AliasInv, NEW batch \in Seq(Addresses), NEW o \in Possible(batch, Missing),
         PutThere(batch, o), ours' = ours \o SubSeq(batch, 1, o.done),
         theirs' = theirs, muddled' = muddled, DOMAIN given' = DOMAIN given,
         \A c \in DOMAIN given' : given'[c] \in there' \cup withdrawn \cup {0}
  PROVE  AliasInv'
<1> DEFINE n == o.applied  k == o.done
<1>1. /\ n \in 0 .. Len(batch) /\ k \in 0 .. n
      /\ ToSet(SubSeq(batch, 1, n)) = {batch[i] : i \in 1 .. n}
      /\ ToSet(SubSeq(batch, k + 1, n)) = {batch[i] : i \in k + 1 .. n}
      /\ \A i \in 1 .. n : batch[i] \in Missing
      /\ \A i, j \in 1 .. n : i # j => batch[i] # batch[j]
  BY PossibleProperties
<1>2. /\ there' = there \cup {batch[i] : i \in 1 .. n}
      /\ orphans' = orphans \cup {batch[i] : i \in k + 1 .. n}
      /\ withdrawn' = withdrawn \ {batch[i] : i \in 1 .. n}
  BY <1>1 DEF PutThere
<1>3. \A i \in 1 .. n : batch[i] \notin there
  BY <1>1 DEF Missing
<1>4. ours' = ours \o SubSeq(batch, 1, k)
  OBVIOUS
<1> HIDE DEF n, k
<1>5. QED
  BY <1>1, <1>2, <1>3, <1>4, AddedKeeps

LEMMA AddAliasKeeps == ASSUME NEW a \in Addresses PROVE AliasInv /\ AddAlias(a) => AliasInv'
<1> SUFFICES ASSUME AliasInv, AddAlias(a) PROVE AliasInv'
  OBVIOUS
<1>1. UNCHANGED <<given, theirs, muddled>>
  BY DEF AddAlias
<1>2. CASE a \in there
  BY <1>1, <1>2 DEF AddAlias, AliasInv, AliasesAccounted, OwnedOnce
<1>3. CASE a \notin there
  <2>1. PICK o \in Possible(<<a>>, Missing) :
          /\ PutThere(<<a>>, o)
          /\ ours' = IF AllDone(o, <<a>>) THEN Append(ours, a) ELSE ours
    BY <1>3 DEF AddAlias
  <2>2. o.done \in 0 .. 1 /\ <<a>> \in Seq(Addresses) /\ Len(<<a>>) = 1
    BY <2>1 DEF Possible
  <2>3. ours \in Seq(Addresses)
    BY DEF AliasInv, OwnedOnce
  <2>4. ours' = ours \o SubSeq(<<a>>, 1, o.done)
    <3>1. CASE o.done = 0
      <4>1. SubSeq(<<a>>, 1, 0) = <<>>
        BY SubSeqEmpty
      <4>2. ours' = ours
        BY <2>1, <2>2, <3>1 DEF AllDone
      <4>3. QED
        BY <2>3, <3>1, <4>1, <4>2, ConcatEmptySeq
    <3>2. CASE o.done = 1
      <4>1. SubSeq(<<a>>, 1, 1) = <<a>>
        BY <2>2, SubSeqFull
      <4>2. ours' = Append(ours, a)
        BY <2>1, <2>2, <3>2 DEF AllDone
      <4>3. QED
        BY <2>3, <3>2, <4>1, <4>2, AppendIsConcat
    <3>3. o.done = 0 \/ o.done = 1
      BY <2>2
    <3>4. QED
      BY <3>1, <3>2, <3>3
  <2>5. \A c \in DOMAIN given' : given'[c] \in there' \cup withdrawn \cup {0}
    BY <1>1, <2>1 DEF AliasInv, AliasesAccounted, PutThere
  <2>6. QED
    BY <1>1, <2>1, <2>2, <2>4, <2>5, BatchAdded
<1>4. QED
  BY <1>2, <1>3

\* As many different addresses as are absent are all that are absent.
LEMMA AllOfThem ==
  ASSUME NEW S, IsFiniteSet(S), NEW f \in [1 .. Cardinality(S) -> S],
         \A i, j \in 1 .. Cardinality(S) : i # j => f[i] # f[j]
  PROVE  \A x \in S : \E i \in 1 .. Cardinality(S) : f[i] = x
<1> DEFINE n == Cardinality(S)
<1>1. n \in Nat
  BY FS_CardinalityType
<1>2. IsFiniteSet(1 .. n) /\ Cardinality(1 .. n) = n
  BY <1>1, FS_Interval
<1>3. f \in Injection(1 .. n, S)
  BY DEF Injection, IsInjective
<1>4. f \in Surjection(1 .. n, S)
  BY <1>2, <1>3, FS_Injection
<1>5. QED
  BY <1>4 DEF Surjection

LEMMA AssignKeeps ==
  ASSUME NEW start \in Addresses, NEW count \in 1 .. MaxRange
  PROVE  AliasInv /\ AssignAddressRange(start, count) => AliasInv'
<1> SUFFICES ASSUME AliasInv, AssignAddressRange(start, count) PROVE AliasInv'
  OBVIOUS
<1> DEFINE range == start .. start + count - 1
           absent == range \cap Missing
           n == Cardinality(absent)
<1>1. range \subseteq Addresses /\ UNCHANGED <<theirs, muddled>>
  BY DEF AssignAddressRange
<1>2. IsFiniteSet(absent) /\ n \in Nat
  <2>1. IsFiniteSet(Addresses)
    BY IpAliasAssumption
  <2>2. absent \subseteq Addresses
    BY DEF Missing
  <2>3. QED
    BY <2>1, <2>2, FS_Subset, FS_CardinalityType
<1>3. PICK batch \in [1 .. n -> absent] :
        /\ \A i, j \in DOMAIN batch : i < j => batch[i] < batch[j]
        /\ \E o \in Possible(batch, Missing) :
             /\ AddRange(batch, o)
             /\ given' = [c \in DOMAIN given |->
                            IF AllDone(o, batch) /\ c <= count THEN start + c - 1 ELSE given[c]]
  BY DEF AssignAddressRange
<1>4. PICK o \in Possible(batch, Missing) :
        /\ AddRange(batch, o)
        /\ given' = [c \in DOMAIN given |->
                       IF AllDone(o, batch) /\ c <= count THEN start + c - 1 ELSE given[c]]
  BY <1>3
<1>5. batch \in Seq(Addresses) /\ Len(batch) = n
  <2>1. absent \subseteq Addresses
    BY DEF Missing
  <2> HIDE DEF absent, n
  <2>2. batch \in [1 .. n -> Addresses]
    BY <1>3, <2>1
  <2>3. QED
    BY <1>2, <2>2
<1>6. \A c \in DOMAIN given' : given'[c] \in there' \cup withdrawn \cup {0}
  <2>1. ASSUME NEW c \in DOMAIN given PROVE given'[c] \in there' \cup withdrawn \cup {0}
    <3>1. CASE ~(AllDone(o, batch) /\ c <= count)
      <4>1. given'[c] = given[c] /\ there \subseteq there'
        BY <1>4, <3>1 DEF AddRange, PutThere
      <4>2. QED
        BY <4>1 DEF AliasInv, AliasesAccounted
    <3>2. CASE AllDone(o, batch) /\ c <= count
      <4>1. o.applied = n
        <5>1. o.done = n /\ o.applied \in 0 .. n /\ o.done <= o.applied
          BY <1>5, <3>2 DEF AllDone, Possible
        <5>2. QED
          BY <1>2, <5>1
      <4>2. range \subseteq there'
        <5>1. /\ range \subseteq there \cup absent
              /\ absent \subseteq Nat
              /\ \A i, j \in 1 .. n : i < j => batch[i] < batch[j]
          BY <1>1, <1>3, IpAliasAssumption DEF Missing
        <5> HIDE DEF absent, range, n
        <5>2. \A i, j \in 1 .. n : i # j => batch[i] # batch[j]
          <6>1. ASSUME NEW i \in 1 .. n, NEW j \in 1 .. n, i # j PROVE batch[i] # batch[j]
            <7>1. /\ batch[i] \in Nat /\ batch[j] \in Nat
                  /\ i < j => batch[i] < batch[j]
                  /\ j < i => batch[j] < batch[i]
              BY <1>3, <5>1
            <7>2. i < j \/ j < i
              BY <1>2, <6>1
            <7>3. QED
              BY <7>1, <7>2
          <6>2. QED
            BY <6>1
        <5>3. \A x \in absent : \E i \in 1 .. n : batch[i] = x
          BY <1>2, <1>3, <5>2, AllOfThem DEF n
        <5>4. ToSet(SubSeq(batch, 1, n)) = {batch[i] : i \in 1 .. n}
          BY <1>2, <1>5, PartOfSequence, 1 \in Nat \ {0}, n <= Len(batch)
        <5>5. there' = there \cup {batch[i] : i \in 1 .. n}
          BY <1>4, <4>1, <5>4 DEF AddRange, PutThere
        <5>6. QED
          BY <5>1, <5>3, <5>5
      <4>3. given'[c] = start + c - 1
        BY <1>4, <3>2
      <4>4. c \in 1 .. CameraCount /\ start \in Nat /\ count \in Nat /\ CameraCount \in Nat
        BY IpAliasAssumption DEF AliasInv, OwnedOnce
      <4>5. start + c - 1 \in range
        BY <3>2, <4>4
      <4>6. QED
        BY <4>2, <4>3, <4>5
    <3>3. QED
      BY <3>1, <3>2
  <2>2. DOMAIN given' = DOMAIN given
    BY <1>4
  <2>3. QED
    BY <2>1, <2>2
<1>7. QED
  BY <1>1, <1>4, <1>5, <1>6, BatchAdded DEF AddRange

\* Addresses that go: an owned one may stay in the list only when it is muddled.
LEMMA TakenKeeps ==
  ASSUME AliasInv, NEW gone, gone \subseteq there,
         there' = there \ gone, orphans' = orphans \ gone, theirs' = theirs \ gone,
         muddled \subseteq muddled', withdrawn' = withdrawn \cup gone, given' = given,
         ours' \in Seq(Addresses),
         Range(ours') \subseteq Range(ours), Range(ours) \ gone \subseteq Range(ours'),
         Range(ours') \cap gone \subseteq muddled',
         \A i, j \in 1 .. Len(ours') : i # j /\ ours'[i] = ours'[j] => ours'[i] \in muddled
  PROVE  AliasInv'
<1> USE DEF AliasInv, AliasesAccounted, OwnedOnce
<1>1. there' \subseteq theirs' \cup orphans' \cup Range(ours')
  OBVIOUS
<1>2. theirs' \cup orphans' \subseteq there' /\ theirs' \cap orphans' = {}
  OBVIOUS
<1>3. (theirs' \cup orphans') \cap Range(ours') \subseteq muddled'
  OBVIOUS
<1>4. \A c \in DOMAIN given' : given'[c] \in there' \cup withdrawn' \cup {0}
  OBVIOUS
<1>5. Range(ours') \ there' \subseteq muddled'
  OBVIOUS
<1>6. QED
  BY <1>1, <1>2, <1>3, <1>4, <1>5

LEMMA RemoveAliasKeeps == ASSUME NEW a \in Addresses PROVE AliasInv /\ RemoveAlias(a) => AliasInv'
<1> SUFFICES ASSUME AliasInv, RemoveAlias(a) PROVE AliasInv'
  OBVIOUS
<1>1. given' = given
  BY DEF RemoveAlias
<1>2. PICK o \in Possible(<<a>>, there) :
        /\ TakeAway(<<a>>, o)
        /\ IF AllDone(o, <<a>>) THEN Disown(a) ELSE UNCHANGED ours
  BY DEF RemoveAlias
<1>3. <<a>> \in Seq(Addresses) /\ Len(<<a>>) = 1 /\ <<a>>[1] = a
  OBVIOUS
<1> DEFINE n == o.applied  k == o.done
           gone == {<<a>>[i] : i \in 1 .. n}
           unknown == {<<a>>[i] : i \in k + 1 .. n}
<1>4. /\ n \in 0 .. 1 /\ k \in 0 .. n
      /\ ToSet(SubSeq(<<a>>, 1, n)) = gone
      /\ ToSet(SubSeq(<<a>>, k + 1, n)) = unknown
      /\ \A i \in 1 .. n : <<a>>[i] \in there
  BY <1>3, PossibleProperties
<1>5. /\ there' = there \ gone /\ orphans' = orphans \ gone /\ theirs' = theirs \ gone
      /\ muddled' = muddled \cup (unknown \cap Range(ours))
      /\ withdrawn' = withdrawn \cup gone
  BY <1>2, <1>4 DEF TakeAway
<1>6. gone \subseteq there
  BY <1>4
<1>7. ours \in Seq(Addresses)
      /\ \A i, j \in 1 .. Len(ours) : i # j /\ ours[i] = ours[j] => ours[i] \in muddled
  BY DEF AliasInv, OwnedOnce
<1>8. k = 1 => n = 1 /\ gone = {a}
  BY <1>3, <1>4
<1>9. k = 0 => gone = unknown
  BY <1>4
<1>10. AllDone(o, <<a>>) <=> k = 1
  BY <1>3 DEF AllDone
<1>11. k = 0 \/ k = 1
  BY <1>4
<1> HIDE DEF n, k, gone, unknown
<1>12. CASE k = 0
  <2>1. ours' = ours
    BY <1>2, <1>10, <1>12
  <2>2. QED
    BY <1>1, <1>5, <1>6, <1>7, <1>9, <1>12, <2>1, TakenKeeps
<1>13. CASE k = 1
  <2>1. Disown(a)
    BY <1>2, <1>10, <1>13
  <2>2. CASE a \notin Range(ours)
    <3>1. ours' = ours
      BY <2>1, <2>2 DEF Disown
    <3>2. Range(ours) \cap gone = {}
      BY <1>8, <1>13, <2>2
    <3>3. QED
      BY <1>1, <1>5, <1>6, <1>7, <3>1, <3>2, TakenKeeps
  <2>3. CASE a \in Range(ours)
    <3>1. PICK i \in DOMAIN ours : ours[i] = a /\ ours' = RemoveAt(ours, i)
      BY <2>1, <2>3 DEF Disown
    <3>2. i \in 1 .. Len(ours) /\ Len(ours) \in Nat /\ Range(ours) = {ours[m] : m \in 1 .. Len(ours)}
      BY <1>7, RangeByIndex
    <3> DEFINE from(m) == IF m < i THEN m ELSE m + 1
    <3>3. /\ ours' \in Seq(Addresses) /\ Len(ours') = Len(ours) - 1
          /\ \A m \in 1 .. Len(ours) - 1 : ours'[m] = IF m < i THEN ours[m] ELSE ours[m + 1]
      BY <1>7, <3>1, <3>2, RemovedAt
    <3>4. \A m \in 1 .. Len(ours') :
            from(m) \in 1 .. Len(ours) /\ from(m) # i /\ ours'[m] = ours[from(m)]
      BY <3>2, <3>3
    <3>5. \A m, l \in 1 .. Len(ours') : m # l => from(m) # from(l)
      BY <3>2, <3>3
    <3>6. \A m \in 1 .. Len(ours) : m # i => \E l \in 1 .. Len(ours') : from(l) = m
      <4>1. ASSUME NEW m \in 1 .. Len(ours), m # i
            PROVE  \E l \in 1 .. Len(ours') : from(l) = m
        <5>1. CASE m < i
          BY <3>2, <3>3, <5>1
        <5>2. CASE ~(m < i)
          <6>1. m - 1 \in 1 .. Len(ours') /\ from(m - 1) = m
            BY <3>2, <3>3, <4>1, <5>2
          <6>2. QED
            BY <6>1
        <5>3. QED
          BY <5>1, <5>2
      <4>2. QED
        BY <4>1
    <3>7. Range(ours') = {ours'[m] : m \in 1 .. Len(ours')}
      BY <3>3, RangeByIndex
    <3> HIDE DEF from
    <3>8. Range(ours') \subseteq Range(ours)
      BY <3>2, <3>4, <3>7
    <3>9. Range(ours) \ gone \subseteq Range(ours')
      <4>1. ASSUME NEW m \in 1 .. Len(ours), ours[m] \notin gone PROVE ours[m] \in Range(ours')
        <5>1. m # i
          BY <1>8, <1>13, <3>1, <4>1
        <5>2. PICK l \in 1 .. Len(ours') : from(l) = m
          BY <3>6, <5>1
        <5>3. QED
          BY <3>4, <3>7, <5>2
      <4>2. QED
        BY <3>2, <4>1
    <3>10. Range(ours') \cap gone \subseteq muddled'
      BY <1>5, <1>7, <1>8, <1>13, <3>1, <3>2, <3>4, <3>7
    <3>11. \A m, l \in 1 .. Len(ours') : m # l /\ ours'[m] = ours'[l] => ours'[m] \in muddled
      BY <1>7, <3>4, <3>5
    <3>12. muddled \subseteq muddled'
      BY <1>5
    <3>13. QED
      BY <1>1, <1>5, <1>6, <3>3, <3>8, <3>9, <3>10, <3>11, <3>12, TakenKeeps
  <2>4. QED
    BY <2>2, <2>3
<1>14. QED
  BY <1>11, <1>12, <1>13

LEMMA RemoveAllKeeps == AliasInv /\ RemoveAllOwned => AliasInv'
<1> SUFFICES ASSUME AliasInv, RemoveAllOwned PROVE AliasInv'
  OBVIOUS
<1>1. ours \in Seq(Addresses) /\ Len(ours) \in Nat
      /\ \A i, j \in 1 .. Len(ours) : i # j /\ ours[i] = ours[j] => ours[i] \in muddled
  BY DEF AliasInv, OwnedOnce
<1>2. PICK o \in Possible(ours, there) :
        TakeAway(ours, o) /\ ours' = SubSeq(ours, o.done + 1, Len(ours))
  BY DEF RemoveAllOwned
<1> DEFINE n == o.applied  k == o.done
           gone == {ours[i] : i \in 1 .. n}
           unknown == {ours[i] : i \in k + 1 .. n}
<1>3. /\ n \in 0 .. Len(ours) /\ k \in 0 .. n
      /\ ToSet(SubSeq(ours, 1, n)) = gone
      /\ ToSet(SubSeq(ours, k + 1, n)) = unknown
      /\ \A i \in 1 .. n : ours[i] \in there
  BY <1>1, PossibleProperties
<1>4. /\ there' = there \ gone /\ orphans' = orphans \ gone /\ theirs' = theirs \ gone
      /\ muddled' = muddled \cup (unknown \cap Range(ours))
      /\ withdrawn' = withdrawn \cup gone
      /\ ours' = SubSeq(ours, k + 1, Len(ours)) /\ given' = given
  BY <1>2, <1>3 DEF TakeAway, RemoveAllOwned
<1> HIDE DEF n, k
<1>5. gone \subseteq there /\ Range(ours) = {ours[i] : i \in 1 .. Len(ours)}
  BY <1>1, <1>3, RangeByIndex
<1>6. /\ ours' \in Seq(Addresses)
      /\ Len(ours') = Len(ours) - k
      /\ \A i \in 1 .. Len(ours) - k : ours'[i] = ours[i + k]
      /\ Range(ours') = {ours[i] : i \in k + 1 .. Len(ours)}
  <2>1. k + 1 \in Nat \ {0} /\ Len(ours) <= Len(ours) /\ Len(ours) \in Nat /\ k \in Nat /\ k <= Len(ours)
    BY <1>1, <1>3
  <2>2. /\ ours' \in Seq(Addresses)
        /\ Len(ours') = IF k + 1 <= Len(ours) THEN Len(ours) - (k + 1) + 1 ELSE 0
        /\ \A i \in 1 .. Len(ours) - (k + 1) + 1 : ours'[i] = ours[k + 1 + i - 1]
        /\ Range(ours') = {ours[i] : i \in k + 1 .. Len(ours)}
    BY <1>1, <1>4, <2>1, PartOfSequence
  <2>3. Len(ours') = Len(ours) - k
    BY <2>1, <2>2
  <2>4. ASSUME NEW i \in 1 .. Len(ours) - k PROVE ours'[i] = ours[i + k]
    <3>1. i \in 1 .. Len(ours) - (k + 1) + 1 /\ k + 1 + i - 1 = i + k
      BY <2>1
    <3>2. ours'[i] = ours[k + 1 + i - 1]
      BY <2>2, <3>1
    <3>3. QED
      BY <3>1, <3>2
  <2>5. QED
    BY <2>2, <2>3, <2>4
<1>7. Range(ours') \subseteq Range(ours)
  BY <1>1, <1>3, <1>5, <1>6
<1>8. Range(ours) \ gone \subseteq Range(ours')
  <2>1. ASSUME NEW i \in 1 .. Len(ours), ours[i] \notin gone PROVE i \in k + 1 .. Len(ours)
    BY <1>1, <1>3, <2>1
  <2>2. QED
    BY <1>5, <1>6, <2>1
<1>9. Range(ours') \cap gone \subseteq muddled'
  <2>1. ASSUME NEW i \in k + 1 .. Len(ours), NEW j \in 1 .. n, ours[i] = ours[j]
        PROVE  ours[i] \in muddled'
    <3>1. i \in 1 .. Len(ours) /\ j \in 1 .. Len(ours) /\ ours[i] \in Range(ours)
      BY <1>1, <1>3, <1>5
    <3>2. CASE i \in k + 1 .. n
      BY <1>4, <3>1, <3>2
    <3>3. CASE i \notin k + 1 .. n
      <4>1. i # j
        BY <1>1, <1>3, <3>3
      <4>2. QED
        BY <1>1, <1>4, <2>1, <3>1, <4>1
    <3>4. QED
      BY <3>2, <3>3
  <2>2. QED
    BY <1>6, <2>1
<1>10. \A i, j \in 1 .. Len(ours') : i # j /\ ours'[i] = ours'[j] => ours'[i] \in muddled
  <2>1. ASSUME NEW i \in 1 .. Len(ours'), NEW j \in 1 .. Len(ours'), i # j, ours'[i] = ours'[j]
        PROVE  ours'[i] \in muddled
    <3>1. /\ i + k \in 1 .. Len(ours) /\ j + k \in 1 .. Len(ours) /\ i + k # j + k
          /\ ours'[i] = ours[i + k] /\ ours'[j] = ours[j + k]
      BY <1>1, <1>3, <1>6, <2>1
    <3>2. QED
      BY <1>1, <2>1, <3>1
  <2>2. QED
    BY <2>1
<1>11. muddled \subseteq muddled'
  BY <1>4
<1> HIDE DEF gone, unknown
<1>12. QED
  BY <1>4, <1>5, <1>6, <1>7, <1>8, <1>9, <1>10, <1>11, TakenKeeps

LEMMA UserAddsKeeps == ASSUME NEW a \in Addresses PROVE AliasInv /\ UserAdds(a) => AliasInv'
<1> SUFFICES ASSUME AliasInv, UserAdds(a) PROVE AliasInv'
  OBVIOUS
<1>1. /\ a \notin there /\ there' = there \cup {a} /\ theirs' = theirs \cup {a}
      /\ muddled \subseteq muddled' /\ (a \in Range(ours) => a \in muddled')
      /\ withdrawn' = withdrawn \ {a}
      /\ ours' = ours /\ given' = given /\ orphans' = orphans
  BY DEF UserAdds
<1>2. QED
  BY <1>1 DEF AliasInv, AliasesAccounted, OwnedOnce

LEMMA UserRemovesKeeps == ASSUME NEW a \in Addresses PROVE AliasInv /\ UserRemoves(a) => AliasInv'
<1> SUFFICES ASSUME AliasInv, UserRemoves(a) PROVE AliasInv'
  OBVIOUS
<1>1. /\ {a} \subseteq there /\ there' = there \ {a}
      /\ theirs' = theirs \ {a} /\ orphans' = orphans \ {a}
      /\ muddled \subseteq muddled' /\ Range(ours) \cap {a} \subseteq muddled'
      /\ withdrawn' = withdrawn \cup {a} /\ ours' = ours /\ given' = given
  BY DEF UserRemoves
<1>2. /\ ours \in Seq(Addresses)
      /\ \A i, j \in 1 .. Len(ours) : i # j /\ ours[i] = ours[j] => ours[i] \in muddled
  BY DEF AliasInv, OwnedOnce
<1>3. QED
  BY <1>1, <1>2, TakenKeeps

-----------------------------------------------------------------------------
LEMMA AliasInitHolds == AliasInit => AliasInv
<1> SUFFICES ASSUME AliasInit PROVE AliasInv
  OBVIOUS
<1>1. ours = <<>> /\ there = theirs /\ orphans = {} /\ given = [c \in 1 .. CameraCount |-> 0]
  BY DEF AliasInit
<1>2. ours \in Seq(Addresses) /\ Len(ours) = 0
  BY <1>1
<1>3. Range(ours) = {}
  <2>1. Range(ours) = {ours[i] : i \in 1 .. Len(ours)}
    BY <1>2, RangeByIndex
  <2>2. QED
    BY <1>2, <2>1
<1>4. QED
  BY <1>1, <1>2, <1>3 DEF AliasInv, AliasesAccounted, OwnedOnce

LEMMA AliasStep == AliasInv /\ [AliasNext]_aliasVars => AliasInv'
<1> SUFFICES ASSUME AliasInv, [AliasNext]_aliasVars PROVE AliasInv'
  OBVIOUS
<1>1. CASE \E a \in Addresses : AddAlias(a)
  BY <1>1, AddAliasKeeps
<1>2. CASE \E a \in Addresses : RemoveAlias(a)
  BY <1>2, RemoveAliasKeeps
<1>3. CASE \E a \in Addresses : UserAdds(a)
  BY <1>3, UserAddsKeeps
<1>4. CASE \E a \in Addresses : UserRemoves(a)
  BY <1>4, UserRemovesKeeps
<1>5. CASE \E start \in Addresses, count \in 1 .. MaxRange : AssignAddressRange(start, count)
  BY <1>5, AssignKeeps
<1>6. CASE RemoveAllOwned
  BY <1>6, RemoveAllKeeps
<1>7. CASE UNCHANGED aliasVars
  BY <1>7 DEF AliasInv, AliasesAccounted, OwnedOnce, aliasVars
<1>8. QED
  BY <1>1, <1>2, <1>3, <1>4, <1>5, <1>6, <1>7 DEF AliasNext

\* Every address on the interface is the user's, the program's or an orphan a
\* script left, for any addresses, ranges, cameras and any failures: nothing the
\* program put there is forgotten, and it releases nobody else's.
THEOREM AliasesStayAccounted == AliasSpec => []AliasesAccounted
<1>1. AliasInit => AliasInv
  BY AliasInitHolds
<1>2. AliasInv /\ [AliasNext]_aliasVars => AliasInv'
  BY AliasStep
<1>3. AliasInv => AliasesAccounted
  BY DEF AliasInv
<1>4. QED
  BY <1>1, <1>2, <1>3, PTL DEF AliasSpec

-----------------------------------------------------------------------------
(* Discovery.                                                               *)

USE DiscoveryAssumption

\* Whatever the address quirks do, a Resolve's first answer has the camera's own.
LEMMA OwnAmongXAddrs ==
  ASSUME NEW c
  PROVE  "own" \in ToSet(XAddrs(c, TRUE, FALSE))
<1> DEFINE S == {"own", "bad"}  own == <<"own">>  bad == <<"bad">>
<1>1. own \in Seq(S) /\ bad \in Seq(S) /\ Len(own) = 1 /\ Len(bad) = 1 /\ own[1] = "own"
  OBVIOUS
<1>2. XAddrs(c, TRUE, FALSE) \in {own, bad \o own, own \o bad}
  BY DEF XAddrs, BadXAddr
<1>3. "own" \in ToSet(own)
  BY <1>1 DEF ToSet
<1>4. /\ Len(bad \o own) = 2 /\ (bad \o own)[2] = "own" /\ bad \o own \in Seq(S)
      /\ Len(own \o bad) = 2 /\ (own \o bad)[1] = "own" /\ own \o bad \in Seq(S)
  BY <1>1, ConcatProperties
<1> HIDE DEF own, bad
<1>5. "own" \in ToSet(bad \o own) /\ "own" \in ToSet(own \o bad)
  <2>1. 2 \in DOMAIN (bad \o own) /\ 1 \in DOMAIN (own \o bad)
    BY <1>4, LenProperties
  <2>2. QED
    BY <1>4, <2>1 DEF ToSet
<1>6. QED
  BY <1>2, <1>3, <1>5

\* Some order of a finite set's elements is a sequence of them.
LEMMA SetToSeqType ==
  ASSUME NEW S, IsFiniteSet(S)
  PROVE  SetToSeq(S) \in Seq(S)
<1>1. ExistsBijection(1 .. Cardinality(S), S) /\ Cardinality(S) \in Nat
  BY FS_CardinalityType
<1>2. \E f \in [1 .. Cardinality(S) -> S] : IsInjective(f)
  BY <1>1 DEF ExistsBijection, Bijection, Injection
<1>3. SetToSeq(S) \in [1 .. Cardinality(S) -> S]
  BY <1>2 DEF SetToSeq
<1>4. QED
  BY <1>1, <1>3

\* The answers to one request that wait are answers of cameras of the fleet.
LEMMA WaitingAnswers ==
  ASSUME NEW cs \in SUBSET Fleet, NEW m, NEW second \in BOOLEAN
  PROVE  SetToSeq({Match(c, m, second) : c \in cs}) \in Seq(Answers)
<1> DEFINE S == {Match(c, m, second) : c \in cs}
<1>1. S \subseteq Answers
  <2>1. (m.kind = "resolve") \in BOOLEAN
    OBVIOUS
  <2>2. \A c \in cs : Match(c, m, second) \in Answers
    BY <2>1 DEF Match, Answers
  <2>3. QED
    BY <2>2
<1>2. IsFiniteSet(S)
  <2>1. IsFiniteSet(cs)
    BY FS_Subset
  <2>2. S = {[camera |-> c, resolve |-> m.kind = "resolve", second |-> second] : c \in cs}
    BY DEF Match
  <2> DEFINE f == [c \in cs |-> Match(c, m, second)]
  <2>3. f \in Surjection(cs, S)
    BY DEF Surjection
  <2>4. QED
    BY <2>1, <2>3, FS_Surjection
<1>3. SetToSeq(S) \in Seq(S)
  BY <1>2, SetToSeqType
<1>4. QED
  BY <1>1, <1>3, SeqMonotonic

-----------------------------------------------------------------------------
\* DiscoveryTrue, on its own, is inductive.
LEMMA InitTrue == DiscoveryInit => DiscoveryTrue
BY DEF DiscoveryInit, DiscoveryTrue, AnnouncedRight, SendersFollow, AnswersUsable

\* A Hello of cameras that are up keeps what clients know true, and so does a Bye
\* of those that are not up after the step.
LEMMA HelloKeeps ==
  ASSUME DiscoveryTrue, NEW cs \in SUBSET Fleet, Hello(cs), listening' = listening,
         up \subseteq up', cs \subseteq up', up' \subseteq Fleet,
         owed' = owed \/ up' \ out' \subseteq cs,
         up' \ out' \subseteq (up \ out) \cup cs,
         up' \subseteq fleet, fleet' = fleet
  PROVE  AnnouncedRight' /\ SendersFollow'
<1> USE DEF DiscoveryTrue, Hello
<1> DEFINE listeners == {c \in cs : "no_reply" \notin twists[c]}
<1>1. AnnouncedRight'
  BY DEF AnnouncedRight
<1>2. SendersFollow'
  BY DEF SendersFollow, SenderFor
<1>3. QED
  BY <1>1, <1>2

LEMMA ByeKeeps ==
  ASSUME DiscoveryTrue, NEW cs \in SUBSET Fleet, Bye(cs),
         listening' \in {listening, FALSE},
         listening /\ ~listening' => cs = up,
         up' \subseteq up, up \ up' \subseteq cs, cs \cap (up' \ out') = {} \/ ~listening',
         up' \ out' \subseteq up \ out,
         UNCHANGED <<unsaid, owed>>
  PROVE  AnnouncedRight'
<1> USE DEF DiscoveryTrue, Bye
<1>1. ASSUME NEW c \in up' \ out', listening', owed' = 0
      PROVE  said'[c] = "here" \/ c \in unsaid'
  BY <1>1 DEF AnnouncedRight
<1>2. ASSUME NEW c \in Fleet, said'[c] = "here"
      PROVE  c \in late' \/ (listening' /\ c \in up')
  <2>1. said[c] = "here" /\ ~(listening /\ c \in cs)
    BY <1>2
  <2>2. QED
    BY <2>1 DEF AnnouncedRight
<1>3. QED
  BY <1>1, <1>2 DEF AnnouncedRight

\* Answers that are sent by a running responder for cameras of its fleet.
LEMMA SendKeeps ==
  ASSUME DiscoveryTrue, NEW as \in SUBSET Answers, SendMatches(as),
         \A a \in as : listening /\ a.camera \in fleet,
         UNCHANGED <<fleet, up, out, listening, owed, unsaid>>
  PROVE  AnnouncedRight' /\ SendersFollow' /\ AnswersUsable'
<1> USE DEF DiscoveryTrue, SendMatches
<1>1. \A a \in as : a.camera \in Fleet /\ a.resolve \in BOOLEAN /\ a.second \in BOOLEAN
  BY DEF Answers
<1>2. AnnouncedRight'
  BY <1>1 DEF AnnouncedRight
<1>3. SendersFollow'
  BY <1>1 DEF SendersFollow
<1>4. AnswersUsable'
  <2>1. ASSUME NEW a \in as
        PROVE  /\ a.resolve /\ ~a.second => "own" \in ToSet(XAddrs(a.camera, a.resolve, a.second))
               /\ listening' /\ a.camera \in fleet'
    <3>1. CASE a.resolve /\ ~a.second
      <4>1. a.resolve = TRUE /\ a.second = FALSE
        BY <1>1, <3>1
      <4>2. QED
        BY <4>1, OwnAmongXAddrs
    <3>2. QED
      BY <3>1
  <2>2. ASSUME NEW b \in answer'
        PROVE  /\ b.match.resolve /\ ~b.match.second => "own" \in ToSet(b.xaddrs)
               /\ listening' /\ b.match.camera \in fleet'
    <3>1. PICK a \in as : b = [match |-> a, xaddrs |-> XAddrs(a.camera, a.resolve, a.second)]
      BY <2>2
    <3>2. b.match = a /\ b.xaddrs = XAddrs(a.camera, a.resolve, a.second)
      BY <3>1
    <3>3. QED
      BY <2>1, <3>2
  <2>3. QED
    BY <2>2 DEF AnswersUsable
<1>5. QED
  BY <1>2, <1>3, <1>4

-----------------------------------------------------------------------------
\* Nobody asked, nobody was told anything new.
LEMMA QuietKeeps ==
  ASSUME DiscoveryTrue, Silence,
         UNCHANGED <<fleet, unsaid>>,
         up' = up, out' = out,
         \/ listening' = listening /\ owed' = owed /\ senders' = senders
         \/ listening' = TRUE /\ ~listening /\ owed' = owed + 1 /\ senders' = senders
         \/ listening /\ ~listening' /\ up = {} /\ senders' = {} /\ owed' = owed
  PROVE  AnnouncedRight' /\ SendersFollow'
<1>1. owed \in Nat
  BY DEF DiscoveryTrue
<1>2. QED
  BY <1>1 DEF DiscoveryTrue, Silence, AnnouncedRight, SendersFollow

LEMMA CameraStepsKeep ==
  ASSUME DiscoveryTrue, NEW c \in Fleet,
         \/ Appears(c) \/ Leaves(c) \/ IsBack(c) \/ RemoveCamera(c)
         \/ \E bye \in BOOLEAN : DropsOut(c, bye)
         \/ \E qs \in QuirkSets : TwistQuirks(c, qs)
  PROVE  DiscoveryTrue'
<1> USE DEF DiscoveryTrue, Others
<1>1. CASE Appears(c)
  <2>1. AnnouncedRight' /\ SendersFollow'
    BY <1>1, HelloKeeps DEF Appears
  <2>2. QED
    BY <1>1, <2>1 DEF Appears, AnswersUsable
<1>2. CASE IsBack(c)
  <2>1. AnnouncedRight' /\ SendersFollow'
    BY <1>2, HelloKeeps DEF IsBack
  <2>2. QED
    BY <1>2, <2>1 DEF IsBack, AnswersUsable
<1>3. CASE Leaves(c)
  <2>1. AnnouncedRight'
    BY <1>3, ByeKeeps DEF Leaves
  <2>2. SendersFollow'
    BY <1>3 DEF Leaves, SenderFor, SendersFollow
  <2>3. QED
    BY <1>3, <2>1, <2>2 DEF Leaves, AnswersUsable
<1>4. CASE RemoveCamera(c)
  <2>1. AnnouncedRight'
    <3>1. CASE c \in up
      BY <1>4, <3>1, ByeKeeps DEF RemoveCamera
    <3>2. CASE c \notin up
      BY <1>4, <3>2 DEF RemoveCamera, Silence, AnnouncedRight
    <3>3. QED
      BY <3>1, <3>2
  <2>2. SendersFollow'
    BY <1>4 DEF RemoveCamera, SendersFollow
  <2>3. QED
    BY <1>4, <2>1, <2>2 DEF RemoveCamera, AnswersUsable
<1>5. ASSUME NEW bye \in BOOLEAN, DropsOut(c, bye) PROVE DiscoveryTrue'
  <2>1. AnnouncedRight'
    <3>1. CASE bye
      BY <1>5, <3>1, ByeKeeps DEF DropsOut
    <3>2. CASE ~bye
      BY <1>5, <3>2 DEF DropsOut, Silence, AnnouncedRight
    <3>3. QED
      BY <3>1, <3>2
  <2>2. SendersFollow'
    BY <1>5 DEF DropsOut, SenderFor, SendersFollow
  <2>3. QED
    BY <1>5, <2>1, <2>2 DEF DropsOut, AnswersUsable
<1>6. ASSUME NEW qs \in QuirkSets, TwistQuirks(c, qs) PROVE DiscoveryTrue'
  <2>1. AnnouncedRight' /\ SendersFollow'
    BY <1>6, QuietKeeps DEF TwistQuirks
  <2>2. QED
    BY <1>6, <2>1 DEF TwistQuirks, AnswersUsable
<1>7. QED
  BY <1>1, <1>2, <1>3, <1>4, <1>5, <1>6

LEMMA ResponderStepsKeep ==
  ASSUME DiscoveryTrue, StartDiscovery \/ AnnounceAllHello \/ StopDiscovery
  PROVE  DiscoveryTrue'
<1> USE DEF DiscoveryTrue
<1>1. CASE StartDiscovery
  <2>1. AnnouncedRight' /\ SendersFollow'
    BY <1>1, QuietKeeps DEF StartDiscovery
  <2>2. QED
    BY <1>1, <2>1 DEF StartDiscovery, AnswersUsable
<1>2. CASE AnnounceAllHello
  <2>1. Hello(up \ out) /\ UNCHANGED <<fleet, up, out, twists, listening, pending>>
    BY <1>2 DEF AnnounceAllHello
  <2>2. AnnouncedRight' /\ SendersFollow'
    BY <2>1, HelloKeeps
  <2>3. QED
    BY <1>2, <2>2 DEF AnnounceAllHello, AnswersUsable
<1>3. CASE StopDiscovery
  <2>1. Bye(up) /\ listening /\ listening' = FALSE /\ senders' = {} /\ Others
        /\ UNCHANGED <<fleet, up, out, twists, unsaid>>
    BY <1>3 DEF StopDiscovery
  <2>2. AnnouncedRight'
    BY <2>1, ByeKeeps DEF Others
  <2>3. QED
    BY <2>1, <2>2 DEF Others, SendersFollow, AnswersUsable
<1>4. QED
  BY <1>1, <1>2, <1>3

LEMMA HandleKeeps ==
  ASSUME DiscoveryTrue, NEW m \in Requests, HandleDatagram(m)
  PROVE  DiscoveryTrue'
<1> USE DEF DiscoveryTrue
<1> DEFINE talking == {c \in Meant(m) : "no_reply" \notin twists[c]}
           waiting == {c \in talking : "reply_delay" \in twists[c]}
           again == {c \in talking \ waiting : "reply_twice" \in twists[c]}
           as == {Match(c, m, FALSE) : c \in talking \ waiting}
           first == SetToSeq({Match(c, m, FALSE) : c \in waiting})
           second == SetToSeq({Match(c, m, TRUE) : c \in again})
<1>1. /\ listening
      /\ pending' = pending \o first \o second
      /\ SendMatches(as)
      /\ UNCHANGED <<fleet, up, out, twists, listening, owed, unsaid>>
  BY DEF HandleDatagram
<1>2. talking \subseteq up
  BY DEF Meant
<1>3. first \in Seq(Answers) /\ second \in Seq(Answers)
  BY <1>2, WaitingAnswers
<1>4. as \subseteq Answers /\ \A a \in as : a.camera \in up
  <2>1. (m.kind = "resolve") \in BOOLEAN
    OBVIOUS
  <2>2. \A c \in talking : Match(c, m, FALSE) \in Answers /\ Match(c, m, FALSE).camera = c
    BY <1>2, <2>1 DEF Match, Answers
  <2>3. QED
    BY <1>2, <2>2
<1> HIDE DEF as, first, second, talking
<1>5. AnnouncedRight' /\ SendersFollow' /\ AnswersUsable'
  BY <1>1, <1>4, SendKeeps
<1>6. pending' \in Seq(Answers)
  <2>1. pending \o first \in Seq(Answers)
    BY <1>3, ConcatProperties
  <2>2. QED
    BY <1>1, <1>3, <2>1, ConcatProperties
<1>7. QED
  BY <1>1, <1>5, <1>6

LEMMA FireKeeps ==
  ASSUME DiscoveryTrue, NEW i \in DOMAIN pending, Fire(i)
  PROVE  DiscoveryTrue'
<1> USE DEF DiscoveryTrue
<1> DEFINE a == pending[i]
           sent == listening /\ a.camera \in fleet
           again == sent /\ ~a.second /\ "reply_twice" \in twists[a.camera]
           rest == RemoveAt(pending, i)
           more == IF again THEN <<[a EXCEPT !.second = TRUE]>> ELSE <<>>
           as == IF sent THEN {a} ELSE {}
<1>1. /\ pending' = rest \o more
      /\ SendMatches(as)
      /\ UNCHANGED <<fleet, up, out, twists, listening, owed, unsaid>>
  BY DEF Fire
<1>2. i \in 1 .. Len(pending) /\ a \in Answers
  BY ElementOfSeq, LenProperties
<1>3. rest \in Seq(Answers)
  <2>1. SubSeq(pending, 1, i - 1) \in Seq(Answers)
    BY <1>2, SubSeqProperties
  <2>2. SubSeq(pending, i + 1, Len(pending)) \in Seq(Answers)
    BY <1>2, SubSeqProperties
  <2>3. QED
    BY <2>1, <2>2, ConcatProperties DEF RemoveAt
<1>4. more \in Seq(Answers)
  <2>1. [a EXCEPT !.second = TRUE] \in Answers
    BY <1>2 DEF Answers
  <2>2. QED
    BY <2>1
<1>5. as \subseteq Answers /\ \A b \in as : listening /\ b.camera \in fleet
  BY <1>2
<1> HIDE DEF as, rest, more
<1>6. AnnouncedRight' /\ SendersFollow' /\ AnswersUsable'
  BY <1>1, <1>5, SendKeeps
<1>7. pending' \in Seq(Answers)
  BY <1>1, <1>3, <1>4, ConcatProperties
<1>8. QED
  BY <1>1, <1>6, <1>7

LEMMA NextTrue == DiscoveryTrue /\ [DiscoveryNext]_discoveryVars => DiscoveryTrue'
<1> SUFFICES ASSUME DiscoveryTrue, [DiscoveryNext]_discoveryVars PROVE DiscoveryTrue'
  OBVIOUS
<1>1. CASE UNCHANGED discoveryVars
  BY <1>1 DEF discoveryVars, DiscoveryTrue, AnnouncedRight, SendersFollow, AnswersUsable
<1>2. CASE DiscoveryNext
  BY <1>2, CameraStepsKeep, ResponderStepsKeep, HandleKeeps, FireKeeps DEF DiscoveryNext
<1>3. QED
  BY <1>1, <1>2

\* For any fleet, any scopes and quirks and any number of waiting answers: what
\* clients were last told of each camera is so, reply sockets belong to cameras
\* there are, and a Resolve is answered with an address that leads to the camera
\* (DiscoveryResponder::start, stop, handleDatagram, respond).
THEOREM DiscoveryStaysTrue == DiscoverySpec => []DiscoveryTrue
BY InitTrue, NextTrue, PTL DEF DiscoverySpec

-----------------------------------------------------------------------------
(* CameraLifecycle.                                                        *)

USE CameraLifecycleAssumption

\* What the invariant rests on.  A listener of a camera that runs either listens
\* or will be resumed, on the port of the model, and so does every listener of a
\* subscription; a subscription's port has a listener; what is up and has not
\* been botched has all its listeners open, and what is stopped has none left;
\* and the stub has been asked for its routes only if it laid them once.
Awake(l) == l.open \/ l.suspended
Resumable ==
  /\ running => /\ Awake(http) /\ http.port = model.http
                /\ Awake(rtsp) /\ rtsp.port = model.rtsp
  /\ \A p \in DOMAIN servers : Awake(servers[p])
  /\ owned \subseteq DOMAIN servers
  /\ running /\ ~offline /\ ~botched => DOMAIN servers \subseteq Served
  /\ ~running /\ ~botched => DOMAIN servers = {} /\ owned = {}
  /\ asked => added

CameraInv == ListenersFollow /\ Resumable

-----------------------------------------------------------------------------
\* The three things that may happen to a listener.
LEMMA ListenerChanges ==
  ASSUME NEW l \in Listener
  PROVE  /\ Closed(l) \in Listener /\ ~Closed(l).open
         /\ Closed(l).port = l.port /\ Closed(l).suspended = l.suspended
         /\ Suspended(l) \in Listener /\ ~Suspended(l).open
         /\ Suspended(l).port = l.port /\ Suspended(l).suspended
BY DEF Listener, Closed, Suspended

LEMMA OpenListener ==
  ASSUME NEW p \in Ports \cup {0}
  PROVE  Open(p) \in Listener /\ Open(p).open /\ Open(p).port = p /\ ~Open(p).suspended
BY DEF Listener, Open

\* A listener that tries to resume keeps its port, and listens unless it stays
\* suspended.
LEMMA ResumedListener ==
  ASSUME NEW l \in Listener, NEW own
  PROVE  /\ Resumed(l, own) \in Listener
         /\ Resumed(l, own).port = l.port
         /\ Resumed(l, own).suspended => l.suspended
         /\ Awake(l) => Awake(Resumed(l, own))
         /\ ~Resumed(l, own).suspended /\ Awake(l) => Resumed(l, own).open
<1>1. l.port \in Ports \cup {0}
  BY DEF Listener
<1>2. CASE ~l.suspended
  BY <1>2 DEF Resumed, Awake
<1>3. CASE l.suspended /\ Free(l.port, own)
  BY <1>1, <1>3, OpenListener DEF Resumed, Awake
<1>4. CASE l.suspended /\ ~Free(l.port, own)
  BY <1>4, ListenerChanges DEF Resumed, Awake
<1>5. QED
  BY <1>2, <1>3, <1>4 DEF Listener

\* Binding succeeds on both ports or leaves both closed.
LEMMA BindProperties ==
  ASSUME NEW m \in Models, NEW h \in Listener, NEW r \in Listener, NEW own, NEW ok \in BOOLEAN,
         Bind(m, h, r, own, ok)
  PROVE  /\ http' \in Listener /\ rtsp' \in Listener
         /\ ok => /\ http'.open /\ http'.port = m.http
                  /\ rtsp'.open /\ rtsp'.port = m.rtsp
         /\ ~ok /\ ~r.open => ~http'.open /\ ~rtsp'.open
<1>1. m.http \in Ports /\ m.rtsp \in Ports
  BY DEF Models, Ports
<1>2. /\ Open(m.http) \in Listener /\ Open(m.http).open /\ Open(m.http).port = m.http
      /\ Open(m.rtsp) \in Listener /\ Open(m.rtsp).open /\ Open(m.rtsp).port = m.rtsp
  BY <1>1, OpenListener
<1>3. /\ Closed(h) \in Listener /\ ~Closed(h).open
      /\ Closed(r) \in Listener /\ ~Closed(r).open
      /\ Closed(Open(m.http)) \in Listener /\ ~Closed(Open(m.http)).open
  BY <1>2, ListenerChanges
<1>4. QED
  BY <1>2, <1>3 DEF Bind

\* The VIGI listener moves to a private port or to none.
LEMMA StartPrivateType ==
  ASSUME TypeOK, NEW on \in BOOLEAN, StartPrivate(on)
  PROVE  private' \in PrivatePorts \cup {0}
BY DEF StartPrivate, PrivatePort, PrivatePorts

LEMMA RegisterProperties ==
  ASSUME TypeOK, asked => added, NEW before \in BOOLEAN, RegisterVendorRoutes(before),
         before => asked
  PROVE  /\ private' \in PrivatePorts \cup {0}
         /\ asked' \in BOOLEAN /\ added' \in BOOLEAN
         /\ asked' => added'
         /\ added => added'
         /\ before => asked'
         /\ stub # "none" => asked' /\ added'
<1>1. tls \in BOOLEAN
  BY DEF TypeOK
<1>2. CASE stub = "none" \/ before
  BY <1>2 DEF RegisterVendorRoutes, TypeOK
<1>3. CASE ~(stub = "none" \/ before)
  BY <1>1, <1>3, StartPrivateType DEF RegisterVendorRoutes, TypeOK
<1>4. QED
  BY <1>2, <1>3

-----------------------------------------------------------------------------
LEMMA CameraInvInit == Init => CameraInv
<1> SUFFICES ASSUME Init PROVE CameraInv
  OBVIOUS
<1>1. DOMAIN servers = {}
  BY DEF Init, NoServers
<1>2. TypeOK
  <2>1. model \in Models
    BY DEF Init
  <2>2. http \in Listener /\ rtsp \in Listener
    BY DEF Init, Listener
  <2>3. reboots \in 0 .. MaxOutages /\ outages \in 0 .. MaxOutages
    BY DEF Init
  <2>4. QED
    BY <1>1, <2>1, <2>2, <2>3 DEF Init, TypeOK
<1>3. Served = {}
  BY <1>1 DEF Served
<1>4. QED
  BY <1>1, <1>2, <1>3 DEF Init, CameraInv, Resumable, ListenersFollow, UpMeansListening,
     OwnPortsServed, StoppedIsClosed, OutageIsSilent, PrivateFollows, AnnouncementsTrue

\* What the types say of the listeners, in the form the steps below use it.
LEMMA ListenersTyped ==
  ASSUME TypeOK
  PROVE  /\ http \in Listener /\ rtsp \in Listener /\ model \in Models
         /\ \A p \in DOMAIN servers : servers[p] \in Listener
BY DEF TypeOK

LEMMA StartKeeps == CameraInv /\ Start => CameraInv'
<1> SUFFICES ASSUME CameraInv, Start PROVE CameraInv'
  OBVIOUS
<1> USE DEF CameraInv, ListenersFollow, Resumable
<1>1. /\ ~running
      /\ UNCHANGED <<timer, reboots, model, servers, owned, taken, outages, botched>>
  BY DEF Start
<1>2. Served' = Served
  BY <1>1 DEF Served
<1>3. CASE /\ Bind(model, http, rtsp, Served \cup InUse(rtsp), TRUE)
           /\ running' = TRUE /\ offline' = FALSE
           /\ RegisterVendorRoutes(asked)
           /\ routed' = (routed \/ (asked' /\ ~added))
           /\ UNCHANGED <<stub, tls, stray>>
           /\ announced' = "hello"
  <2>1. /\ http' \in Listener /\ rtsp' \in Listener
        /\ http'.open /\ http'.port = model.http
        /\ rtsp'.open /\ rtsp'.port = model.rtsp
    BY <1>3, ListenersTyped, BindProperties
  <2>2. asked \in BOOLEAN
    BY DEF TypeOK
  <2>3. /\ private' \in PrivatePorts \cup {0}
        /\ asked' \in BOOLEAN /\ added' \in BOOLEAN
        /\ asked' => added'
        /\ added => added'
        /\ asked => asked'
        /\ stub # "none" => asked' /\ added'
    BY <1>3, <2>2, RegisterProperties
  <2>4. routed' => asked' /\ added'
    BY <1>3, <2>3 DEF PrivateFollows
  <2>5. TypeOK'
    BY <1>1, <1>3, <2>1, <2>3 DEF TypeOK
  <2>6. Resumable'
    BY <1>1, <1>2, <1>3, <2>1, <2>3 DEF Awake
  <2>7. UpMeansListening' /\ OwnPortsServed' /\ StoppedIsClosed'
    BY <1>1, <1>2, <1>3, <2>1 DEF UpMeansListening, OwnPortsServed, StoppedIsClosed
  <2>8. OutageIsSilent'
    BY <1>1 DEF StoppedIsClosed, OutageIsSilent
  <2>9. PrivateFollows' /\ AnnouncementsTrue'
    BY <1>3, <2>3, <2>4 DEF PrivateFollows, AnnouncementsTrue
  <2>10. QED
    BY <2>5, <2>6, <2>7, <2>8, <2>9
<1>4. CASE /\ Bind(model, http, rtsp, Served \cup InUse(rtsp), FALSE)
           /\ UNCHANGED <<running, offline, vendor, announced>>
  <2>1. /\ http' \in Listener /\ rtsp' \in Listener
        /\ ~rtsp.open => ~http'.open /\ ~rtsp'.open
    BY <1>4, ListenersTyped, BindProperties
  <2>2. TypeOK'
    BY <1>1, <1>4, <2>1 DEF TypeOK, vendor
  <2>3. Resumable'
    BY <1>1, <1>2, <1>4 DEF vendor
  <2>4. UpMeansListening' /\ OwnPortsServed' /\ StoppedIsClosed'
    BY <1>1, <1>2, <1>4, <2>1 DEF UpMeansListening, OwnPortsServed, StoppedIsClosed
  <2>5. OutageIsSilent'
    BY <1>1 DEF StoppedIsClosed, OutageIsSilent
  <2>6. PrivateFollows' /\ AnnouncementsTrue'
    BY <1>1, <1>4 DEF PrivateFollows, AnnouncementsTrue, vendor
  <2>7. QED
    BY <2>2, <2>3, <2>4, <2>5, <2>6
<1>5. QED
  BY <1>3, <1>4 DEF Start

LEMMA StopKeeps == CameraInv /\ Stop => CameraInv'
<1> SUFFICES ASSUME CameraInv, Stop PROVE CameraInv'
  OBVIOUS
<1> USE DEF CameraInv, ListenersFollow, Resumable, Stop
<1>1. /\ http' \in Listener /\ ~http'.open
      /\ rtsp' \in Listener /\ ~rtsp'.open
  BY ListenersTyped, ListenerChanges
<1>2. DOMAIN servers' = {} /\ owned' = {} /\ Served' = {}
  BY DEF NoServers, Served
<1>3. TypeOK'
  BY <1>1, <1>2 DEF TypeOK, StopPrivate
<1>4. Resumable'
  BY <1>2 DEF StopPrivate
<1>5. UpMeansListening' /\ OwnPortsServed' /\ StoppedIsClosed' /\ OutageIsSilent'
  BY <1>1, <1>2 DEF UpMeansListening, OwnPortsServed, StoppedIsClosed, OutageIsSilent
<1>6. PrivateFollows' /\ AnnouncementsTrue'
  BY DEF PrivateFollows, AnnouncementsTrue, StopPrivate
<1>7. QED
  BY <1>3, <1>4, <1>5, <1>6

\* An outage begins, from wherever it comes.
LEMMA GoOfflineKeeps ==
  ASSUME CameraInv, running, NEW bye \in BOOLEAN, GoOffline(bye), reboots' \in 0 .. MaxOutages
  PROVE  CameraInv'
<1> USE DEF CameraInv, ListenersFollow, Resumable, GoOffline
<1>1. /\ http' \in Listener /\ ~http'.open /\ http'.suspended /\ http'.port = http.port
      /\ rtsp' \in Listener /\ ~rtsp'.open /\ rtsp'.suspended /\ rtsp'.port = rtsp.port
  BY ListenersTyped, ListenerChanges
<1>2. /\ DOMAIN servers' = DOMAIN servers
      /\ \A p \in DOMAIN servers :
           /\ servers'[p] \in Listener /\ ~servers'[p].open
           /\ servers'[p].suspended /\ servers'[p].port = servers[p].port
  BY ListenersTyped, ListenerChanges
<1>3. Served' = {}
  BY <1>2 DEF Served
<1>4. outages' \in 0 .. MaxOutages
  BY DEF TypeOK
<1>5. TypeOK'
  BY <1>1, <1>2, <1>4 DEF TypeOK, StopPrivate
<1>6. Resumable'
  BY <1>1, <1>2 DEF Awake, StopPrivate
<1>7. UpMeansListening' /\ OwnPortsServed' /\ StoppedIsClosed' /\ OutageIsSilent'
  BY <1>1, <1>3 DEF UpMeansListening, OwnPortsServed, StoppedIsClosed, OutageIsSilent
<1>8. PrivateFollows' /\ AnnouncementsTrue'
  BY DEF PrivateFollows, AnnouncementsTrue, StopPrivate
<1>9. QED
  BY <1>5, <1>6, <1>7, <1>8

LEMMA OutageKeeps == ASSUME NEW bye \in BOOLEAN PROVE CameraInv /\ Outage(bye) => CameraInv'
BY GoOfflineKeeps DEF Outage, CameraInv, ListenersFollow, TypeOK

\* A step that changes none of what the invariant reads.
LEMMA SameListeners ==
  ASSUME CameraInv, reboots' \in 0 .. MaxOutages,
         UNCHANGED <<running, offline, timer, model, http, rtsp, servers, owned,
                     taken, outages, vendor, announced, botched>>
  PROVE  CameraInv'
<1>1. Served' = Served
  BY DEF Served
<1>2. TypeOK'
  BY DEF CameraInv, ListenersFollow, TypeOK, vendor
<1>3. Resumable'
  BY <1>1 DEF CameraInv, Resumable, vendor
<1>4. QED
  BY <1>1, <1>2, <1>3 DEF CameraInv, ListenersFollow, UpMeansListening, OwnPortsServed,
     StoppedIsClosed, OutageIsSilent, PrivateFollows, AnnouncementsTrue, vendor

LEMMA RebootsKeep == CameraInv /\ (SystemReboot \/ RebootFires) => CameraInv'
<1>1. CameraInv /\ SystemReboot => CameraInv'
  BY SameListeners DEF SystemReboot, CameraInv, ListenersFollow, TypeOK
<1>2. ASSUME CameraInv, RebootFires PROVE CameraInv'
  <2>1. reboots' \in 0 .. MaxOutages
    BY <1>2 DEF RebootFires, CameraInv, ListenersFollow, TypeOK
  <2>2. QED
    BY <1>2, <2>1, SameListeners, GoOfflineKeeps DEF RebootFires
<1>3. QED
  BY <1>1, <1>2

\* The end of an outage: what did not come back keeps the camera offline.
LEMMA OutageEndsKeeps == CameraInv /\ OutageEnds => CameraInv'
<1> SUFFICES ASSUME CameraInv, OutageEnds PROVE CameraInv'
  OBVIOUS
<1> USE DEF CameraInv, ListenersFollow, Resumable
<1> DEFINE h == Resumed(http, InUse(rtsp) \cup Served)
           r == Resumed(rtsp, InUse(h) \cup Served)
           s == [p \in DOMAIN servers |-> Resumed(servers[p], InUse(h) \cup InUse(r))]
           back == ~h.suspended /\ ~r.suspended /\ \A p \in DOMAIN s : ~s[p].suspended
<1>1. /\ timer /\ timer' = FALSE
      /\ http' = h /\ rtsp' = r /\ servers' = s
      /\ offline' = ~back
      /\ IF back /\ stub = "vigi" THEN StartPrivate(tls) ELSE UNCHANGED private
      /\ UNCHANGED <<stub, asked, added, routed, tls, stray>>
      /\ announced' = IF back THEN "hello" ELSE announced
      /\ UNCHANGED <<running, reboots, model, owned, taken, outages, botched>>
  BY DEF OutageEnds
<1>2. /\ h \in Listener /\ h.port = http.port
      /\ Awake(http) => Awake(h)
      /\ ~h.suspended /\ Awake(http) => h.open
  BY ListenersTyped, ResumedListener
<1>3. /\ r \in Listener /\ r.port = rtsp.port
      /\ Awake(rtsp) => Awake(r)
      /\ ~r.suspended /\ Awake(rtsp) => r.open
  BY ListenersTyped, ResumedListener
<1>4. /\ DOMAIN s = DOMAIN servers
      /\ \A p \in DOMAIN servers :
           /\ s[p] \in Listener /\ s[p].port = servers[p].port
           /\ Awake(s[p])
           /\ ~s[p].suspended => s[p].open
  <2>1. \A p \in DOMAIN servers : servers[p] \in Listener /\ Awake(servers[p])
    BY ListenersTyped
  <2>2. QED
    BY <2>1, ResumedListener
<1> HIDE DEF h, r, s
<1>5. private' \in PrivatePorts \cup {0}
  BY <1>1, StartPrivateType DEF TypeOK
<1>6. TypeOK'
  BY <1>1, <1>2, <1>3, <1>4, <1>5 DEF TypeOK
<1>7. ~botched => running /\ offline
  BY <1>1 DEF OutageIsSilent
<1>8. back => DOMAIN servers' \subseteq Served'
  BY <1>1, <1>4 DEF Served
<1>9. Resumable'
  BY <1>1, <1>2, <1>3, <1>4, <1>7, <1>8
<1>10. UpMeansListening'
  BY <1>1, <1>2, <1>3 DEF UpMeansListening
<1>11. OwnPortsServed' /\ StoppedIsClosed' /\ OutageIsSilent'
  BY <1>1, <1>4, <1>7, <1>8 DEF OwnPortsServed, StoppedIsClosed, OutageIsSilent
<1>12. PrivateFollows' /\ AnnouncementsTrue'
  BY <1>1, <1>7 DEF PrivateFollows, AnnouncementsTrue
<1>13. QED
  BY <1>6, <1>9, <1>10, <1>11, <1>12

\* Laying the services anew asks a running camera's stub for its routes.
LEMMA SetupProperties ==
  ASSUME CameraInv, SetupServices
  PROVE  /\ private' \in PrivatePorts \cup {0}
         /\ asked' \in BOOLEAN /\ added' \in BOOLEAN
         /\ routed' \in BOOLEAN /\ stray' \in BOOLEAN
         /\ asked' => added'
         /\ routed' => asked' /\ added'
         /\ running /\ stub # "none" => asked' /\ added'
         /\ private' # 0 => stray' \/ (~offline /\ (~running => private' = private))
         /\ stray => stray'
         /\ UNCHANGED <<stub, tls>>
<1> USE DEF CameraInv, ListenersFollow, Resumable
<1>0. /\ routed' = (asked' /\ ~added)
      /\ stray' = (stray \/ (private' # 0 /\ offline))
      /\ UNCHANGED <<stub, tls>>
  BY DEF SetupServices
<1>1. CASE running
  <2>1. RegisterVendorRoutes(FALSE)
    BY <1>1 DEF SetupServices
  <2>2. /\ private' \in PrivatePorts \cup {0}
        /\ asked' \in BOOLEAN /\ added' \in BOOLEAN
        /\ asked' => added'
        /\ stub # "none" => asked' /\ added'
    BY <2>1, RegisterProperties
  <2>3. QED
    BY <1>0, <1>1, <2>2 DEF TypeOK
<1>2. CASE ~running
  <2>1. asked' = FALSE /\ UNCHANGED <<added, private>>
    BY <1>2 DEF SetupServices
  <2>2. QED
    BY <1>0, <1>2, <2>1 DEF TypeOK
<1>3. QED
  BY <1>1, <1>2 DEF TypeOK

LEMMA ApplyKeeps ==
  ASSUME NEW m \in Models, NEW moved \in BOOLEAN
  PROVE  CameraInv /\ ApplyModelChanges(m, moved) => CameraInv'
<1> SUFFICES ASSUME CameraInv, ApplyModelChanges(m, moved) PROVE CameraInv'
  OBVIOUS
<1> USE DEF CameraInv, ListenersFollow, Resumable
<1>1. /\ model' = m
      /\ UNCHANGED <<offline, timer, reboots, servers, owned, taken, outages, announced>>
  BY DEF ApplyModelChanges
<1>2. /\ private' \in PrivatePorts \cup {0}
      /\ asked' \in BOOLEAN /\ added' \in BOOLEAN
      /\ routed' \in BOOLEAN /\ stray' \in BOOLEAN
      /\ asked' => added'
      /\ routed' => asked' /\ added'
      /\ running /\ stub # "none" => asked' /\ added'
      /\ private' # 0 => stray' \/ (~offline /\ (~running => private' = private))
      /\ stray => stray'
      /\ UNCHANGED <<stub, tls>>
  BY SetupProperties DEF ApplyModelChanges
<1>3. Served' = Served
  BY <1>1 DEF Served
<1>4. CASE running /\ (moved \/ http.port # m.http \/ rtsp.port # m.rtsp)
  <2>0. /\ Closed(http) \in Listener /\ Closed(rtsp) \in Listener /\ ~Closed(rtsp).open
    BY ListenersTyped, ListenerChanges
  <2>1. CASE /\ Bind(m, Closed(http), Closed(rtsp), Served, TRUE)
             /\ UNCHANGED running
             /\ botched' = (botched \/ offline)
    <3>1. /\ http' \in Listener /\ rtsp' \in Listener
          /\ http'.open /\ http'.port = m.http
          /\ rtsp'.open /\ rtsp'.port = m.rtsp
      BY <2>0, <2>1, BindProperties
    <3>2. TypeOK'
      BY <1>1, <1>2, <2>1, <3>1 DEF TypeOK
    <3>3. Resumable'
      BY <1>1, <1>2, <1>3, <1>4, <2>1, <3>1 DEF Awake
    <3>4. /\ UpMeansListening' /\ OwnPortsServed' /\ StoppedIsClosed' /\ OutageIsSilent'
      BY <1>1, <1>3, <1>4, <2>1, <3>1
         DEF UpMeansListening, OwnPortsServed, StoppedIsClosed, OutageIsSilent
    <3>5. PrivateFollows' /\ AnnouncementsTrue'
      BY <1>1, <1>2, <1>4, <2>1 DEF PrivateFollows, AnnouncementsTrue
    <3>6. QED
      BY <3>2, <3>3, <3>4, <3>5
  <2>2. CASE /\ Bind(m, Closed(http), Closed(rtsp), Served, FALSE)
             /\ running' = FALSE
             /\ botched' = TRUE
    <3>1. http' \in Listener /\ rtsp' \in Listener
      BY <2>0, <2>2, BindProperties
    <3>2. TypeOK'
      BY <1>1, <1>2, <2>2, <3>1 DEF TypeOK
    <3>3. Resumable'
      BY <1>1, <1>2, <2>2
    <3>4. /\ UpMeansListening' /\ OwnPortsServed' /\ StoppedIsClosed' /\ OutageIsSilent'
      BY <2>2 DEF UpMeansListening, OwnPortsServed, StoppedIsClosed, OutageIsSilent
    <3>5. PrivateFollows' /\ AnnouncementsTrue'
      BY <1>2, <2>2 DEF PrivateFollows, AnnouncementsTrue
    <3>6. QED
      BY <3>2, <3>3, <3>4, <3>5
  <2>3. QED
    BY <1>4, <2>1, <2>2 DEF ApplyModelChanges, RestartListeners
<1>5. CASE ~(running /\ (moved \/ http.port # m.http \/ rtsp.port # m.rtsp))
  <2>1. UNCHANGED <<running, http, rtsp, botched>>
    BY <1>5 DEF ApplyModelChanges
  <2>2. TypeOK'
    BY <1>1, <1>2, <2>1 DEF TypeOK
  <2>3. Resumable'
    BY <1>1, <1>2, <1>3, <1>5, <2>1
  <2>4. /\ UpMeansListening' /\ OwnPortsServed' /\ StoppedIsClosed' /\ OutageIsSilent'
    BY <1>1, <1>3, <1>5, <2>1
       DEF UpMeansListening, OwnPortsServed, StoppedIsClosed, OutageIsSilent
  <2>5. PrivateFollows' /\ AnnouncementsTrue'
    BY <1>1, <1>2, <2>1 DEF PrivateFollows, AnnouncementsTrue
  <2>6. QED
    BY <2>2, <2>3, <2>4, <2>5
<1>6. QED
  BY <1>4, <1>5

-----------------------------------------------------------------------------
\* A step on the subscriptions' listeners alone, while the main one listens, that
\* adds open listeners at most and forgets none a subscription needs.
LEMMA ServersGrow ==
  ASSUME CameraInv, http.open,
         UNCHANGED <<running, offline, timer, reboots, model, http, rtsp, taken,
                     outages, vendor, announced, botched>>,
         DOMAIN servers' \subseteq SubPorts,
         DOMAIN servers \subseteq DOMAIN servers',
         \A p \in DOMAIN servers : servers'[p] = servers[p],
         \A p \in DOMAIN servers' \ DOMAIN servers : servers'[p] = Open(p),
         owned' \subseteq DOMAIN servers'
  PROVE  CameraInv'
<1> USE DEF CameraInv, ListenersFollow, Resumable
<1>1. \A p \in DOMAIN servers' \ DOMAIN servers :
        servers'[p] \in Listener /\ servers'[p].open /\ servers'[p].port = p
  BY OpenListener DEF Ports
<1>2. TypeOK'
  BY <1>1 DEF TypeOK, vendor
<1>3. ~botched => running /\ ~timer
  BY DEF StoppedIsClosed, OutageIsSilent
<1>4. running /\ ~offline /\ ~botched => DOMAIN servers' \subseteq Served'
  BY <1>1 DEF Served
<1>5. Resumable'
  BY <1>1, <1>3, <1>4 DEF Awake, vendor
<1>6. UpMeansListening' /\ OwnPortsServed' /\ StoppedIsClosed' /\ OutageIsSilent'
  BY <1>3, <1>4 DEF UpMeansListening, OwnPortsServed, StoppedIsClosed, OutageIsSilent, vendor
<1>7. PrivateFollows' /\ AnnouncementsTrue'
  BY DEF PrivateFollows, AnnouncementsTrue, vendor
<1>8. QED
  BY <1>2, <1>5, <1>6, <1>7

LEMMA SubscribeKeeps == ASSUME NEW p \in SubPorts PROVE CameraInv /\ Subscribe(p) => CameraInv'
<1> SUFFICES ASSUME CameraInv, Subscribe(p) PROVE CameraInv'
  OBVIOUS
<1>1. /\ DOMAIN servers \subseteq SubPorts
      /\ owned \subseteq DOMAIN servers
  BY DEF CameraInv, ListenersFollow, TypeOK, Resumable
<1>2. CASE UNCHANGED servers /\ owned' \subseteq owned \cup (DOMAIN servers \cap {p})
  BY <1>1, <1>2, ServersGrow DEF Subscribe
<1>3. CASE /\ p \notin DOMAIN servers \cup InUse(http)
           /\ servers' = [q \in DOMAIN servers \cup {p} |-> IF q = p THEN Open(p) ELSE servers[q]]
           /\ owned' = owned \cup {p}
  BY <1>1, <1>3, ServersGrow DEF Subscribe
<1>4. QED
  BY <1>2, <1>3 DEF Subscribe

\* The last subscription on a port ends.
LEMMA SubscriptionEndsKeeps ==
  ASSUME NEW p \in SubPorts PROVE CameraInv /\ SubscriptionEnds(p) => CameraInv'
<1> SUFFICES ASSUME CameraInv, SubscriptionEnds(p) PROVE CameraInv'
  OBVIOUS
<1> USE DEF CameraInv, ListenersFollow, Resumable, SubscriptionEnds
<1>1. Served' = Served
  BY DEF Served
<1>2. TypeOK'
  BY DEF TypeOK, vendor
<1>3. Resumable'
  BY <1>1 DEF vendor
<1>4. QED
  BY <1>1, <1>2, <1>3 DEF UpMeansListening, OwnPortsServed, StoppedIsClosed,
     OutageIsSilent, PrivateFollows, AnnouncementsTrue, vendor

LEMMA SetQuirksKeeps == ASSUME NEW on \in BOOLEAN PROVE CameraInv /\ SetQuirks(on) => CameraInv'
<1> SUFFICES ASSUME CameraInv, SetQuirks(on) PROVE CameraInv'
  OBVIOUS
<1> USE DEF CameraInv, ListenersFollow, Resumable, SetQuirks
<1>1. Served' = Served
  BY DEF Served
<1>2. /\ private' \in PrivatePorts \cup {0} /\ stray' \in BOOLEAN
      /\ private' # 0 => stray' \/ (running /\ ~offline) \/ private' = private
      /\ stray => stray'
  BY StartPrivateType DEF TypeOK
<1>3. TypeOK'
  BY <1>2 DEF TypeOK
<1>4. Resumable'
  BY <1>1
<1>5. UpMeansListening' /\ OwnPortsServed' /\ StoppedIsClosed' /\ OutageIsSilent'
  BY <1>1 DEF UpMeansListening, OwnPortsServed, StoppedIsClosed, OutageIsSilent
<1>6. PrivateFollows' /\ AnnouncementsTrue'
  BY <1>2 DEF PrivateFollows, AnnouncementsTrue
<1>7. QED
  BY <1>3, <1>4, <1>5, <1>6

LEMMA OthersKeep ==
  ASSUME NEW p \in Contested PROVE CameraInv /\ (OthersTake(p) \/ OthersRelease(p)) => CameraInv'
<1> SUFFICES ASSUME CameraInv, OthersTake(p) \/ OthersRelease(p) PROVE CameraInv'
  OBVIOUS
<1> USE DEF CameraInv, ListenersFollow, Resumable
<1>1. /\ UNCHANGED <<running, offline, timer, reboots, model, http, rtsp, servers, owned,
                     outages, vendor, announced, botched>>
      /\ taken' \subseteq taken \cup {p}
  BY DEF OthersTake, OthersRelease
<1>2. Served' = Served
  BY <1>1 DEF Served
<1>3. TypeOK'
  BY <1>1 DEF TypeOK, vendor
<1>4. Resumable'
  BY <1>1, <1>2 DEF vendor
<1>5. QED
  BY <1>1, <1>2, <1>3, <1>4 DEF UpMeansListening, OwnPortsServed, StoppedIsClosed,
     OutageIsSilent, PrivateFollows, AnnouncementsTrue, vendor

LEMMA CameraInvStep == CameraInv /\ [Next]_vars => CameraInv'
<1> SUFFICES ASSUME CameraInv, [Next]_vars PROVE CameraInv'
  OBVIOUS
<1>1. CASE UNCHANGED vars
  BY <1>1, SameListeners DEF vars, CameraInv, ListenersFollow, TypeOK
<1>2. CASE Next
  BY <1>2, StartKeeps, StopKeeps, OutageKeeps, RebootsKeep, OutageEndsKeeps, ApplyKeeps,
     SubscribeKeeps, SubscriptionEndsKeeps, SetQuirksKeeps, OthersKeep DEF Next
<1>3. QED
  BY <1>1, <1>2

\* Listeners, flags, model and announcements agree through every start, stop,
\* rebinding and outage, on any ports and with any other processes: a camera that
\* is up serves all its ports and said so, a stopped one serves none and has no
\* timer that would (VirtualCamera::start, stop, goOffline, setModel).
THEOREM ListenersStayFollowing == Spec => []ListenersFollow
<1>1. CameraInv => ListenersFollow
  BY DEF CameraInv
<1>2. QED
  BY CameraInvInit, CameraInvStep, <1>1, PTL DEF Spec

-----------------------------------------------------------------------------
(* EventEngine.                                                            *)
HIDE CameraLifecycleAssumption
HIDE DiscoveryAssumption

\* What the invariant rests on: of a topic the catalog does not have now clients
\* believe nothing, unless they were led astray on it; and a storm nobody started
\* by hand is the quirk's, and known to be.
Silent == \A t \in Topics \ (DOMAIN state \cup astray) : ~told[t]
StormKnown == /\ rate > 0 /\ ~manual => fromQuirk
              /\ fromQuirk => "storm" \in quirks

EngineInv == TableConsistent /\ Silent /\ StormKnown

-----------------------------------------------------------------------------
LEMMA CatalogTopics ==
  /\ \A st \in Styles : Range(Catalog[st]) \subseteq Topics
  /\ \A st \in Styles : Props(st) \subseteq Topics \ Instant
  /\ \A st \in Styles, k \in Kinds : Catalog[st][k] \in Topics
<1>1. \A st \in Styles : Range(Catalog[st]) \subseteq Topics
  BY DEF Topics, Styles
<1>2. \A st \in Styles : Props(st) \subseteq Topics \ Instant
  BY <1>1 DEF Props
<1>3. \A st \in Styles, k \in Kinds : Catalog[st][k] \in Range(Catalog[st])
  BY EventEngineAssumption DEF Range
<1>4. QED
  BY <1>1, <1>2, <1>3

\* The storm after a refresh: SyncStorm leaves one only to who wants it.
LEMMA StormSynced ==
  ASSUME StormKnown, rate \in Nat, manual \in BOOLEAN, fromQuirk \in BOOLEAN,
         SyncStorm(quirks')
  PROVE  StormKnown' /\ rate' \in Nat /\ manual' \in BOOLEAN /\ fromQuirk' \in BOOLEAN
<1>1. QuirkRate \in Nat
  BY EventEngineAssumption
<1>2. CASE "storm" \in quirks' /\ StartStorm(QuirkRate, FALSE) /\ fromQuirk' = TRUE
  <2>1. rate' = QuirkRate /\ manual' = FALSE /\ fromQuirk' = TRUE /\ "storm" \in quirks'
    BY <1>2 DEF StartStorm
  <2>2. StormKnown'
    BY <2>1, Zenon DEF StormKnown
  <2>3. QED
    BY <1>1, <2>1, <2>2
<1>3. CASE "storm" \notin quirks' /\ fromQuirk /\ StopStorm /\ fromQuirk' = FALSE
  <2>1. rate' = 0 /\ manual' = FALSE /\ fromQuirk' = FALSE
    BY <1>3 DEF StopStorm
  <2>2. rate' \in Nat /\ ~(rate' > 0)
    BY <2>1
  <2>3. StormKnown'
    BY <2>1, <2>2, Zenon DEF StormKnown
  <2>4. QED
    BY <2>1, <2>2, <2>3
<1>4. CASE "storm" \notin quirks' /\ ~fromQuirk /\ UNCHANGED storm
  BY <1>4 DEF StormKnown, storm
<1>5. QED
  BY <1>2, <1>3, <1>4 DEF SyncStorm

\* The table after a refresh.
TableParts ==
  /\ style \in Styles /\ state \in [Props(style) -> BOOLEAN]
  /\ off \subseteq Topics \ Instant /\ unpaired \subseteq Topics \ Instant
  /\ told \in [Topics -> BOOLEAN] /\ astray \subseteq Topics
  /\ TimersMatchStates /\ RaisedWillFall /\ SnapshotAgrees /\ Silent

LEMMA TableReloaded ==
  ASSUME TableParts, NEW qs, NEW p \in Styles, ReloadTopics(qs, p)
  PROVE  TableParts' /\ style' = StyleOf(qs, p)
<1> DEFINE st == StyleOf(qs, p)
<1>1. st \in Styles
  BY EventEngineAssumption DEF StyleOf
<1>2. /\ style' = st
      /\ state' = [t \in Props(st) |-> t \in DOMAIN state /\ state[t]]
      /\ off' = off \ Leaving(st)
      /\ unpaired' = unpaired \ Leaving(st)
      /\ astray' = astray \cup {t \in Leaving(st) : state[t]}
      /\ told' = told
  BY DEF ReloadTopics
<1> HIDE DEF st
<1>3. Props(st) \subseteq Topics /\ Props(style) \subseteq Topics /\ DOMAIN state = Props(style)
  BY <1>1, CatalogTopics DEF TableParts
<1>4. Leaving(st) = Props(style) \ Props(st)
  BY <1>3 DEF Leaving
<1>5. state' \in [Props(st) -> BOOLEAN] /\ DOMAIN state' = Props(st)
  <2>1. \A t \in Props(st) : (t \in DOMAIN state /\ state[t]) \in BOOLEAN
    BY DEF TableParts
  <2>2. QED
    BY <1>2, <2>1
<1>6. \A t \in Props(st) : state'[t] <=> t \in Props(style) /\ state[t]
  BY <1>2, <1>3
<1>7. /\ off' \subseteq Topics \ Instant /\ unpaired' \subseteq Topics \ Instant
      /\ astray' \subseteq Topics
  BY <1>2, <1>3, <1>4 DEF TableParts
<1>8. TimersMatchStates'
  BY <1>2, <1>3, <1>4, <1>5, <1>6 DEF TableParts, TimersMatchStates
<1>9. RaisedWillFall'
  BY <1>2, <1>3, <1>4, <1>5, <1>6 DEF TableParts, RaisedWillFall
<1>10. SnapshotAgrees'
  <2>1. ASSUME NEW t \in Props(st), t \notin astray' PROVE told[t] = state'[t]
    <3>1. CASE t \in Props(style)
      BY <1>2, <1>3, <1>5, <1>6, <2>1, <3>1 DEF TableParts, SnapshotAgrees
    <3>2. CASE t \notin Props(style)
      <4>1. t \in Topics /\ ~told[t] /\ told[t] \in BOOLEAN
        BY <1>2, <1>3, <2>1, <3>2 DEF TableParts, Silent
      <4>2. ~state'[t] /\ state'[t] \in BOOLEAN
        BY <1>5, <1>6, <3>2
      <4>3. QED
        BY <4>1, <4>2
    <3>3. QED
      BY <3>1, <3>2
  <2>2. QED
    BY <1>2, <1>5, <2>1 DEF SnapshotAgrees
<1>11. Silent'
  <2>1. ASSUME NEW t \in Topics, t \notin Props(st), t \notin astray' PROVE ~told[t]
    <3>1. CASE t \in Props(style)
      <4>1. t \in Leaving(st) /\ ~state[t] /\ t \notin astray
        BY <1>2, <1>4, <2>1, <3>1
      <4>2. told[t] = state[t]
        BY <1>3, <3>1, <4>1 DEF TableParts, SnapshotAgrees
      <4>3. QED
        BY <4>1, <4>2
    <3>2. CASE t \notin Props(style)
      BY <1>2, <1>3, <2>1, <3>2 DEF TableParts, Silent
    <3>3. QED
      BY <3>1, <3>2
  <2>2. QED
    BY <1>2, <1>5, <2>1 DEF Silent
<1>12. QED
  BY <1>1, <1>2, <1>5, <1>7, <1>8, <1>9, <1>10, <1>11 DEF TableParts, st

\* The table after a property was set, and after a message that sets nothing.
LEMMA PropertySet ==
  ASSUME TableParts, NEW t \in Props(style), NEW value \in BOOLEAN, SetProperty(t, value)
  PROVE  TableParts' /\ style' = style
<1> DEFINE paired == value /\ "unpaired" \notin quirks
<1>1. /\ state' = Updated(state, t, value)
      /\ off' = With(off, t, paired)
      /\ unpaired' = With(unpaired, t, value /\ ~paired)
      /\ told' = [told EXCEPT ![t] = value]
      /\ astray' = astray \ {t} /\ style' = style
  BY DEF SetProperty
<1>2. paired \in BOOLEAN /\ (paired => value)
  OBVIOUS
<1> HIDE DEF paired
<1>3. t \in Topics \ Instant /\ Props(style) \subseteq Topics /\ DOMAIN state = Props(style)
  BY CatalogTopics DEF TableParts
<1>4. /\ state' \in [Props(style) -> BOOLEAN] /\ DOMAIN state' = Props(style)
      /\ state'[t] = value /\ \A u \in Props(style) \ {t} : state'[u] = state[u]
  <2>1. DOMAIN state \cup {t} = Props(style)
    BY <1>3
  <2>2. state' = [u \in Props(style) |-> IF u = t THEN value ELSE state[u]]
    BY <1>1, <2>1 DEF Updated
  <2>3. QED
    BY <2>2 DEF TableParts
<1>5. /\ told' \in [Topics -> BOOLEAN] /\ told'[t] = value
      /\ \A u \in Topics \ {t} : told'[u] = told[u]
  BY <1>1, <1>3 DEF TableParts
<1>6. /\ off' \subseteq Topics \ Instant /\ off' \ {t} = off \ {t} /\ (t \in off' <=> paired)
      /\ unpaired' \subseteq Topics \ Instant /\ unpaired' \ {t} = unpaired \ {t}
      /\ (t \in unpaired' <=> value /\ ~paired)
  BY <1>1, <1>2, <1>3 DEF TableParts, With
<1>7. TimersMatchStates'
  BY <1>2, <1>3, <1>4, <1>6 DEF TableParts, TimersMatchStates
<1>8. RaisedWillFall'
  BY <1>2, <1>3, <1>4, <1>6 DEF TableParts, RaisedWillFall
<1>9. SnapshotAgrees'
  BY <1>1, <1>3, <1>4, <1>5 DEF TableParts, SnapshotAgrees
<1>10. Silent'
  BY <1>1, <1>3, <1>4, <1>5 DEF TableParts, Silent
<1>11. QED
  BY <1>1, <1>4, <1>5, <1>6, <1>7, <1>8, <1>9, <1>10 DEF TableParts

LEMMA MessageSent ==
  ASSUME TableParts, NEW t \in Topics, NEW value \in BOOLEAN, NEW backed \in BOOLEAN,
         SendOnly(t, value, backed),
         backed => t \in DOMAIN state, t \in DOMAIN state => value /\ (backed <=> state[t])
  PROVE  TableParts' /\ style' = style
<1>1. /\ told' = [told EXCEPT ![t] = value]
      /\ astray' = With(astray, t, value /\ ~backed)
      /\ style' = style /\ state' = state /\ off' = off /\ unpaired' = unpaired
  BY DEF SendOnly
<1>2. /\ told' \in [Topics -> BOOLEAN] /\ told'[t] = value
      /\ \A u \in Topics \ {t} : told'[u] = told[u]
  BY <1>1 DEF TableParts
<1>3. /\ astray' \subseteq Topics /\ astray' \ {t} = astray \ {t}
      /\ (t \in astray' <=> value /\ ~backed)
  BY <1>1 DEF TableParts, With
<1>4. DOMAIN state \subseteq Topics /\ DOMAIN state' = DOMAIN state
      /\ \A u \in DOMAIN state : state[u] \in BOOLEAN
  BY <1>1, CatalogTopics DEF TableParts
<1>5. SnapshotAgrees'
  BY <1>1, <1>2, <1>3, <1>4 DEF TableParts, SnapshotAgrees
<1>6. QED
  BY <1>1, <1>2, <1>3, <1>5 DEF TableParts, TimersMatchStates, RaisedWillFall, Silent

-----------------------------------------------------------------------------
LEMMA TableUnfolded ==
  ASSUME EngineInv
  PROVE  /\ TableParts /\ StormKnown /\ TimersHaveRows /\ CatalogInForce
         /\ persona \in PersonaStyles /\ quirks \subseteq EngineQuirks /\ started \in BOOLEAN
         /\ schedules \in Tables /\ armed \subseteq Kinds
         /\ rate \in Nat /\ fromQuirk \in BOOLEAN /\ manual \in BOOLEAN
         /\ triggers \in 0 .. MaxTriggers
BY DEF EngineInv, TableConsistent, EngineTypeOK, TableParts

LEMMA TableFolded ==
  ASSUME TableParts', StormKnown', TimersHaveRows', CatalogInForce',
         persona' \in PersonaStyles, quirks' \subseteq EngineQuirks, started' \in BOOLEAN,
         schedules' \in Tables, armed' \subseteq Kinds,
         rate' \in Nat, fromQuirk' \in BOOLEAN, manual' \in BOOLEAN,
         triggers' \in 0 .. MaxTriggers
  PROVE  EngineInv'
<1>1. StormEndsWithQuirk'
  BY DEF StormKnown, StormEndsWithQuirk
<1>2. QED
  BY <1>1 DEF EngineInv, TableConsistent, EngineTypeOK, TableParts

\* A step that leaves the table and the storm as they are.
LEMMA SameTable == ASSUME TableParts, UNCHANGED topics PROVE TableParts'
BY DEF TableParts, topics, TimersMatchStates, RaisedWillFall, SnapshotAgrees, Silent

LEMMA SameStorm ==
  ASSUME StormKnown, UNCHANGED storm, quirks' = quirks PROVE StormKnown'
BY DEF StormKnown, storm

LEMMA SameRows == ASSUME TimersHaveRows, schedules' = schedules, armed' \subseteq armed
                  PROVE  TimersHaveRows'
BY DEF TimersHaveRows

LEMMA RaiseKeeps ==
  ASSUME TableParts, NEW t \in Topics, NEW value \in BOOLEAN, Raise(t, value),
         triggers \in 0 .. MaxTriggers
  PROVE  TableParts' /\ style' = style /\ triggers' \in 0 .. MaxTriggers
<1>1. triggers' \in 0 .. MaxTriggers
  BY EventEngineAssumption DEF Raise
<1>2. CASE t \in Props(style)
  BY <1>1, <1>2, PropertySet DEF Raise
<1>3. CASE t \notin Props(style)
  <2>1. SendOnly(t, value, FALSE) /\ DOMAIN state = Props(style)
    BY <1>3 DEF Raise, TableParts
  <2>2. QED
    BY <1>1, <1>3, <2>1, MessageSent
<1>4. QED
  BY <1>2, <1>3

LEMMA TriggerKeeps == EngineInv /\ Trigger => EngineInv'
<1> SUFFICES ASSUME EngineInv, Trigger PROVE EngineInv'
  OBVIOUS
<1>1. PICK t \in Topics, value \in BOOLEAN : Raise(t, value)
  <2>1. style \in Styles
    BY TableUnfolded DEF TableParts
  <2>2. QED
    BY <2>1, CatalogTopics DEF Trigger
<1>2. TableParts' /\ style' = style /\ triggers' \in 0 .. MaxTriggers
  BY <1>1, RaiseKeeps, TableUnfolded
<1>3. UNCHANGED <<camera, schedules, armed, storm>>
  BY DEF Trigger
<1>4. QED
  <2>1. CatalogInForce'
    BY <1>2, <1>3, TableUnfolded DEF CatalogInForce, camera
  <2>2. StormKnown' /\ TimersHaveRows'
    BY <1>3, TableUnfolded, SameStorm, SameRows DEF camera
  <2>3. QED
    BY <1>2, <1>3, <2>1, <2>2, TableUnfolded, TableFolded DEF camera, storm

LEMMA FallBackKeeps == ASSUME NEW t \in Topics PROVE EngineInv /\ FallBack(t) => EngineInv'
<1> SUFFICES ASSUME EngineInv, FallBack(t) PROVE EngineInv'
  OBVIOUS
<1>1. TableParts /\ t \in off /\ t \in DOMAIN state
  BY TableUnfolded DEF FallBack, TableParts, TimersMatchStates
<1>2. /\ off' = off \ {t} /\ state' = Updated(state, t, FALSE)
      /\ told' = [told EXCEPT ![t] = FALSE] /\ astray' = astray \ {t}
      /\ style' = style /\ unpaired' = unpaired
      /\ UNCHANGED <<camera, schedules, armed, storm, triggers>>
  BY DEF FallBack
<1>3. DOMAIN state = Props(style) /\ Props(style) \subseteq Topics
  BY <1>1, CatalogTopics DEF TableParts
<1>4. /\ state' \in [Props(style) -> BOOLEAN] /\ DOMAIN state' = Props(style)
      /\ ~state'[t] /\ state'[t] = FALSE /\ \A u \in Props(style) \ {t} : state'[u] = state[u]
  <2>1. DOMAIN state \cup {t} = Props(style)
    BY <1>1, <1>3
  <2>2. state' = [u \in Props(style) |-> IF u = t THEN FALSE ELSE state[u]]
    BY <1>2, <2>1 DEF Updated
  <2>3. QED
    BY <1>1, <1>3, <2>2 DEF TableParts
<1>5. /\ told' \in [Topics -> BOOLEAN] /\ told'[t] = FALSE
      /\ \A u \in Topics \ {t} : told'[u] = told[u]
  BY <1>1, <1>2 DEF TableParts
<1>6. TimersMatchStates'
  BY <1>1, <1>2, <1>3, <1>4 DEF TableParts, TimersMatchStates
<1>7. RaisedWillFall'
  BY <1>1, <1>2, <1>3, <1>4 DEF TableParts, RaisedWillFall
<1>8. SnapshotAgrees'
  BY <1>1, <1>2, <1>3, <1>4, <1>5 DEF TableParts, SnapshotAgrees
<1>9. Silent'
  BY <1>1, <1>2, <1>3, <1>4, <1>5 DEF TableParts, Silent
<1>10. TableParts'
  BY <1>1, <1>2, <1>4, <1>5, <1>6, <1>7, <1>8, <1>9 DEF TableParts
<1>11. StormKnown' /\ TimersHaveRows' /\ CatalogInForce'
  BY <1>2, TableUnfolded, SameStorm, SameRows DEF CatalogInForce, camera
<1>12. QED
  BY <1>2, <1>10, <1>11, TableUnfolded, TableFolded DEF camera, storm

LEMMA SetSchedulesKeeps == ASSUME NEW rows \in Tables PROVE EngineInv /\ SetSchedules(rows) => EngineInv'
<1> SUFFICES ASSUME EngineInv, SetSchedules(rows) PROVE EngineInv'
  OBVIOUS
<1>1. schedules' = rows /\ armed' = Rearmed(rows) /\ UNCHANGED <<camera, topics, storm, triggers>>
  BY DEF SetSchedules
<1>2. PICK n \in 0 .. MaxRows : rows \in [1 .. n -> Rows]
  BY DEF Tables
<1>3. TimersHaveRows'
  <2>1. ASSUME NEW k \in Rearmed(rows) PROVE [kind |-> k, enabled |-> TRUE] \in Range(rows)
    <3>1. PICK i \in LastRow(rows, k) : rows[i].enabled
      BY DEF Rearmed
    <3>2. i \in DOMAIN rows /\ rows[i] \in Rows /\ rows[i].kind = k
      BY <1>2, <3>1 DEF LastRow
    <3>3. rows[i] = [kind |-> k, enabled |-> TRUE]
      BY <3>1, <3>2 DEF Rows
    <3>4. QED
      BY <3>2, <3>3 DEF Range
  <2>2. QED
    BY <1>1, <2>1 DEF TimersHaveRows
<1>4. armed' \subseteq Kinds
  BY <1>1 DEF Rearmed
<1>5. TableParts' /\ StormKnown' /\ CatalogInForce'
  BY <1>1, TableUnfolded, SameTable, SameStorm DEF CatalogInForce, camera, topics
<1>6. QED
  BY <1>1, <1>3, <1>4, <1>5, TableUnfolded, TableFolded DEF camera, storm

LEMMA ScheduleFiresKeeps == ASSUME NEW k \in Kinds PROVE EngineInv /\ ScheduleFires(k) => EngineInv'
<1> SUFFICES ASSUME EngineInv, ScheduleFires(k) PROVE EngineInv'
  OBVIOUS
<1>1. UNCHANGED <<camera, schedules, storm>>
  BY DEF ScheduleFires
<1>2. TableParts' /\ style' = style /\ triggers' \in 0 .. MaxTriggers /\ armed' \subseteq armed
  <2>1. CASE Raise(Catalog[style][k], TRUE) /\ UNCHANGED armed
    <3>1. Catalog[style][k] \in Topics
      BY TableUnfolded, CatalogTopics DEF TableParts
    <3>2. QED
      BY <2>1, <3>1, RaiseKeeps, TableUnfolded
  <2>2. CASE armed' = armed \ {k} /\ UNCHANGED <<topics, triggers>>
    BY <2>2, TableUnfolded, SameTable DEF topics
  <2>3. QED
    BY <2>1, <2>2 DEF ScheduleFires
<1>3. StormKnown' /\ TimersHaveRows' /\ CatalogInForce'
  BY <1>1, <1>2, TableUnfolded, SameStorm, SameRows DEF CatalogInForce, camera
<1>4. armed' \subseteq Kinds
  BY <1>2, TableUnfolded
<1>5. QED
  BY <1>1, <1>2, <1>3, <1>4, TableUnfolded, TableFolded DEF camera, storm

LEMMA PressStormKeeps == EngineInv /\ PressStorm => EngineInv'
<1> SUFFICES ASSUME EngineInv, PressStorm PROVE EngineInv'
  OBVIOUS
<1>1. UNCHANGED <<camera, topics, schedules, armed, fromQuirk, triggers>>
  BY DEF PressStorm
<1>2. rate' \in Nat /\ manual' \in BOOLEAN /\ (rate' > 0 => manual')
  <2>1. ASSUME NEW n \in ManualRates, StartStorm(n, TRUE)
        PROVE  rate' \in Nat /\ manual' \in BOOLEAN /\ (rate' > 0 => manual')
    <3>1. rate' = n /\ manual' = TRUE /\ n \in Nat
      BY <2>1, EventEngineAssumption DEF StartStorm
    <3>2. QED
      BY <3>1
  <2>2. CASE StopStorm
    <3>1. rate' = 0 /\ manual' = FALSE
      BY <2>2 DEF StopStorm
    <3>2. rate' \in Nat /\ ~(rate' > 0)
      BY <3>1
    <3>3. manual' \in BOOLEAN
      BY <3>1, Zenon
    <3>4. QED
      BY <3>2, <3>3
  <2>3. QED
    BY <2>1, <2>2 DEF PressStorm
<1>3. StormKnown'
  BY <1>1, <1>2, TableUnfolded DEF StormKnown, camera
<1>4. TableParts' /\ TimersHaveRows' /\ CatalogInForce'
  BY <1>1, TableUnfolded, SameTable, SameRows DEF CatalogInForce, camera, topics
<1>5. QED
  BY <1>1, <1>2, <1>3, <1>4, TableUnfolded, TableFolded DEF camera

LEMMA StormTickKeeps == EngineInv /\ StormTick => EngineInv'
<1> SUFFICES ASSUME EngineInv, StormTick PROVE EngineInv'
  OBVIOUS
<1>1. PICK t \in Range(Catalog[style]) :
        SendOnly(t, TRUE, t \in DOMAIN state /\ state[t])
  BY DEF StormTick
<1>2. UNCHANGED <<camera, schedules, armed, storm, triggers>>
  BY DEF StormTick
<1>3. t \in Topics /\ TableParts
  BY TableUnfolded, CatalogTopics DEF TableParts
<1>4. (t \in DOMAIN state /\ state[t]) \in BOOLEAN
  BY <1>3 DEF TableParts
<1>5. TableParts' /\ style' = style
  BY <1>1, <1>3, <1>4, MessageSent
<1>6. StormKnown' /\ TimersHaveRows' /\ CatalogInForce'
  BY <1>2, <1>5, TableUnfolded, SameStorm, SameRows DEF CatalogInForce, camera
<1>7. QED
  BY <1>2, <1>5, <1>6, TableUnfolded, TableFolded DEF camera, storm

LEMMA QuirksChangeKeeps == EngineInv /\ QuirksChange => EngineInv'
<1> SUFFICES ASSUME EngineInv, QuirksChange PROVE EngineInv'
  OBVIOUS
<1>1. PICK on \in SUBSET Toggles : quirks' = (quirks \ Toggles) \cup on /\ ReloadTopics(quirks', persona)
  BY DEF QuirksChange
<1>2. UNCHANGED <<persona, started, schedules, armed, triggers>>
  BY DEF QuirksChange
<1>3. quirks' \subseteq EngineQuirks
  BY <1>1, TableUnfolded, EventEngineAssumption
<1>4. TableParts' /\ style' = StyleOf(quirks', persona)
  <2>1. persona \in Styles
    BY TableUnfolded, EventEngineAssumption
  <2>2. QED
    BY <1>1, <2>1, TableUnfolded, TableReloaded
<1>5. StormKnown' /\ rate' \in Nat /\ manual' \in BOOLEAN /\ fromQuirk' \in BOOLEAN
  <2>1. SyncStorm(quirks')
    BY <1>1 DEF ReloadTopics
  <2>2. QED
    BY <2>1, TableUnfolded, StormSynced
<1>6. TimersHaveRows' /\ CatalogInForce'
  BY <1>2, <1>4, TableUnfolded, SameRows DEF CatalogInForce, StyleOf
<1>7. QED
  BY <1>2, <1>3, <1>4, <1>5, <1>6, TableUnfolded, TableFolded

LEMMA PersonaChangesKeeps == EngineInv /\ PersonaChanges => EngineInv'
<1> SUFFICES ASSUME EngineInv, PersonaChanges PROVE EngineInv'
  OBVIOUS
<1>1. /\ persona' \in PersonaStyles /\ ReloadTopics(quirks, persona')
      /\ UNCHANGED <<quirks, started, schedules, armed, triggers>>
  BY DEF PersonaChanges
<1>2. TableParts' /\ style' = StyleOf(quirks, persona')
  <2>1. persona' \in Styles
    BY <1>1, EventEngineAssumption
  <2>2. QED
    BY <1>1, <2>1, TableUnfolded, TableReloaded
<1>3. StormKnown' /\ rate' \in Nat /\ manual' \in BOOLEAN /\ fromQuirk' \in BOOLEAN
  <2>1. SyncStorm(quirks')
    BY <1>1 DEF ReloadTopics
  <2>2. QED
    BY <2>1, TableUnfolded, StormSynced
<1>4. TimersHaveRows' /\ CatalogInForce'
  BY <1>1, <1>2, TableUnfolded, SameRows DEF CatalogInForce, StyleOf
<1>5. QED
  BY <1>1, <1>2, <1>3, <1>4, TableUnfolded, TableFolded

LEMMA CameraStartsKeeps == EngineInv /\ CameraStarts => EngineInv'
<1> SUFFICES ASSUME EngineInv, CameraStarts PROVE EngineInv'
  OBVIOUS
<1>1. started' = TRUE /\ SyncStorm(quirks)
      /\ UNCHANGED <<persona, quirks, topics, schedules, armed, triggers>>
  BY DEF CameraStarts
<1>2. StormKnown' /\ rate' \in Nat /\ manual' \in BOOLEAN /\ fromQuirk' \in BOOLEAN
  <2>1. SyncStorm(quirks')
    BY <1>1
  <2>2. QED
    BY <2>1, TableUnfolded, StormSynced
<1>3. TableParts' /\ TimersHaveRows' /\ CatalogInForce'
  BY <1>1, TableUnfolded, SameTable, SameRows DEF CatalogInForce, topics
<1>4. QED
  BY <1>1, <1>2, <1>3, TableUnfolded, TableFolded

LEMMA CameraStopsKeeps == EngineInv /\ CameraStops => EngineInv'
<1> SUFFICES ASSUME EngineInv, CameraStops PROVE EngineInv'
  OBVIOUS
<1>1. /\ started' = FALSE /\ rate' = 0 /\ manual' = FALSE
      /\ UNCHANGED <<persona, quirks, topics, schedules, armed, fromQuirk, triggers>>
  BY DEF CameraStops, StopStorm
<1>2. StormKnown' /\ rate' \in Nat /\ manual' \in BOOLEAN
  <2>1. rate' \in Nat /\ ~(rate' > 0)
    BY <1>1
  <2>2. manual' \in BOOLEAN
    BY <1>1, Zenon
  <2>3. StormKnown'
    BY <1>1, <2>1, TableUnfolded, Zenon DEF StormKnown
  <2>4. QED
    BY <2>1, <2>2, <2>3
<1>3. TableParts' /\ TimersHaveRows' /\ CatalogInForce'
  BY <1>1, TableUnfolded, SameTable, SameRows DEF CatalogInForce, topics
<1>4. QED
  BY <1>1, <1>2, <1>3, TableUnfolded, TableFolded

-----------------------------------------------------------------------------
LEMMA InitHolds == "naming" \notin GlobalQuirks /\ EngineInit => EngineInv
<1> SUFFICES ASSUME "naming" \notin GlobalQuirks, EngineInit PROVE EngineInv
  OBVIOUS
<1>1. /\ persona \in PersonaStyles /\ quirks = GlobalQuirks /\ started = FALSE /\ style = persona
      /\ state = [t \in Props(style) |-> FALSE]
      /\ off = {} /\ schedules = <<>> /\ armed = {}
      /\ rate = 0 /\ fromQuirk = FALSE /\ manual = FALSE /\ triggers = 0
      /\ told = [t \in Topics |-> FALSE] /\ astray = {} /\ unpaired = {}
  BY DEF EngineInit
<1>2. style \in Styles /\ Props(style) \subseteq Topics /\ quirks \subseteq EngineQuirks
  BY <1>1, EventEngineAssumption, CatalogTopics
<1>3. TableParts
  BY <1>1, <1>2 DEF TableParts, TimersMatchStates, RaisedWillFall, SnapshotAgrees, Silent
<1>4. StormKnown /\ StormEndsWithQuirk /\ TimersHaveRows
  BY <1>1 DEF StormKnown, StormEndsWithQuirk, TimersHaveRows
<1>5. CatalogInForce
  BY <1>1 DEF CatalogInForce, StyleOf
<1>6. schedules \in Tables
  <2>1. schedules \in [1 .. 0 -> Rows] /\ 0 \in 0 .. MaxRows
    BY <1>1, EventEngineAssumption
  <2>2. QED
    BY <2>1 DEF Tables
<1>7. triggers \in 0 .. MaxTriggers
  BY <1>1, EventEngineAssumption
<1>8. QED
  BY <1>1, <1>2, <1>3, <1>4, <1>5, <1>6, <1>7
     DEF EngineInv, TableConsistent, EngineTypeOK, TableParts

LEMMA StepKeeps == EngineInv /\ [EngineNext]_engineVars => EngineInv'
<1> SUFFICES ASSUME EngineInv, [EngineNext]_engineVars PROVE EngineInv'
  OBVIOUS
<1>1. CASE Trigger
  BY <1>1, TriggerKeeps
<1>2. CASE \E t \in Topics : FallBack(t)
  BY <1>2, FallBackKeeps
<1>3. CASE \E rows \in Tables : SetSchedules(rows)
  BY <1>3, SetSchedulesKeeps
<1>4. CASE \E k \in Kinds : ScheduleFires(k)
  BY <1>4, ScheduleFiresKeeps
<1>5. CASE PressStorm
  BY <1>5, PressStormKeeps
<1>6. CASE StormTick
  BY <1>6, StormTickKeeps
<1>7. CASE QuirksChange
  BY <1>7, QuirksChangeKeeps
<1>8. CASE PersonaChanges
  BY <1>8, PersonaChangesKeeps
<1>9. CASE CameraStarts
  BY <1>9, CameraStartsKeeps
<1>10. CASE CameraStops
  BY <1>10, CameraStopsKeeps
<1>11. CASE UNCHANGED engineVars
  <2>1. UNCHANGED <<persona, quirks, started, topics, schedules, armed, storm, triggers>>
    BY <1>11 DEF engineVars, camera
  <2>2. TableParts' /\ StormKnown' /\ TimersHaveRows' /\ CatalogInForce'
    BY <2>1, TableUnfolded, SameTable, SameStorm, SameRows DEF CatalogInForce, topics
  <2>3. QED
    BY <2>1, <2>2, TableUnfolded, TableFolded DEF storm
<1>12. QED
  BY <1>1, <1>2, <1>3, <1>4, <1>5, <1>6, <1>7, <1>8, <1>9, <1>10, <1>11 DEF EngineNext

\* Timers, property states, what clients were told, the style in force and the
\* storm's owner stay in agreement, for any catalogs, quirks and rates, unless the
\* naming quirk is one of those that addCamera() writes behind the engine's back.
THEOREM TableStaysConsistent ==
  ASSUME "naming" \notin GlobalQuirks
  PROVE  EngineSpec => []TableConsistent
<1>1. EngineInit => EngineInv
  BY InitHolds
<1>2. EngineInv /\ [EngineNext]_engineVars => EngineInv'
  BY StepKeeps
<1>3. EngineInv => TableConsistent
  BY DEF EngineInv
<1>4. QED
  BY <1>1, <1>2, <1>3, PTL DEF EngineSpec

-----------------------------------------------------------------------------
(* VendorStreams.                                                          *)

\* What the invariant rests on: the types, without which no list is a list.
Codes == Range(CodeOf)
StreamsTyped ==
  /\ clients \in Seq(Streams) /\ open \subseteq Streams
  /\ heard \in [Streams -> Seq(Codes)] /\ due \in [Streams -> Seq(Codes)]
  /\ DOMAIN filter = Streams
StreamsInv == StreamsFollow /\ StreamsTyped

LEMMA ElementsAre ==
  ASSUME NEW T, NEW q, q \in Seq(T)
  PROVE  /\ DOMAIN q = 1 .. Len(q) /\ Len(q) \in Nat
         /\ Range(q) = {q[i] : i \in 1 .. Len(q)}
<1>1. DOMAIN q = 1 .. Len(q) /\ Len(q) \in Nat
  OBVIOUS
<1>2. QED
  BY <1>1 DEF Range

\* Dropping streams leaves the others in the list, each where it was open.
LEMMA DropFollows ==
  ASSUME StreamsInv, NEW ss, ss \subseteq Streams, Drop(ss)
  PROVE  /\ clients' \in Seq(Streams) /\ open' \subseteq Streams
         /\ Range(clients') = open' /\ beating' = open' /\ stuck' \subseteq open'
         /\ IsInjective(clients')
<1> DEFINE K == Streams \ ss
           q == Sifted(clients, K)
<1>1. /\ clients \in Seq(Streams) /\ open \subseteq Streams /\ Range(clients) = open
      /\ beating = open /\ stuck \subseteq open /\ IsInjective(clients)
  BY DEF StreamsInv, StreamsFollow, StreamsTyped
<1> HIDE DEF K
<1>2. q \in Seq(Streams)
  BY <1>1, SiftedType
<1>3. Range(q) = Range(clients) \cap K
  <2>1. /\ \A i \in 1 .. Len(q) : q[i] \in K /\ \E k \in 1 .. Len(clients) : q[i] = clients[k]
        /\ \A k \in 1 .. Len(clients) : clients[k] \in K => \E i \in 1 .. Len(q) : q[i] = clients[k]
    BY <1>1, SiftedElements
  <2> HIDE DEF q
  <2>2. DOMAIN q = 1 .. Len(q) /\ DOMAIN clients = 1 .. Len(clients)
    BY <1>1, <1>2
  <2>3. ASSUME NEW x \in Range(q) PROVE x \in Range(clients) \cap K
    <3>1. PICK i \in 1 .. Len(q) : x = q[i]
      BY <2>2 DEF Range
    <3>2. PICK k \in 1 .. Len(clients) : x = clients[k]
      BY <2>1, <3>1
    <3>3. QED
      BY <2>1, <2>2, <3>1, <3>2 DEF Range
  <2>4. ASSUME NEW x \in Range(clients) \cap K PROVE x \in Range(q)
    <3>1. PICK k \in 1 .. Len(clients) : x = clients[k]
      BY <2>2 DEF Range
    <3>2. PICK i \in 1 .. Len(q) : x = q[i]
      BY <2>1, <2>4, <3>1
    <3>3. QED
      BY <2>2, <3>2 DEF Range
  <2>5. QED
    BY <2>3, <2>4
<1>4. IsInjective(q)
  <2>1. \A i, j \in 1 .. Len(clients) : clients[i] = clients[j] => i = j
    BY <1>1, ElementsAre DEF IsInjective
  <2>2. \A i, j \in 1 .. Len(q) : q[i] = q[j] => i = j
    BY <1>1, <2>1, SiftedOnce
  <2> HIDE DEF q
  <2>3. QED
    BY <1>2, <2>2, ElementsAre DEF IsInjective
<1>5. clients' = q /\ beating' = beating \ ss /\ open' = open \ ss /\ stuck' = stuck \ ss
  BY DEF Drop, K
<1> HIDE DEF q
<1>6. QED
  BY <1>1, <1>2, <1>3, <1>4, <1>5 DEF K

LEMMA StreamsInvInit == StreamInit => StreamsInv
<1> SUFFICES ASSUME StreamInit PROVE StreamsInv
  OBVIOUS
<1>1. clients = <<>> /\ open = {} /\ beating = {} /\ stuck = {}
  BY DEF StreamInit
<1>2. Range(clients) = {} /\ IsInjective(clients) /\ clients \in Seq(Streams)
  BY <1>1 DEF Range, IsInjective
<1>3. heard \in [Streams -> Seq(Codes)] /\ due = heard /\ DOMAIN filter = Streams
  BY DEF StreamInit
<1>4. QED
  BY <1>1, <1>2, <1>3 DEF StreamsInv, StreamsFollow, StreamsTyped

LEMMA AttachKeeps ==
  ASSUME StreamsInv, NEW s \in Streams, NEW codes, Attach(s, codes)
  PROVE  StreamsInv'
<1>1. /\ clients \in Seq(Streams) /\ open \subseteq Streams /\ Range(clients) = open
      /\ beating = open /\ stuck \subseteq open /\ IsInjective(clients)
      /\ s \notin open /\ clients' = Append(clients, s)
      /\ beating' = beating \cup {s} /\ open' = open \cup {s} /\ stuck' = stuck
  BY DEF StreamsInv, StreamsFollow, StreamsTyped, Attach
<1>2. /\ DOMAIN clients = 1 .. Len(clients) /\ Len(clients) \in Nat
      /\ clients' \in Seq(Streams) /\ Len(clients') = Len(clients) + 1
      /\ DOMAIN clients' = 1 .. Len(clients) + 1
      /\ \A i \in 1 .. Len(clients) : clients'[i] = clients[i]
      /\ clients'[Len(clients) + 1] = s
  BY <1>1
<1>3. \A i \in 1 .. Len(clients) : clients[i] \in open
  BY <1>1, <1>2 DEF Range
<1>4. Range(clients') = open'
  <2>1. \A i \in DOMAIN clients' : clients'[i] \in open'
    BY <1>1, <1>2, <1>3
  <2>2. \A k \in open : \E i \in DOMAIN clients' : clients'[i] = k
    <3>1. \A k \in open : \E i \in DOMAIN clients : clients[i] = k
      BY <1>1 DEF Range
    <3>2. QED
      BY <1>2, <3>1
  <2>3. \E i \in DOMAIN clients' : clients'[i] = s
    BY <1>2
  <2>4. QED
    BY <1>1, <2>1, <2>2, <2>3 DEF Range
<1>5. IsInjective(clients')
  <2> SUFFICES ASSUME NEW i \in 1 .. Len(clients) + 1, NEW j \in 1 .. Len(clients) + 1,
                      clients'[i] = clients'[j]
               PROVE  i = j
    BY <1>2 DEF IsInjective
  <2>1. CASE i \in 1 .. Len(clients) /\ j \in 1 .. Len(clients)
    BY <1>1, <1>2, <2>1 DEF IsInjective
  <2>2. CASE ~(i \in 1 .. Len(clients) /\ j \in 1 .. Len(clients))
    BY <1>1, <1>2, <1>3, <2>2
  <2>3. QED
    BY <2>1, <2>2
<1>6. /\ heard' \in [Streams -> Seq(Codes)] /\ due' \in [Streams -> Seq(Codes)]
      /\ \A k \in Streams : heard'[k] = due'[k]
      /\ DOMAIN filter' = Streams
  BY DEF StreamsInv, StreamsFollow, StreamsTyped, Attach
<1>7. QED
  BY <1>1, <1>2, <1>4, <1>5, <1>6 DEF StreamsInv, StreamsFollow, StreamsTyped

\* Who is in the list, wanted the event and is read is sent it, and is just who was
\* to have it.
LEMMA EventKeeps ==
  ASSUME StreamsInv, NEW kind \in DOMAIN CodeOf, OnEventProduced(kind)
  PROVE  StreamsInv'
<1> DEFINE code == CodeOf[kind]
           meant == {s \in Range(clients) : Wants(s, code)}
           sent == meant \ Lost(meant)
<1>1. /\ Range(clients) = open /\ open \subseteq Streams
      /\ heard \in [Streams -> Seq(Codes)] /\ due \in [Streams -> Seq(Codes)]
      /\ \A s \in Streams : heard[s] = due[s]
      /\ DOMAIN filter = Streams
  BY DEF StreamsInv, StreamsFollow, StreamsTyped
<1>2. /\ heard' = [s \in Streams |-> IF s \in sent THEN Append(heard[s], code) ELSE heard[s]]
      /\ due' = [s \in Streams |-> IF s \in open \ stuck /\ Wants(s, code)
                                   THEN Append(due[s], code) ELSE due[s]]
      /\ Drop(Lost(meant)) /\ filter' = filter
  BY DEF OnEventProduced
<1>3. code \in Codes
  BY DEF Codes, Range
<1>4. \A s \in Streams : s \in sent <=> (s \in open \ stuck /\ Wants(s, code))
  BY <1>1 DEF Lost
<1>5. Lost(meant) \subseteq Streams
  BY <1>1 DEF Lost
<1> HIDE DEF code, meant, sent
<1>6. /\ heard' \in [Streams -> Seq(Codes)] /\ due' \in [Streams -> Seq(Codes)]
      /\ \A s \in Streams : heard'[s] = due'[s]
  BY <1>1, <1>2, <1>3, <1>4
<1>7. QED
  BY <1>1, <1>2, <1>5, <1>6, DropFollows DEF StreamsInv, StreamsFollow, StreamsTyped

LEMMA DropKeeps ==
  ASSUME StreamsInv, NEW ss, ss \subseteq Streams, Drop(ss), UNCHANGED <<filter, heard, due>>
  PROVE  StreamsInv'
BY DropFollows DEF StreamsInv, StreamsFollow, StreamsTyped

LEMMA StreamsInvStep == StreamsInv /\ [StreamNext]_streamVars => StreamsInv'
<1> SUFFICES ASSUME StreamsInv, [StreamNext]_streamVars PROVE StreamsInv'
  OBVIOUS
<1>1. CASE UNCHANGED streamVars
  BY <1>1 DEF StreamsInv, StreamsFollow, StreamsTyped, streamVars
<1>2. ASSUME NEW s \in Streams, NEW codes, Attach(s, codes) PROVE StreamsInv'
  BY <1>2, AttachKeeps
<1>3. ASSUME NEW kind \in DOMAIN CodeOf, OnEventProduced(kind) PROVE StreamsInv'
  BY <1>3, EventKeeps
<1>4. ASSUME NEW s \in Streams, Heartbeat(s) PROVE StreamsInv'
  BY <1>4, DropKeeps DEF Heartbeat, Lost
<1>5. ASSUME NEW s \in Streams, PeerLeaves(s) PROVE StreamsInv'
  BY <1>5, DropKeeps DEF PeerLeaves
<1>6. ASSUME NEW s \in Streams, StopsReading(s) PROVE StreamsInv'
  BY <1>6 DEF StopsReading, StreamsInv, StreamsFollow, StreamsTyped
<1>7. ASSUME CameraDown PROVE StreamsInv'
  BY <1>7, DropKeeps DEF CameraDown, StreamsInv, StreamsTyped
<1>8. QED
  BY <1>1, <1>2, <1>3, <1>4, <1>5, <1>6, <1>7 DEF StreamNext

\* List, heartbeats and connections of the vendor event streams name the same
\* streams, and each has heard exactly what was produced for it, in order, however
\* many peers leave or stop reading in the middle of a round (push, drop and
\* onEventProduced of both stubs).
THEOREM StreamsStayFollowing == StreamSpec => []StreamsFollow
<1>1. StreamsInv => StreamsFollow
  BY DEF StreamsInv
<1>2. QED
  BY StreamsInvInit, StreamsInvStep, <1>1, PTL DEF StreamSpec

-----------------------------------------------------------------------------
(* VendorControl.                                                          *)

\* Types: what the lamp can be, and the two groups of the head.
ControlTyped ==
  /\ lamp.on \in BOOLEAN /\ lamp.bright \in Int
  /\ DOMAIN head = {"panTilt", "zoom"}

Light == [on : BOOLEAN, level : Int, touched : BOOLEAN]
LightAsWas == [on |-> lamp.on, level |-> lamp.bright, touched |-> FALSE]

LEMMA WithinBounds ==
  ASSUME NEW v, NEW lo, NEW hi, v \in Int, lo \in Int, hi \in Int
  PROVE  /\ Within(v, lo, hi) \in Int
         /\ lo <= hi /\ v >= 1 /\ hi >= 1 => Within(v, lo, hi) >= 1
BY DEF Within

LEMMA LooseNumber ==
  ASSUME NEW v \in Loosely PROVE Loose(v) \in Int /\ (Read(v) => v \in Int)
<1>1. Read(v) => v \in Numbers
  BY DEF Loosely, Read, Given
<1>2. CASE Read(v)
  BY <1>1, <1>2, VendorControlAssumption DEF Loose
<1>3. CASE ~Read(v)
  BY <1>3 DEF Loose
<1>4. QED
  BY <1>2, <1>3

LEMMA LampSet ==
  ASSUME ControlTyped, NEW on, on \in BOOLEAN, NEW level, level \in Int, SetWhiteLight(on, level)
  PROVE  /\ lamp'.on = on /\ lamp'.bright \in Int
         /\ level >= 1 => lamp'.bright >= 1
<1>1. Top \in Int /\ 0 <= Top /\ Top >= 1
  BY VendorControlAssumption
<1>2. lamp'.on = on /\ lamp'.bright = IF level < 0 THEN lamp.bright ELSE Within(level, 0, Top)
  BY DEF SetWhiteLight
<1>3. Within(level, 0, Top) \in Int /\ (level >= 1 => Within(level, 0, Top) >= 1)
  BY <1>1, WithinBounds
<1>4. QED
  BY <1>2, <1>3 DEF ControlTyped

-----------------------------------------------------------------------------
\* The items of a Dahua request.

LEMMA AfterType ==
  ASSUME NEW acc \in Light, NEW item \in Items
  PROVE  /\ After(acc, item) \in Light
         /\ acc.on /\ ~PutsOut(item) => After(acc, item).on
<1>1. CASE item \in [mode : {"Off", "Manual"}]
  <2>1. "mode" \in DOMAIN item /\ "light" \notin DOMAIN item
    BY <1>1
  <2>2. After(acc, item) = [acc EXCEPT !.on = item.mode # "Off", !.touched = TRUE]
    BY <2>1 DEF After
  <2>3. QED
    BY <2>1, <2>2 DEF Light, PutsOut
<1>2. CASE item \in [light : Numbers \cup {Bad}]
  <2>1. "mode" \notin DOMAIN item /\ item.light \in Numbers \cup {Bad}
    BY <1>2
  <2>2. After(acc, item) =
          IF Read(item.light)
          THEN [on |-> acc.on /\ item.light > 0, level |-> item.light, touched |-> TRUE]
          ELSE acc
    BY <2>1 DEF After
  <2>3. Read(item.light) => item.light \in Int /\ item.light # Bad
    BY <2>1, VendorControlAssumption DEF Read
  <2>4. PutsOut(item) <=> Read(item.light) /\ item.light <= 0
    BY <2>1 DEF PutsOut
  <2>5. QED
    BY <2>2, <2>3, <2>4 DEF Light
<1>3. QED
  BY <1>1, <1>2 DEF Items

LEMMA AppliedType ==
  ASSUME ControlTyped, NEW items, NEW L \in Nat, items \in [1 .. L -> Items]
  PROVE  /\ Applied(items) \in Light
         /\ lamp.on /\ (\A i \in 1 .. L : ~PutsOut(items[i])) => Applied(items).on
<1> DEFINE B(g, n) == IF n = 0 THEN [on |-> lamp.on, level |-> lamp.bright, touched |-> FALSE]
                      ELSE After(g[n - 1], items[n])
           G == CHOOSE g : g = [n \in 0 .. L |->
                      IF n = 0 THEN [on |-> lamp.on, level |-> lamp.bright, touched |-> FALSE]
                      ELSE After(g[n - 1], items[n])]
           H == [n \in 1 .. L |-> [acc \in Light |-> After(acc, items[n])]]
<1>1. Len(items) = L /\ \A n \in 1 .. L : items[n] \in Items
  OBVIOUS
<1>2. LightAsWas \in Light
  BY DEF LightAsWas, Light, ControlTyped
<1>3. \A n \in 1 .. L : \A acc \in Light : After(acc, items[n]) \in Light
  BY <1>1, AfterType
<1>4. \A n \in 1 .. L : H[n] \in [Light -> Light]
  BY <1>3
<1>5. \E f \in [0 .. L -> Light] : f[0] = LightAsWas /\ \A n \in 1 .. L : f[n] = H[n][f[n - 1]]
  <2> HIDE DEF H
  <2>1. HasRun(L, Light, LightAsWas, H)
    BY <1>2, <1>4, Iterates
  <2>2. QED
    BY <2>1 DEF HasRun
<1>6. PICK f \in [0 .. L -> Light] : f[0] = LightAsWas /\ \A n \in 1 .. L : f[n] = H[n][f[n - 1]]
  BY <1>5
<1>7. \A n \in 1 .. L : f[n - 1] \in Light /\ f[n] = After(f[n - 1], items[n])
  <2> SUFFICES ASSUME NEW n \in 1 .. L
               PROVE  f[n - 1] \in Light /\ f[n] = After(f[n - 1], items[n])
    OBVIOUS
  <2>1. f[n - 1] \in Light
    OBVIOUS
  <2>2. QED
    BY <1>6, <2>1
<1>8. f = [n \in 0 .. L |-> B(f, n)]
  <2>1. f = [n \in 0 .. L |-> f[n]]
    OBVIOUS
  <2>2. \A n \in 0 .. L : f[n] = B(f, n)
    <3> SUFFICES ASSUME NEW n \in 0 .. L PROVE f[n] = B(f, n)
      OBVIOUS
    <3>1. CASE n = 0
      BY <1>6, <3>1 DEF LightAsWas
    <3>2. CASE n # 0
      BY <1>7, <3>2
    <3>3. QED
      BY <3>1, <3>2
  <2> HIDE DEF B
  <2>3. QED
    BY <2>1, <2>2
<1>9. G = [n \in 0 .. L |-> B(G, n)]
  <2>1. \E g : g = [n \in 0 .. L |-> B(g, n)]
    BY <1>8
  <2>2. QED
    BY <2>1
<1>10. Applied(items) = G[L]
  BY <1>1 DEF Applied
<1> HIDE DEF G
<1>11. \A n \in 1 .. L : G[n] = After(G[n - 1], items[n])
  <2> SUFFICES ASSUME NEW n \in 1 .. L PROVE G[n] = After(G[n - 1], items[n])
    OBVIOUS
  <2>1. n \in 0 .. L /\ n # 0
    OBVIOUS
  <2>2. G[n] = B(G, n)
    <3> HIDE DEF B
    <3>1. QED
      BY <1>9, <2>1
  <2>3. QED
    BY <2>1, <2>2
<1>12. G[0] = LightAsWas
  BY <1>9 DEF LightAsWas
<1> DEFINE NoneOut == lamp.on /\ \A i \in 1 .. L : ~PutsOut(items[i])
<1>13. G[L] \in Light /\ (NoneOut => G[L].on)
  <2> DEFINE P == {n \in 0 .. L : G[n] \in Light /\ (NoneOut => G[n].on)}
  <2>1. 0 \in P
    BY <1>2, <1>12 DEF LightAsWas
  <2>2. ASSUME NEW n \in 1 .. L, n - 1 \in P PROVE n \in P
    <3>1. G[n - 1] \in Light /\ (NoneOut => G[n - 1].on)
      BY <2>2
    <3>2. items[n] \in Items /\ G[n] = After(G[n - 1], items[n])
      BY <1>1, <1>11
    <3>3. NoneOut => ~PutsOut(items[n])
      OBVIOUS
    <3> HIDE DEF NoneOut
    <3>4. G[n] \in Light /\ (NoneOut => G[n].on)
      BY <3>1, <3>2, <3>3, AfterType
    <3>5. QED
      BY <3>4
  <2> HIDE DEF P
  <2>3. \A n \in 0 .. L : n \in P
    BY <2>1, <2>2, Climb
  <2>4. QED
    BY <2>3 DEF P
<1>14. QED
  BY <1>10, <1>13

-----------------------------------------------------------------------------
\* Who leaves the head alone stops nothing.
LEMMA HeadAsIs == ASSUME head' = head PROVE HeadKept(last'.stops)
BY DEF HeadKept, Moves

LEMMA WhiteLedHonest ==
  ASSUME ControlTyped, NEW led \in Loosely, NEW mode \in Loosely, NEW bright \in Loosely,
         SetWhiteLed(led, mode, bright)
  PROVE  ControlTyped' /\ HonestWrite
<1> DEFINE on == IF Given(led) THEN Loose(led) # 0
                 ELSE IF Given(mode) THEN Loose(mode) # 0 ELSE lamp.on
           level == IF Given(bright) THEN Within(Loose(bright), 0, Top) ELSE -1
<1>1. on \in BOOLEAN
  BY DEF ControlTyped
<1>2. level \in Int
  BY LooseNumber, WithinBounds, VendorControlAssumption
<1>3. SetWhiteLight(on, level) \/ UNCHANGED lamp
  BY DEF SetWhiteLed
<1> HIDE DEF on, level
<1>4. lamp'.on \in BOOLEAN /\ lamp'.bright \in Int
  BY <1>1, <1>2, <1>3, LampSet DEF ControlTyped
<1>5. last'.by = "unchecked" /\ head' = head
  BY DEF SetWhiteLed, LampOnly, Note, Wanted
<1>6. QED
  BY <1>4, <1>5, HeadAsIs DEF ControlTyped, HonestWrite

LEMMA WriteLightHonest ==
  ASSUME ControlTyped, NEW on \in Words, NEW status \in Words, NEW brightness \in Loosely,
         WriteLight(on, brightness, status)
  PROVE  ControlTyped' /\ HonestWrite
<1> DEFINE level == IF Read(brightness) THEN Within(brightness, 0, Top) ELSE -1
           first == IF Read(on) THEN on ELSE lamp.on
           second == IF level = 0 /\ ~Given(on) THEN FALSE ELSE first
           shown == IF Read(status) THEN status ELSE second
<1>1. \A v \in Words : Read(v) => v \in BOOLEAN
  BY DEF Words, Read, Given
<1>2. shown \in BOOLEAN
  BY <1>1 DEF ControlTyped
<1>3. level \in Int
  BY LooseNumber, WithinBounds, VendorControlAssumption
<1>4. SetWhiteLight(shown, level) \/ UNCHANGED lamp
  BY DEF WriteLight
<1>5. last'.by = "other" /\ last'.off = (on = FALSE \/ status = FALSE \/ level = 0)
  BY DEF WriteLight, Note, Wanted
<1>6. lamp.on /\ ~last'.off => shown
  BY <1>1, <1>5
<1> HIDE DEF shown, level
<1>7. lamp'.on \in BOOLEAN /\ lamp'.bright \in Int /\ (lamp'.on = shown \/ lamp' = lamp)
  BY <1>2, <1>3, <1>4, LampSet DEF ControlTyped
<1>8. head' = head
  BY DEF WriteLight, LampOnly
<1>9. LampKept
  BY <1>6, <1>7 DEF LampKept
<1>10. QED
  BY <1>5, <1>7, <1>8, <1>9, HeadAsIs DEF ControlTyped, HonestWrite

LEMMA SetConfigHonest ==
  ASSUME ControlTyped, NEW L \in Nat, NEW items \in [1 .. L -> Items], SetConfig(items)
  PROVE  ControlTyped' /\ HonestWrite
<1> DEFINE end == Applied(items)
           level == IF end.on /\ end.level < 1 THEN 1 ELSE end.level
<1>1. end \in Light /\ (lamp.on /\ (\A i \in 1 .. L : ~PutsOut(items[i])) => end.on)
  BY AppliedType
<1>2. IF end.touched THEN SetWhiteLight(end.on, level) ELSE UNCHANGED lamp
  BY DEF SetConfig
<1>3. last'.by = "SetConfig" /\ (~last'.off => \A i \in 1 .. L : ~PutsOut(items[i]))
  <2>1. DOMAIN items = 1 .. L
    OBVIOUS
  <2>2. QED
    BY <2>1 DEF SetConfig, Note, Wanted
<1>4. head' = head
  BY DEF SetConfig, LampOnly
<1> HIDE DEF end
<1>5. end.on \in BOOLEAN /\ level \in Int /\ (end.on => level >= 1)
  BY <1>1 DEF Light
<1>6. lamp.on /\ ~last'.off => end.on
  BY <1>1, <1>3
<1> HIDE DEF level
<1>7. /\ lamp'.on \in BOOLEAN /\ lamp'.bright \in Int
      /\ lamp'.on = end.on \/ lamp' = lamp
      /\ lamp' # lamp /\ lamp'.on => lamp'.bright >= 1
  <2>1. CASE end.touched
    BY <1>2, <1>5, <2>1, LampSet
  <2>2. CASE ~end.touched
    BY <1>2, <2>2 DEF ControlTyped
  <2>3. QED
    BY <2>1, <2>2
<1>8. lamp' # lamp => (LightingV2'.manual <=> LightingV2'.light > 0)
  <2>1. LightingV2'.manual = lamp'.on /\ LightingV2'.light = IF lamp'.on THEN lamp'.bright ELSE 0
    BY DEF LightingV2
  <2>2. QED
    BY <1>7, <2>1
<1>9. LampKept
  BY <1>6, <1>7 DEF LampKept
<1>10. QED
  BY <1>3, <1>4, <1>7, <1>8, <1>9, HeadAsIs DEF ControlTyped, HonestWrite, ReadsBack

LEMMA OtherLampsHonest ==
  ASSUME ControlTyped
  PROVE  /\ \A io \in Loosely : CoaxialControl(io) => ControlTyped' /\ HonestWrite
         /\ \A mode : \A b \in Loosely : SupplementLight(mode, b) => ControlTyped' /\ HonestWrite
         /\ \A type : IrcutFilter(type) => ControlTyped' /\ HonestWrite
<1>1. ASSUME NEW io \in Loosely, CoaxialControl(io) PROVE ControlTyped' /\ HonestWrite
  <2> DEFINE level == -1
             on == Loose(io) = 1
  <2>0. level \in Int /\ on \in BOOLEAN
    OBVIOUS
  <2>1. SetWhiteLight(on, level) /\ last'.by = "unchecked" /\ head' = head
    BY <1>1 DEF CoaxialControl, LampOnly, Note, Wanted
  <2> HIDE DEF level, on
  <2>2. lamp'.on \in BOOLEAN /\ lamp'.bright \in Int
    BY <2>0, <2>1, LampSet
  <2>3. QED
    BY <2>1, <2>2, HeadAsIs DEF ControlTyped, HonestWrite
<1>2. ASSUME NEW mode, NEW b \in Loosely, SupplementLight(mode, b) PROVE ControlTyped' /\ HonestWrite
  <2> DEFINE level == IF Read(b) THEN b ELSE -1
             on == mode \notin {"irLight", "close"}
  <2>1. level \in Int /\ on \in BOOLEAN
    BY LooseNumber
  <2>2. (SetWhiteLight(on, level) \/ UNCHANGED lamp) /\ head' = head
    BY <1>2 DEF SupplementLight, LampOnly
  <2>3. last'.by = "other" /\ (~last'.off => on)
    BY <1>2 DEF SupplementLight, Note, Wanted
  <2> HIDE DEF level, on
  <2>4. lamp'.on \in BOOLEAN /\ lamp'.bright \in Int /\ (lamp'.on = on \/ lamp' = lamp)
    BY <2>1, <2>2, LampSet DEF ControlTyped
  <2>5. LampKept
    BY <2>3, <2>4 DEF LampKept
  <2>6. QED
    BY <2>2, <2>3, <2>4, <2>5, HeadAsIs DEF ControlTyped, HonestWrite
<1>3. ASSUME NEW type, IrcutFilter(type) PROVE ControlTyped' /\ HonestWrite
  <2>1. lamp' = lamp /\ head' = head /\ last'.by = "other"
    BY <1>3 DEF IrcutFilter, NothingOff, Note, Wanted
  <2>2. QED
    BY <2>1, HeadAsIs DEF ControlTyped, HonestWrite, LampKept
<1>4. QED
  BY <1>1, <1>2, <1>3

\* What the head is told: only who asks it to stop stops it.
LEMMA SteerDrives ==
  ASSUME ControlTyped, NEW d \in DOMAIN Directions, NEW s, s \in Nat, s >= 1, Steer(d, s)
  PROVE  /\ DOMAIN head' = {"panTilt", "zoom"}
         /\ \A g \in DOMAIN head : Moves(head[g]) => Moves(head'[g])
<1> DEFINE v == [x \in {"pan", "tilt", "zoom"} |-> Directions[d][x] * s]
<1>1. d \in {"Left", "LeftUp", "In"}
  BY DEF Directions
<1>2. Drive(IF d = "In" THEN {"zoom"} ELSE {"panTilt"}, v)
  BY DEF Steer
<1>3. (d = "In" => v.zoom = 1 * s) /\ (d # "In" => v.pan = -1 * s)
  BY <1>1 DEF Directions, Vector
<1>4. (d = "In" => v.zoom # 0) /\ (d # "In" => v.pan # 0)
  BY <1>3
<1> HIDE DEF v
<1>5. QED
  BY <1>2, <1>4 DEF Drive, Moves, ControlTyped

\* No speed is slower than the slowest step.
LEMMA SpeedsMove ==
  ASSUME NEW v \in Paces, NEW w \in Paces
  PROVE  /\ ReolinkSpeed(v) \in Nat /\ ReolinkSpeed(v) >= 1
         /\ DahuaSpeed(v, w) \in Nat /\ DahuaSpeed(v, w) >= 1
<1>1. \A u \in Paces : Loose(u) \in Int
  BY VendorControlAssumption DEF Paces, Loose, Read
<1>2. \A n \in Int : Within(n, 1, Full) \in Nat /\ Within(n, 1, Full) >= 1
  BY VendorControlAssumption DEF Within
<1>3. ReolinkSpeed(v) \in Nat /\ ReolinkSpeed(v) >= 1
  <2>1. CASE Loose(v) <= 0
    BY <2>1, VendorControlAssumption DEF ReolinkSpeed
  <2>2. CASE ~(Loose(v) <= 0)
    <3>1. Loose(v) = v
      BY <2>2 DEF Loose
    <3>2. v \in Int
      BY <1>1, <3>1
    <3>3. QED
      BY <1>2, <2>2, <3>2 DEF ReolinkSpeed
  <2>3. QED
    BY <2>1, <2>2
<1>4. DahuaSpeed(v, w) \in Nat /\ DahuaSpeed(v, w) >= 1
  <2> DEFINE most == IF Loose(v) > Loose(w) THEN Loose(v) ELSE Loose(w)
  <2>1. most \in Int
    BY <1>1
  <2>2. DahuaSpeed(v, w) = Within(most, 1, Full)
    BY DEF DahuaSpeed
  <2> HIDE DEF most
  <2>3. QED
    BY <1>2, <2>1, <2>2
<1>5. QED
  BY <1>3, <1>4

LEMMA HeadHonest ==
  ASSUME ControlTyped
  PROVE  /\ \A op, speed : speed \in Paces /\ PtzCtrl(op, speed) => ControlTyped' /\ HonestWrite
         /\ \A code, v, w : v \in Paces /\ w \in Paces /\ DahuaStart(code, v, w) =>
              ControlTyped' /\ HonestWrite
         /\ DahuaStop => ControlTyped' /\ HonestWrite
         /\ \A p, t, z : Continuous(p, t, z) => ControlTyped' /\ HonestWrite
         /\ \A x, y : MotorMove(x, y) => ControlTyped' /\ HonestWrite
         /\ \A tk : PresetCommand(tk) => ControlTyped' /\ HonestWrite
<1> DEFINE Groups == {"panTilt", "zoom"}
<1>1. \A groups : Halt(groups) => DOMAIN head' = Groups
  BY DEF Halt, ControlTyped
<1>2. Go => DOMAIN head' = Groups /\ HeadKept(last'.stops)
  BY DEF Go, ControlTyped, HeadKept, Moves, Still
<1>3. \A groups, v : Drive(groups, v) => DOMAIN head' = Groups
  BY DEF Drive
<1>4. ASSUME lamp' = lamp, DOMAIN head' = Groups, HeadKept(last'.stops), last'.by = "other"
      PROVE  ControlTyped' /\ HonestWrite
  BY <1>4 DEF ControlTyped, HonestWrite, LampKept
<1>5. ASSUME NEW op, NEW speed \in Paces, PtzCtrl(op, speed) PROVE ControlTyped' /\ HonestWrite
  <2>1. /\ lamp' = lamp /\ last'.by = "other"
        /\ last'.stops = IF op = "Stop" THEN Groups ELSE {}
    BY <1>5 DEF PtzCtrl, HeadOnly, Note, Wanted
  <2>2. DOMAIN head' = Groups /\ HeadKept(last'.stops)
    <3>1. CASE op \in DOMAIN Directions
      <4> DEFINE s == ReolinkSpeed(speed)
      <4>1. Steer(op, s) /\ s \in Nat /\ s >= 1
        BY <1>5, <3>1, SpeedsMove DEF PtzCtrl
      <4> HIDE DEF s
      <4>2. QED
        BY <3>1, <4>1, SteerDrives DEF HeadKept
    <3>2. CASE op = "Stop"
      <4>1. op \notin DOMAIN Directions
        BY <3>2 DEF Directions
      <4>2. Halt(Groups)
        BY <1>5, <3>2, <4>1 DEF PtzCtrl
      <4>3. QED
        BY <1>1, <2>1, <3>2, <4>2 DEF HeadKept, ControlTyped
    <3>3. CASE op \notin DOMAIN Directions /\ op # "Stop"
      BY <1>5, <3>3, HeadAsIs DEF PtzCtrl, ControlTyped
    <3>4. QED
      BY <3>1, <3>2, <3>3
  <2>3. QED
    BY <1>4, <2>1, <2>2
<1>6. ASSUME NEW code, NEW v \in Paces, NEW w \in Paces, DahuaStart(code, v, w)
      PROVE  ControlTyped' /\ HonestWrite
  <2>1. lamp' = lamp /\ last'.by = "other"
    BY <1>6 DEF DahuaStart, HeadOnly, NothingOff, Note, Wanted
  <2>2. DOMAIN head' = Groups /\ HeadKept(last'.stops)
    <3>1. CASE code \in DOMAIN Directions
      <4> DEFINE s == DahuaSpeed(v, w)
      <4>1. Steer(code, s) /\ s \in Nat /\ s >= 1
        BY <1>6, <3>1, SpeedsMove DEF DahuaStart
      <4> HIDE DEF s
      <4>2. QED
        BY <3>1, <4>1, SteerDrives DEF HeadKept
    <3>2. CASE code \notin DOMAIN Directions
      BY <1>6, <3>2, HeadAsIs DEF DahuaStart, ControlTyped
    <3>3. QED
      BY <3>1, <3>2
  <2>3. QED
    BY <1>4, <2>1, <2>2
<1>7. ASSUME DahuaStop PROVE ControlTyped' /\ HonestWrite
  <2>1. lamp' = lamp /\ last'.by = "other" /\ last'.stops = Groups /\ Halt(Groups)
    BY <1>7 DEF DahuaStop, HeadOnly, Note, Wanted
  <2>2. HeadKept(last'.stops)
    BY <2>1 DEF HeadKept, ControlTyped
  <2>3. QED
    BY <1>1, <1>4, <2>1, <2>2
<1>8. ASSUME NEW p, NEW t, NEW z, Continuous(p, t, z) PROVE ControlTyped' /\ HonestWrite
  <2> DEFINE data == PtzData(p, t, z)
             zero == Vector(0, 0, 0)
  <2>1. IF data.v = zero THEN Halt(data.groups) ELSE Drive(data.groups, data.v)
    BY <1>8 DEF Continuous
  <2>2. /\ lamp' = lamp /\ last'.by = "other"
        /\ last'.stops = {g \in data.groups : IF g = "zoom" THEN data.v.zoom = 0
                                             ELSE data.v.pan = 0 /\ data.v.tilt = 0}
    BY <1>8 DEF Continuous, HeadOnly, Wanted
  <2>3. data.v = zero => data.v.pan = 0 /\ data.v.tilt = 0 /\ data.v.zoom = 0
    BY DEF Vector
  <2> HIDE DEF data, zero
  <2>4. DOMAIN head' = Groups
    BY <1>1, <1>3, <2>1
  <2>5. HeadKept(last'.stops)
    <3> SUFFICES ASSUME NEW g \in DOMAIN head, Moves(head[g]), g \notin last'.stops
                 PROVE  Moves(head'[g])
      BY DEF HeadKept
    <3>1. g \in Groups
      BY DEF ControlTyped
    <3>2. CASE g \notin data.groups
      <4>1. head'[g] = head[g]
        BY <2>1, <3>1, <3>2 DEF Halt, Drive
      <4>2. QED
        BY <4>1
    <3>3. CASE g \in data.groups
      <4>1. IF g = "zoom" THEN data.v.zoom # 0 ELSE data.v.pan # 0 \/ data.v.tilt # 0
        BY <2>2, <3>3
      <4>2. Drive(data.groups, data.v)
        BY <2>1, <2>3, <4>1
      <4>3. QED
        BY <3>1, <3>3, <4>1, <4>2 DEF Drive, Moves
    <3>4. QED
      BY <3>2, <3>3
  <2>6. QED
    BY <1>4, <2>2, <2>4, <2>5
<1>9. ASSUME NEW x, NEW y, MotorMove(x, y) PROVE ControlTyped' /\ HonestWrite
  <2>1. lamp' = lamp /\ last'.by = "other"
    BY <1>9 DEF MotorMove, HeadOnly, NothingOff, Note, Wanted
  <2>2. DOMAIN head' = Groups /\ HeadKept(last'.stops)
    BY <1>2, <1>9, HeadAsIs DEF MotorMove, ControlTyped
  <2>3. QED
    BY <1>4, <2>1, <2>2
<1>10. ASSUME NEW tk, PresetCommand(tk) PROVE ControlTyped' /\ HonestWrite
  <2>1. lamp' = lamp /\ last'.by = "other"
    BY <1>10 DEF PresetCommand, SetSlot, ClearSlot, GotoSlot, PresetsOnly, NothingOff, Note, Wanted
  <2>2. head' = head \/ Go
    BY <1>10 DEF PresetCommand, SetSlot, ClearSlot, GotoSlot
  <2>3. DOMAIN head' = Groups /\ HeadKept(last'.stops)
    BY <1>2, <2>2, HeadAsIs DEF ControlTyped
  <2>4. QED
    BY <1>4, <2>1, <2>3
<1>11. QED
  BY <1>5, <1>6, <1>7, <1>8, <1>9, <1>10

LEMMA ControlTypedInit == ControlInit => ControlTyped
<1> SUFFICES ASSUME ControlInit PROVE ControlTyped
  OBVIOUS
<1>1. lamp \in [on : BOOLEAN, bright : 0 .. Top] /\ Top \in Nat
  BY VendorControlAssumption DEF ControlInit
<1>2. DOMAIN head = {"panTilt", "zoom"}
  BY DEF ControlInit
<1>3. QED
  BY <1>1, <1>2 DEF ControlTyped

LEMMA ControlStep == ASSUME ControlTyped, ControlNext PROVE ControlTyped' /\ HonestWrite
<1>1. ASSUME NEW led \in Loosely, NEW mode \in Loosely, NEW bright \in Loosely,
             SetWhiteLed(led, mode, bright)
      PROVE  ControlTyped' /\ HonestWrite
  BY <1>1, WhiteLedHonest
<1>2. ASSUME NEW on \in Words, NEW status \in Words, NEW b \in Loosely, WriteLight(on, b, status)
      PROVE  ControlTyped' /\ HonestWrite
  BY <1>2, WriteLightHonest
<1>3. ASSUME NEW items \in UNION {[1 .. n -> Items] : n \in 0 .. 2}, SetConfig(items)
      PROVE  ControlTyped' /\ HonestWrite
  <2>1. PICK n \in 0 .. 2 : items \in [1 .. n -> Items]
    OBVIOUS
  <2>2. n \in Nat
    OBVIOUS
  <2>3. QED
    BY <1>3, <2>1, <2>2, SetConfigHonest
<1>4. ASSUME NEW mode, NEW b \in Loosely, SupplementLight(mode, b)
      PROVE  ControlTyped' /\ HonestWrite
  BY <1>4, OtherLampsHonest
<1>5. QED
  BY <1>1, <1>2, <1>3, <1>4, OtherLampsHonest, HeadHonest DEF ControlNext

\* Whatever a vendor client sends: what moves stops only when a readable word or
\* number of its group asks for it, the lamp goes out only when one does, but for
\* Reolink's SetWhiteLed and Dahua's coaxial control, of which nothing is said; and a
\* Dahua client that changed the lamp reads back what it is (TplinkDsStub,
\* DahuaCgiStub::setConfig, IsapiStub).
THEOREM VendorsStayHonest == ControlSpec => VendorWritesHonest
<1>1. ControlTyped /\ [ControlNext]_controlVars => ControlTyped'
  BY ControlStep DEF ControlTyped, controlVars
<1>2. ControlTyped /\ [ControlNext]_controlVars => [HonestWrite]_controlVars
  BY ControlStep
<1>3. QED
  BY ControlTypedInit, <1>1, <1>2, PTL DEF ControlSpec, VendorWritesHonest

-----------------------------------------------------------------------------

(* LogPanel.                                                               *)

\* t ends with s.
EndsWith(t, s) ==
  /\ Len(s) <= Len(t)
  /\ \A i \in 1 .. Len(s) : s[i] = t[Len(t) - Len(s) + i]
\* Numbers grow by at least one with every place.
Rising(s) ==
  \A i, j \in 1 .. Len(s) : i <= j => s[j].number >= s[i].number + (j - i)
Sorted(s) == \A i, j \in 1 .. Len(s) : i < j => s[i].number < s[j].number
UpTo(s, n) == \A i \in 1 .. Len(s) : s[i].number <= n
Before(s, t) == \A i \in 1 .. Len(s), j \in 1 .. Len(t) : s[i].number < t[j].number
\* Records that are missing between the oldest kept and the newest posted.
Accounted(kept, total, count) ==
  Len(kept) > 0 => total - kept[1].number + 1 - Len(kept) <= count

LogInv ==
  /\ posted \in 0 .. MaxPosted /\ lost \in Nat /\ limit \in Limits
  /\ records \in Seq(Records) /\ buffer \in Seq(Records)
  /\ view \in Seq(Records) /\ history \in Seq(Records)
  /\ Len(records) <= limit /\ Len(view) <= limit
  /\ Len(buffer) <= PendingCap /\ Len(history) <= HistoryLimit
  /\ stale \/ EndsWith(view, Filtered(records, picked))
  /\ Rising(Kept) /\ UpTo(Kept, posted) /\ Accounted(Kept, posted, lost)
  /\ Sorted(view) /\ UpTo(view, posted) /\ Before(view, buffer)
  /\ \A i \in 1 .. Len(history) : history[i].number = posted - Len(history) + i

-----------------------------------------------------------------------------
\* Sequences and their ends.
LEMMA Entries ==
  ASSUME NEW s \in Seq(Records)
  PROVE  /\ Len(s) \in Nat /\ DOMAIN s = 1 .. Len(s)
         /\ \A i \in 1 .. Len(s) : s[i] \in Records /\ s[i].number \in Int
<1>1. Len(s) \in Nat /\ DOMAIN s = 1 .. Len(s)
  BY LenProperties
<1>2. \A i \in 1 .. Len(s) : s[i] \in Records
  BY ElementOfSeq
<1>3. \A r \in Records : r.number \in Int
  BY LogPanelAssumption DEF Records
<1>4. QED
  BY <1>1, <1>2, <1>3

LEMMA Joined ==
  ASSUME NEW T, NEW a \in Seq(T), NEW b \in Seq(T)
  PROVE  /\ a \o b \in Seq(T) /\ Len(a \o b) = Len(a) + Len(b)
         /\ \A i \in 1 .. Len(a) : (a \o b)[i] = a[i]
         /\ \A i \in 1 .. Len(b) : (a \o b)[Len(a) + i] = b[i]
BY ConcatProperties, LenProperties

LEMMA Extended ==
  ASSUME NEW T, NEW s \in Seq(T), NEW r \in T
  PROVE  /\ Append(s, r) \in Seq(T) /\ Len(Append(s, r)) = Len(s) + 1
         /\ \A i \in 1 .. Len(s) : Append(s, r)[i] = s[i]
         /\ Append(s, r)[Len(s) + 1] = r
BY AppendProperties, LenProperties

LEMMA SuffixOf ==
  ASSUME NEW T, NEW s \in Seq(T), NEW d \in 0 .. Len(s)
  PROVE  /\ SubSeq(s, d + 1, Len(s)) \in Seq(T)
         /\ Len(SubSeq(s, d + 1, Len(s))) = Len(s) - d
         /\ \A i \in 1 .. Len(s) - d : SubSeq(s, d + 1, Len(s))[i] = s[d + i]
         /\ EndsWith(s, SubSeq(s, d + 1, Len(s)))
<1> DEFINE L == Len(s)  r == SubSeq(s, d + 1, L)
<1>1. L \in Nat /\ \A k \in 1 .. L : s[k] \in T
  BY ElementOfSeq, LenProperties
<1>2. \A k \in d + 1 .. L : s[k] \in T
  BY <1>1
<1>3. /\ r \in Seq(T)
      /\ Len(r) = IF d + 1 <= L THEN L - (d + 1) + 1 ELSE 0
      /\ \A k \in 1 .. L - (d + 1) + 1 : r[k] = s[d + 1 + k - 1]
  BY <1>1, <1>2, SubSeqProperties
<1>4. Len(r) = L - d
  BY <1>1, <1>3
<1>5. \A k \in 1 .. L - d : r[k] = s[d + k]
  <2> SUFFICES ASSUME NEW k \in 1 .. L - d PROVE r[k] = s[d + k]
    OBVIOUS
  <2>1. k \in 1 .. L - (d + 1) + 1 /\ d + 1 + k - 1 = d + k
    BY <1>1
  <2>2. QED
    BY <1>3, <2>1
<1> HIDE DEF r
<1>6. EndsWith(s, r)
  <2>1. L - Len(r) = d /\ Len(r) <= L
    BY <1>1, <1>4
  <2>2. QED
    BY <1>4, <1>5, <2>1 DEF EndsWith
<1>7. QED
  BY <1>3, <1>4, <1>5, <1>6 DEF r

LEMMA NewestIs ==
  ASSUME NEW T, NEW s \in Seq(T), NEW n \in Nat
  PROVE  /\ Newest(s, n) \in Seq(T) /\ Len(Newest(s, n)) <= n
         /\ Len(Newest(s, n)) = IF Len(s) > n THEN n ELSE Len(s)
         /\ EndsWith(s, Newest(s, n))
         /\ Len(s) <= n => Newest(s, n) = s
<1>1. Len(s) \in Nat
  BY LenProperties
<1>2. CASE Len(s) > n
  <2> DEFINE d == Len(s) - n
  <2>1. d \in 0 .. Len(s) /\ Len(s) - d = n /\ Len(s) - n + 1 = d + 1
    BY <1>1, <1>2
  <2>2. Newest(s, n) = SubSeq(s, d + 1, Len(s))
    BY <1>2 DEF Newest
  <2> HIDE DEF d
  <2>3. QED
    BY <1>1, <1>2, <2>1, <2>2, SuffixOf
<1>3. CASE Len(s) <= n
  <2>1. Newest(s, n) = s
    BY <1>1, <1>3 DEF Newest
  <2>2. EndsWith(s, s)
    BY <1>1 DEF EndsWith
  <2>3. QED
    BY <1>1, <1>3, <2>1, <2>2
<1>4. QED
  BY <1>1, <1>2, <1>3

LEMMA EndsTwice ==
  ASSUME NEW T, NEW a \in Seq(T), NEW b \in Seq(T), NEW c \in Seq(T),
         EndsWith(a, b), EndsWith(b, c)
  PROVE  EndsWith(a, c)
<1>1. Len(a) \in Nat /\ Len(b) \in Nat /\ Len(c) \in Nat
  BY LenProperties
<1>2. ASSUME NEW i \in 1 .. Len(c) PROVE c[i] = a[Len(a) - Len(c) + i]
  <2>1. c[i] = b[Len(b) - Len(c) + i]
    BY <1>2 DEF EndsWith
  <2>2. Len(b) - Len(c) + i \in 1 .. Len(b)
    BY <1>1 DEF EndsWith
  <2>3. b[Len(b) - Len(c) + i] = a[Len(a) - Len(b) + (Len(b) - Len(c) + i)]
    BY <2>2 DEF EndsWith
  <2>4. Len(a) - Len(b) + (Len(b) - Len(c) + i) = Len(a) - Len(c) + i
    BY <1>1
  <2>5. QED
    BY <2>1, <2>3, <2>4
<1>3. QED
  BY <1>1, <1>2 DEF EndsWith

\* Of two ends of one sequence the longer ends with the shorter.
LEMMA EndsBoth ==
  ASSUME NEW T, NEW a \in Seq(T), NEW b \in Seq(T), NEW c \in Seq(T),
         EndsWith(a, b), EndsWith(a, c), Len(c) <= Len(b)
  PROVE  EndsWith(b, c)
<1>1. Len(a) \in Nat /\ Len(b) \in Nat /\ Len(c) \in Nat
  BY LenProperties
<1>2. ASSUME NEW i \in 1 .. Len(c) PROVE c[i] = b[Len(b) - Len(c) + i]
  <2>1. c[i] = a[Len(a) - Len(c) + i]
    BY <1>2 DEF EndsWith
  <2>2. Len(b) - Len(c) + i \in 1 .. Len(b)
    BY <1>1
  <2>3. b[Len(b) - Len(c) + i] = a[Len(a) - Len(b) + (Len(b) - Len(c) + i)]
    BY <2>2 DEF EndsWith
  <2>4. Len(a) - Len(b) + (Len(b) - Len(c) + i) = Len(a) - Len(c) + i
    BY <1>1
  <2>5. QED
    BY <2>1, <2>3, <2>4
<1>3. QED
  BY <1>2 DEF EndsWith

LEMMA EndsJoined ==
  ASSUME NEW T, NEW a \in Seq(T), NEW b \in Seq(T), NEW c \in Seq(T)
  PROVE  /\ EndsWith(a \o b, b)
         /\ EndsWith(a, c) => EndsWith(a \o b, c \o b)
         /\ EndsWith(b, c) => EndsWith(a \o b, c)
<1>1. Len(a) \in Nat /\ Len(b) \in Nat /\ Len(c) \in Nat
  BY LenProperties
<1>2. /\ a \o b \in Seq(T) /\ Len(a \o b) = Len(a) + Len(b)
      /\ \A i \in 1 .. Len(a) : (a \o b)[i] = a[i]
      /\ \A i \in 1 .. Len(b) : (a \o b)[Len(a) + i] = b[i]
  BY Joined
<1>3. EndsWith(a \o b, b)
  <2>1. Len(a \o b) - Len(b) = Len(a) /\ Len(b) <= Len(a \o b)
    BY <1>1, <1>2
  <2>2. QED
    BY <1>2, <2>1 DEF EndsWith
<1>4. ASSUME EndsWith(a, c) PROVE EndsWith(a \o b, c \o b)
  <2>1. /\ c \o b \in Seq(T) /\ Len(c \o b) = Len(c) + Len(b)
        /\ \A i \in 1 .. Len(c) : (c \o b)[i] = c[i]
        /\ \A i \in 1 .. Len(b) : (c \o b)[Len(c) + i] = b[i]
    BY Joined
  <2>2. Len(c) <= Len(a)
    BY <1>4 DEF EndsWith
  <2>3. ASSUME NEW i \in 1 .. Len(c \o b)
        PROVE  (c \o b)[i] = (a \o b)[Len(a \o b) - Len(c \o b) + i]
    <3>1. Len(a \o b) - Len(c \o b) + i = Len(a) - Len(c) + i
      BY <1>1, <1>2, <2>1
    <3>2. CASE i <= Len(c)
      <4>1. i \in 1 .. Len(c) /\ Len(a) - Len(c) + i \in 1 .. Len(a)
        BY <1>1, <2>2, <3>2
      <4>2. c[i] = a[Len(a) - Len(c) + i]
        BY <1>4, <4>1 DEF EndsWith
      <4>3. QED
        BY <1>2, <2>1, <3>1, <4>1, <4>2
    <3>3. CASE i > Len(c)
      <4> DEFINE k == i - Len(c)
      <4>1. k \in 1 .. Len(b) /\ i = Len(c) + k /\ Len(a) - Len(c) + i = Len(a) + k
        BY <1>1, <2>1, <3>3
      <4> HIDE DEF k
      <4>2. QED
        BY <1>2, <2>1, <3>1, <4>1
    <3>4. i <= Len(c) \/ i > Len(c)
      BY <1>1, <2>1
    <3>5. QED
      BY <3>2, <3>3, <3>4
  <2>4. Len(c \o b) <= Len(a \o b)
    BY <1>1, <1>2, <2>1, <2>2
  <2>5. QED
    BY <2>3, <2>4 DEF EndsWith
<1>5. ASSUME EndsWith(b, c) PROVE EndsWith(a \o b, c)
  BY <1>2, <1>3, <1>5, EndsTwice
<1>6. QED
  BY <1>3, <1>4, <1>5

\* What ends a sequence, filtered, ends the sequence filtered.
LEMMA EndsFiltered ==
  ASSUME NEW t \in Seq(Records), NEW s \in Seq(Records), EndsWith(t, s), NEW f
  PROVE  EndsWith(Filtered(t, f), Filtered(s, f))
<1> DEFINE S == {r \in Records : Passes(r, f)}
           d == Len(t) - Len(s)
           ahead == SubSeq(t, 1, d)
<1>1. Len(t) \in Nat /\ Len(s) \in Nat /\ Len(s) <= Len(t) /\ \A k \in 1 .. Len(t) : t[k] \in Records
  BY Entries DEF EndsWith
<1>2. d \in 0 .. Len(t)
  BY <1>1
<1>3. ahead \in Seq(Records) /\ Len(ahead) = d /\ \A k \in 1 .. d : ahead[k] = t[k]
  <2>1. \A k \in 1 .. d : t[k] \in Records
    BY <1>1
  <2> HIDE DEF d
  <2>2. QED
    BY <1>2, <2>1, SubSeqProperties
<1> HIDE DEF ahead
<1>4. ahead \o s = t
  <2>1. /\ ahead \o s \in Seq(Records) /\ Len(ahead \o s) = d + Len(s)
        /\ \A i \in 1 .. d : (ahead \o s)[i] = ahead[i]
        /\ \A i \in 1 .. Len(s) : (ahead \o s)[d + i] = s[i]
    BY <1>3, Joined
  <2>2. Len(ahead \o s) = Len(t)
    BY <1>1, <2>1
  <2>3. \A i \in 1 .. Len(s) : s[i] = t[d + i]
    BY DEF EndsWith
  <2>4. ASSUME NEW i \in 1 .. Len(t) PROVE (ahead \o s)[i] = t[i]
    <3>1. CASE i <= d
      BY <1>1, <1>2, <1>3, <2>1, <3>1
    <3>2. CASE i > d
      <4> DEFINE k == i - d
      <4>1. k \in 1 .. Len(s) /\ i = d + k
        BY <1>1, <3>2
      <4> HIDE DEF k
      <4>2. QED
        BY <2>1, <2>3, <4>1
    <3>3. i <= d \/ i > d
      BY <1>1
    <3>4. QED
      BY <3>1, <3>2, <3>3
  <2>5. QED
    BY <2>1, <2>2, <2>4, SeqEqual
<1> HIDE DEF S, d
<1>5. Sifted(t, S) = Sifted(ahead, S) \o Sifted(s, S)
  <2>1. Sifted(ahead \o s, S) = Sifted(ahead, S) \o Sifted(s, S)
    BY <1>3, SiftedConcat
  <2>2. QED
    BY <1>4, <2>1
<1>6. Sifted(ahead, S) \in Seq(Records) /\ Sifted(s, S) \in Seq(Records)
  BY <1>3, SiftedType
<1>7. EndsWith(Sifted(ahead, S) \o Sifted(s, S), Sifted(s, S))
  BY <1>6, EndsJoined
<1>8. QED
  BY <1>5, <1>7 DEF Filtered, S

LEMMA FilteredType ==
  ASSUME NEW s \in Seq(Records), NEW f
  PROVE  /\ Filtered(s, f) \in Seq(Records) /\ Len(Filtered(s, f)) \in Nat
         /\ Len(Filtered(s, f)) <= Len(s)
         /\ \A i \in 1 .. Len(Filtered(s, f)) : \E k \in 1 .. Len(s) : Filtered(s, f)[i] = s[k]
         /\ Rising(s) => Sorted(Filtered(s, f))
<1> DEFINE S == {r \in Records : Passes(r, f)}  r == Sifted(s, S)
<1>1. PICK e \in [1 .. Len(r) -> 1 .. Len(s)] :
        /\ \A i, j \in 1 .. Len(r) : i < j => e[i] < e[j]
        /\ \A i \in 1 .. Len(r) : r[i] = s[e[i]]
  <2> HIDE DEF S
  <2>1. QED
    BY SiftedPicks
<1>2. r \in Seq(Records) /\ Len(r) \in Nat /\ Len(r) <= Len(s)
  <2> HIDE DEF S
  <2>1. QED
    BY SiftedType
<1>3. r = Filtered(s, f)
  BY DEF Filtered
<1> HIDE DEF S, r
<1>4. ASSUME Rising(s) PROVE Sorted(r)
  <2> SUFFICES ASSUME NEW i \in 1 .. Len(r), NEW j \in 1 .. Len(r), i < j
               PROVE  r[i].number < r[j].number
    BY DEF Sorted
  <2>1. e[i] \in 1 .. Len(s) /\ e[j] \in 1 .. Len(s) /\ e[i] < e[j]
    BY <1>1
  <2>2. s[e[j]].number >= s[e[i]].number + (e[j] - e[i])
    BY <1>4, <2>1, Entries DEF Rising
  <2>3. s[e[j]].number \in Int /\ s[e[i]].number \in Int /\ Len(s) \in Nat
    BY <2>1, Entries
  <2>4. s[e[i]].number < s[e[j]].number
    BY <2>1, <2>2, <2>3
  <2>5. QED
    BY <1>1, <2>4
<1>5. QED
  BY <1>1, <1>2, <1>3, <1>4

-----------------------------------------------------------------------------
\* Numbers.
LEMMA Thinned ==
  ASSUME NEW K \in Seq(Records), NEW m \in Seq(Records), NEW c \in Nat, NEW d \in Nat,
         Len(K) = Len(m) + d, c <= Len(m),
         \A i \in 1 .. Len(m) : m[i] = K[IF i <= c THEN i ELSE i + d],
         Rising(K), NEW n \in Int, NEW count \in Int
  PROVE  /\ Rising(m)
         /\ UpTo(K, n) => UpTo(m, n)
         /\ Accounted(K, n, count) => Accounted(m, n, count + d)
         /\ Accounted(K, n, count) /\ c = 0 => Accounted(m, n, count)
<1> DEFINE g(i) == IF i <= c THEN i ELSE i + d
<1>1. /\ Len(K) \in Nat /\ Len(m) \in Nat
      /\ \A i \in 1 .. Len(K) : K[i].number \in Int
      /\ \A i \in 1 .. Len(m) : m[i].number \in Int
  BY Entries
<1>2. \A i \in 1 .. Len(m) : g(i) \in 1 .. Len(K) /\ m[i] = K[g(i)]
  BY <1>1
<1>3. ASSUME NEW i \in 1 .. Len(m), NEW j \in 1 .. Len(m), i <= j
      PROVE  m[j].number >= m[i].number + (j - i)
  <2>1. g(j) - g(i) >= j - i /\ g(i) <= g(j) /\ g(i) \in Int /\ g(j) \in Int
    BY <1>3
  <2> HIDE DEF g
  <2>2. g(i) \in 1 .. Len(K) /\ g(j) \in 1 .. Len(K) /\ m[i] = K[g(i)] /\ m[j] = K[g(j)]
    BY <1>2
  <2>3. K[g(j)].number >= K[g(i)].number + (g(j) - g(i))
    BY <2>1, <2>2 DEF Rising
  <2> DEFINE x == K[g(i)].number  y == K[g(j)].number  u == g(i)  v == g(j)
  <2>4. x \in Int /\ y \in Int /\ u \in Int /\ v \in Int /\ i \in Int /\ j \in Int
    BY <1>1, <2>1, <2>2
  <2>5. y >= x + (v - u) /\ v - u >= j - i
    BY <2>1, <2>3
  <2>6. m[i].number = x /\ m[j].number = y
    BY <2>2
  <2> HIDE DEF x, y, u, v
  <2>7. y >= x + (j - i)
    BY <2>4, <2>5
  <2>8. QED
    BY <2>6, <2>7
<1>4. ASSUME UpTo(K, n), NEW i \in 1 .. Len(m) PROVE m[i].number <= n
  <2> HIDE DEF g
  <2>1. QED
    BY <1>2, <1>4 DEF UpTo
<1>5. ASSUME Accounted(K, n, count), Len(m) > 0
      PROVE  /\ n - m[1].number + 1 - Len(m) <= count + d
             /\ c = 0 => n - m[1].number + 1 - Len(m) <= count
  <2> DEFINE x == K[1].number  y == m[1].number  L == Len(m)
  <2>1. 1 \in 1 .. Len(m) /\ 1 \in 1 .. Len(K) /\ g(1) \in 1 .. Len(K) /\ m[1] = K[g(1)]
        /\ Len(K) > 0
    BY <1>1, <1>2, <1>5
  <2>2. n - x + 1 - (L + d) <= count
    BY <1>5, <2>1 DEF Accounted
  <2>3. y >= x + (g(1) - 1)
    <3>1. g(1) >= 1 /\ 1 \in 1 .. Len(K)
      BY <2>1
    <3> HIDE DEF g
    <3>2. QED
      BY <2>1, <3>1 DEF Rising
  <2>4. g(1) >= 1 /\ (c = 0 => g(1) = 1 + d) /\ g(1) \in Int
    OBVIOUS
  <2>5. x \in Int /\ y \in Int /\ L \in Int
    BY <1>1, <2>1
  <2> DEFINE p == g(1)
  <2> HIDE DEF x, y, L, p, g
  <2>6. y >= x + (p - 1) /\ p >= 1 /\ (c = 0 => p = 1 + d) /\ p \in Int
    BY <2>3, <2>4 DEF p
  <2>7. n - y + 1 - L <= count + d /\ (c = 0 => n - y + 1 - L <= count)
    BY <2>2, <2>5, <2>6
  <2>8. QED
    BY <2>7 DEF y, L
<1>6. QED
  BY <1>3, <1>4, <1>5 DEF Rising, UpTo, Accounted

LEMMA EndsRising ==
  ASSUME NEW t \in Seq(Records), NEW s \in Seq(Records), EndsWith(t, s), Rising(t),
         NEW n \in Int, NEW count \in Int
  PROVE  /\ Rising(s)
         /\ UpTo(t, n) => UpTo(s, n)
         /\ Accounted(t, n, count) => Accounted(s, n, count)
<1> DEFINE d == Len(t) - Len(s)
<1>1. Len(t) \in Nat /\ Len(s) \in Nat /\ Len(s) <= Len(t)
  BY Entries DEF EndsWith
<1>2. d \in Nat /\ Len(t) = Len(s) + d
  BY <1>1
<1>3. \A i \in 1 .. Len(s) : s[i] = t[d + i]
  BY DEF EndsWith
<1> HIDE DEF d
<1>4. \A i \in 1 .. Len(s) : s[i] = t[IF i <= 0 THEN i ELSE i + d]
  <2> SUFFICES ASSUME NEW i \in 1 .. Len(s) PROVE s[i] = t[IF i <= 0 THEN i ELSE i + d]
    OBVIOUS
  <2>1. ~(i <= 0) /\ d + i = i + d
    BY <1>2
  <2>2. QED
    BY <1>3, <2>1
<1>5. 0 \in Nat /\ 0 <= Len(s)
  BY <1>1
<1>6. QED
  BY <1>2, <1>4, <1>5, Thinned

LEMMA EndsSorted ==
  ASSUME NEW t \in Seq(Records), NEW s \in Seq(Records), EndsWith(t, s), NEW n
  PROVE  (Sorted(t) => Sorted(s)) /\ (UpTo(t, n) => UpTo(s, n))
<1> DEFINE d == Len(t) - Len(s)
<1>1. Len(t) \in Nat /\ Len(s) \in Nat /\ Len(s) <= Len(t) /\ d \in Nat
  BY Entries DEF EndsWith
<1>2. \A i \in 1 .. Len(s) : d + i \in 1 .. Len(t) /\ s[i] = t[d + i]
  BY <1>1 DEF EndsWith
<1>3. \A i, j \in 1 .. Len(s) : i < j => d + i < d + j
  BY <1>1
<1> HIDE DEF d
<1>4. QED
  BY <1>2, <1>3 DEF Sorted, UpTo

LEMMA JoinedSorted ==
  ASSUME NEW a \in Seq(Records), NEW b \in Seq(Records), Sorted(a), Sorted(b), Before(a, b),
         NEW n, UpTo(a, n), UpTo(b, n)
  PROVE  Sorted(a \o b) /\ UpTo(a \o b, n)
<1>1. /\ Len(a) \in Nat /\ Len(b) \in Nat
      /\ Len(a \o b) = Len(a) + Len(b)
      /\ \A i \in 1 .. Len(a) : (a \o b)[i] = a[i]
      /\ \A i \in 1 .. Len(b) : (a \o b)[Len(a) + i] = b[i]
  BY Joined, Entries
<1> DEFINE s == a \o b  L == Len(a)  M == Len(b)
<1>2. \A i \in 1 .. L + M :
        \/ i \in 1 .. L /\ s[i] = a[i]
        \/ i - L \in 1 .. M /\ s[i] = b[i - L] /\ i > L
  <2> SUFFICES ASSUME NEW i \in 1 .. L + M
               PROVE  \/ i \in 1 .. L /\ s[i] = a[i]
                      \/ i - L \in 1 .. M /\ s[i] = b[i - L] /\ i > L
    OBVIOUS
  <2>1. CASE i <= L
    BY <1>1, <2>1
  <2>2. CASE i > L
    <3>1. i - L \in 1 .. M /\ L + (i - L) = i
      BY <1>1, <2>2
    <3>2. (a \o b)[L + (i - L)] = b[i - L]
      BY <1>1, <3>1
    <3>3. QED
      BY <2>2, <3>1, <3>2
  <2>3. i <= L \/ i > L
    BY <1>1
  <2>4. QED
    BY <2>1, <2>2, <2>3
<1>3. Len(s) = L + M /\ L \in Nat /\ M \in Nat
  BY <1>1
<1> HIDE DEF s, L, M
<1>4. ASSUME NEW i \in 1 .. L + M, NEW j \in 1 .. L + M, i < j PROVE s[i].number < s[j].number
  <2>1. CASE i \in 1 .. L /\ s[i] = a[i] /\ j \in 1 .. L /\ s[j] = a[j]
    BY <1>4, <2>1 DEF Sorted, L
  <2>2. CASE i \in 1 .. L /\ s[i] = a[i] /\ j - L \in 1 .. M /\ s[j] = b[j - L]
    BY <2>2 DEF Before, L, M
  <2>3. CASE i - L \in 1 .. M /\ s[i] = b[i - L] /\ j - L \in 1 .. M /\ s[j] = b[j - L]
    <3>1. i - L < j - L
      BY <1>3, <1>4
    <3>2. QED
      BY <2>3, <3>1 DEF Sorted, M
  <2>4. i > L => ~(j \in 1 .. L)
    BY <1>3, <1>4
  <2>5. QED
    BY <1>2, <2>1, <2>2, <2>3, <2>4
<1>5. ASSUME NEW i \in 1 .. L + M PROVE s[i].number <= n
  BY <1>2 DEF UpTo, L, M
<1>6. QED
  BY <1>3, <1>4, <1>5 DEF Sorted, UpTo, s

\* A new record behind all others.
LEMMA GrownRising ==
  ASSUME NEW m \in Seq(Records), NEW r \in Records, NEW n \in Int, NEW count \in Nat,
         Rising(m), UpTo(m, n), Accounted(m, n, count), r.number = n + 1
  PROVE  /\ Rising(Append(m, r)) /\ UpTo(Append(m, r), n + 1)
         /\ Accounted(Append(m, r), n + 1, count)
<1> DEFINE s == Append(m, r)  L == Len(m)
<1>1. /\ L \in Nat /\ Len(s) = L + 1
      /\ \A i \in 1 .. L : s[i] = m[i] /\ m[i].number \in Int
      /\ s[L + 1] = r
  BY Extended, Entries
<1> HIDE DEF s
<1>2. ASSUME NEW i \in 1 .. L + 1, NEW j \in 1 .. L + 1, i <= j
      PROVE  s[j].number >= s[i].number + (j - i)
  <2>1. CASE j \in 1 .. L
    <3>1. i \in 1 .. L
      BY <1>1, <1>2, <2>1
    <3>2. QED
      BY <1>1, <1>2, <2>1, <3>1 DEF Rising
  <2>2. CASE j = L + 1 /\ i \in 1 .. L
    <3>1. L \in 1 .. L /\ i <= L
      BY <1>1, <2>2
    <3>2. m[L].number >= m[i].number + (L - i) /\ m[L].number <= n
      BY <2>2, <3>1 DEF Rising, UpTo
    <3> DEFINE x == m[i].number  y == m[L].number
    <3>3. x \in Int /\ y \in Int /\ y >= x + (L - i) /\ y <= n /\ s[i].number = x
          /\ s[j].number = n + 1
      BY <1>1, <2>2, <3>1, <3>2
    <3> HIDE DEF x, y
    <3>4. n + 1 >= x + (j - i)
      BY <1>1, <2>2, <3>3
    <3>5. QED
      BY <3>3, <3>4
  <2>3. CASE j = L + 1 /\ i = L + 1
    <3>1. s[i].number = n + 1 /\ s[j].number = n + 1 /\ j - i = 0
      BY <1>1, <2>3
    <3>2. QED
      BY <3>1
  <2>4. /\ j \in 1 .. L \/ j = L + 1
        /\ j = L + 1 => i \in 1 .. L \/ i = L + 1
    <3>1. L \in Nat /\ i \in 1 .. L + 1 /\ j \in 1 .. L + 1
      BY <1>1
    <3>2. i \in 1 .. L \/ i = L + 1
      BY <3>1
    <3>3. j \in 1 .. L \/ j = L + 1
      BY <3>1
    <3>4. QED
      BY <3>2, <3>3
  <2>5. QED
    BY <2>1, <2>2, <2>3, <2>4
<1>3. ASSUME NEW i \in 1 .. L + 1 PROVE s[i].number <= n + 1
  <2>1. CASE i \in 1 .. L
    <3>1. m[i].number <= n /\ m[i].number \in Int /\ s[i] = m[i]
      BY <1>1, <2>1 DEF UpTo
    <3>2. QED
      BY <3>1
  <2>2. CASE i = L + 1
    BY <1>1, <2>2
  <2>3. QED
    BY <1>1, <2>1, <2>2
<1>4. n + 1 - s[1].number + 1 - (L + 1) <= count
  <2>1. CASE L = 0
    BY <1>1, <2>1
  <2>2. CASE L > 0
    <3>1. n - m[1].number + 1 - L <= count /\ s[1] = m[1] /\ m[1].number \in Int
      BY <1>1, <2>2 DEF Accounted
    <3>2. QED
      BY <1>1, <3>1
  <2>3. QED
    BY <1>1, <2>1, <2>2
<1> HIDE DEF L
<1>5. Rising(s)
  BY <1>1, <1>2 DEF Rising
<1>6. UpTo(s, n + 1)
  BY <1>1, <1>3 DEF UpTo
<1>7. Accounted(s, n + 1, count)
  BY <1>1, <1>4 DEF Accounted
<1>8. QED
  BY <1>5, <1>6, <1>7 DEF s

-----------------------------------------------------------------------------
\* The steps.
LEMMA KeptEntries ==
  ASSUME LogInv
  PROVE  /\ Kept \in Seq(Records) /\ Len(Kept) = Len(records) + Len(buffer)
         /\ \A i \in 1 .. Len(records) : Kept[i] = records[i]
         /\ \A i \in 1 .. Len(buffer) : Kept[Len(records) + i] = buffer[i]
         /\ EndsWith(Kept, buffer) /\ Rising(records) /\ UpTo(records, posted)
         /\ Rising(buffer) /\ Before(records, buffer) /\ limit \in Nat /\ limit > 0
<1>1. records \in Seq(Records) /\ buffer \in Seq(Records) /\ Rising(Kept) /\ UpTo(Kept, posted)
  BY DEF LogInv
<1>2. /\ Kept \in Seq(Records) /\ Len(Kept) = Len(records) + Len(buffer)
      /\ \A i \in 1 .. Len(records) : Kept[i] = records[i]
      /\ \A i \in 1 .. Len(buffer) : Kept[Len(records) + i] = buffer[i]
      /\ EndsWith(Kept, buffer)
  BY <1>1, Joined, EndsJoined DEF Kept
<1>3. Len(records) \in Nat /\ Len(buffer) \in Nat
  BY <1>1, Entries
<1>4. Rising(records)
  <2> SUFFICES ASSUME NEW i \in 1 .. Len(records), NEW j \in 1 .. Len(records), i <= j
               PROVE  records[j].number >= records[i].number + (j - i)
    BY DEF Rising
  <2>1. i \in 1 .. Len(Kept) /\ j \in 1 .. Len(Kept)
    BY <1>2, <1>3
  <2>2. Kept[j].number >= Kept[i].number + (j - i)
    BY <1>1, <2>1 DEF Rising
  <2>3. QED
    BY <1>2, <2>2
<1>5. UpTo(records, posted)
  <2> SUFFICES ASSUME NEW i \in 1 .. Len(records) PROVE records[i].number <= posted
    BY DEF UpTo
  <2>1. i \in 1 .. Len(Kept)
    BY <1>2, <1>3
  <2>2. QED
    BY <1>1, <1>2, <2>1 DEF UpTo
<1>6. Rising(buffer)
  <2>1. 0 \in Int
    OBVIOUS
  <2>2. QED
    BY <1>1, <1>2, <2>1, EndsRising
<1>7. Before(records, buffer)
  <2> SUFFICES ASSUME NEW i \in 1 .. Len(records), NEW j \in 1 .. Len(buffer)
               PROVE  records[i].number < buffer[j].number
    BY DEF Before
  <2> DEFINE k == Len(records) + j
  <2>1. i \in 1 .. Len(Kept) /\ k \in 1 .. Len(Kept) /\ i <= k /\ k - i >= 1
    BY <1>2, <1>3
  <2>2. Kept[i] = records[i] /\ Kept[k] = buffer[j]
    BY <1>2
  <2>3. Kept[k].number >= Kept[i].number + (k - i)
    BY <1>1, <2>1 DEF Rising
  <2> DEFINE x == Kept[i].number  y == Kept[k].number
  <2>4. \A m \in 1 .. Len(Kept) : Kept[m].number \in Int
    BY <1>2, Entries
  <2>5. x \in Int /\ y \in Int /\ k \in Int /\ i \in Int
    BY <1>3, <2>1, <2>4
  <2> HIDE DEF x, y, k
  <2>6. x < y
    BY <2>1, <2>3, <2>5 DEF x, y
  <2>7. QED
    BY <2>2, <2>6 DEF x, y
<1>8. limit \in Nat /\ limit > 0
  BY LogPanelAssumption DEF LogInv
<1>9. QED
  BY <1>1, <1>2, <1>4, <1>5, <1>6, <1>7, <1>8

\* Rows built again from the records.
LEMMA RebuiltOk ==
  ASSUME NEW rs \in Seq(Records), Rising(rs), UpTo(rs, posted), NEW n \in Nat, Len(rs) <= n, NEW f,
         Before(rs, buffer), Rebuild(rs, f, n)
  PROVE  /\ view' \in Seq(Records) /\ Len(view') <= n /\ EndsWith(view', Filtered(rs, f))
         /\ Sorted(view') /\ UpTo(view', posted) /\ Before(view', buffer)
<1> DEFINE v == Filtered(rs, f)
<1>1. /\ v \in Seq(Records) /\ Len(v) \in Nat /\ Len(v) <= Len(rs) /\ Sorted(v)
      /\ \A i \in 1 .. Len(v) : \E k \in 1 .. Len(rs) : v[i] = rs[k]
  BY FilteredType
<1>2. Len(rs) \in Nat
  BY Entries
<1>3. view' = Newest(v, n)
  BY DEF Rebuild
<1> HIDE DEF v
<1>4. Len(v) <= n
  BY <1>1, <1>2
<1>5. view' = v
  BY <1>1, <1>3, <1>4, NewestIs
<1>6. UpTo(v, posted) /\ Before(v, buffer)
  BY <1>1 DEF UpTo, Before
<1>7. EndsWith(v, v)
  BY <1>1 DEF EndsWith
<1>8. QED
  BY <1>1, <1>4, <1>5, <1>6, <1>7 DEF v

LEMMA SetLimitKeeps == ASSUME LogInv, NEW n \in Limits, SetDisplayLimit(n) PROVE LogInv'
<1>1. n \in Nat /\ n > 0
  BY LogPanelAssumption
<1>2. /\ limit' = n /\ records' = Newest(records, n) /\ Rebuild(records', picked, n)
      /\ UNCHANGED <<posted, minimum, history, buffer, lost, paused, picked, present>>
  BY DEF SetDisplayLimit
<1> DEFINE rs == Newest(records, n)
<1>3. records \in Seq(Records) /\ buffer \in Seq(Records)
  BY DEF LogInv
<1>4. rs \in Seq(Records) /\ Len(rs) <= n /\ EndsWith(records, rs)
  BY <1>1, <1>3, NewestIs
<1> HIDE DEF rs
<1>5. records' = rs
  BY <1>2 DEF rs
<1>6. Rising(rs) /\ UpTo(rs, posted)
  <2>1. posted \in Int /\ 0 \in Int
    BY DEF LogInv
  <2>2. QED
    BY <1>3, <1>4, <2>1, KeptEntries, EndsRising
<1>7. Before(rs, buffer)
  <2> SUFFICES ASSUME NEW i \in 1 .. Len(rs), NEW j \in 1 .. Len(buffer)
               PROVE  rs[i].number < buffer[j].number
    BY DEF Before
  <2>1. Len(records) - Len(rs) + i \in 1 .. Len(records)
        /\ rs[i] = records[Len(records) - Len(rs) + i]
    BY <1>3, <1>4, Entries DEF EndsWith
  <2>2. QED
    BY <2>1, KeptEntries DEF Before
<1>8. /\ view' \in Seq(Records) /\ Len(view') <= n /\ EndsWith(view', Filtered(rs, picked))
      /\ Sorted(view') /\ UpTo(view', posted) /\ Before(view', buffer)
  <2>1. Rebuild(rs, picked, n)
    BY <1>2, <1>5
  <2>2. QED
    BY <1>1, <1>4, <1>6, <1>7, <2>1, RebuiltOk
<1>9. Kept' \in Seq(Records) /\ EndsWith(Kept, Kept')
  <2>1. Kept' = rs \o buffer /\ Kept = records \o buffer
    BY <1>2, <1>5 DEF Kept
  <2>2. EndsWith(records \o buffer, rs \o buffer)
    BY <1>3, <1>4, EndsJoined
  <2>3. rs \o buffer \in Seq(Records)
    BY <1>3, <1>4, Joined
  <2>4. QED
    BY <2>1, <2>2, <2>3
<1>10. Rising(Kept') /\ UpTo(Kept', posted) /\ Accounted(Kept', posted, lost)
  <2>1. posted \in Int /\ lost \in Int /\ Rising(Kept) /\ UpTo(Kept, posted)
        /\ Accounted(Kept, posted, lost)
    BY DEF LogInv
  <2>2. QED
    BY <1>9, <2>1, KeptEntries, EndsRising
<1>11. UNCHANGED <<posted, lost, history, buffer, picked>>
  BY <1>2
<1>12. QED
  BY <1>1, <1>2, <1>4, <1>5, <1>8, <1>10, <1>11
  DEF LogInv, Rising, UpTo, Accounted, Sorted, Before, EndsWith, Filtered

LEMMA PostKeeps == ASSUME LogInv, NEW c \in LogCameras, NEW l \in LogLevels, PostRecord(c, l) PROVE LogInv'
<1> DEFINE r == [number |-> posted + 1, camera |-> c, level |-> l]
           full == Len(buffer) >= PendingCap
           d == IF full THEN Dropped ELSE 0
           b == IF full THEN SubSeq(buffer, Dropped + 1, Len(buffer)) ELSE buffer
           m == records \o b
<1>1. /\ posted < MaxPosted /\ posted' = posted + 1
      /\ history' = Newest(Append(history, r), HistoryLimit)
      /\ buffer' = Append(b, r) /\ lost' = lost + d
      /\ UNCHANGED <<minimum, records, view, limit, paused, picked, present, stale>>
  <2>1. lost \in Nat
    BY DEF LogInv
  <2>2. lost' = lost + d
    BY <2>1 DEF PostRecord
  <2>3. QED
    BY <2>2 DEF PostRecord
<1>2. /\ MaxPosted \in Nat /\ PendingCap \in Nat \ {0} /\ HistoryLimit \in Nat \ {0}
      /\ posted \in Nat /\ lost \in Nat
  BY LogPanelAssumption DEF LogInv
<1>3. records \in Seq(Records) /\ buffer \in Seq(Records) /\ view \in Seq(Records)
      /\ history \in Seq(Records) /\ Len(buffer) <= PendingCap
  BY DEF LogInv
<1>4. Len(buffer) \in Nat /\ Len(records) \in Nat /\ Len(history) \in Nat
  BY <1>3, Entries
<1>5. r \in Records /\ r.number = posted + 1
  BY <1>1, <1>2 DEF Records
<1>6. d \in 0 .. Len(buffer) /\ (full => d > 0)
  <2>1. Dropped \in 1 .. PendingCap
    BY <1>2 DEF Dropped
  <2>2. QED
    BY <1>2, <1>4, <2>1
<1>7. /\ b \in Seq(Records) /\ Len(b) = Len(buffer) - d
      /\ \A i \in 1 .. Len(b) : b[i] = buffer[d + i]
  <2>1. CASE full
    <3>1. b = SubSeq(buffer, d + 1, Len(buffer))
      BY <2>1
    <3> HIDE DEF d, b
    <3>2. QED
      BY <1>3, <1>6, <3>1, SuffixOf
  <2>2. CASE ~full
    <3>1. b = buffer /\ d = 0
      BY <2>2
    <3> HIDE DEF d, b
    <3>2. QED
      BY <1>3, <1>4, <3>1
  <2>3. QED
    BY <2>1, <2>2
<1>8. Len(b) + 1 <= PendingCap
  <2>1. ~full => Len(buffer) < PendingCap
    BY <1>2, <1>4
  <2> HIDE DEF b
  <2>2. QED
    BY <1>2, <1>3, <1>4, <1>6, <1>7, <2>1
<1> HIDE DEF r, full, d, b
<1>9. /\ m \in Seq(Records) /\ Len(m) = Len(records) + Len(b)
      /\ \A i \in 1 .. Len(records) : m[i] = records[i]
      /\ \A i \in 1 .. Len(b) : m[Len(records) + i] = b[i]
  BY <1>3, <1>7, Joined
<1>10. Len(Kept) = Len(m) + d /\ Len(records) <= Len(m) /\ d \in Nat
  BY <1>4, <1>6, <1>7, <1>9, KeptEntries
<1>11. \A i \in 1 .. Len(m) : m[i] = Kept[IF i <= Len(records) THEN i ELSE i + d]
  <2> SUFFICES ASSUME NEW i \in 1 .. Len(m)
               PROVE  m[i] = Kept[IF i <= Len(records) THEN i ELSE i + d]
    OBVIOUS
  <2> HIDE DEF m
  <2>1. CASE i <= Len(records)
    <3>1. i \in 1 .. Len(records)
      BY <1>4, <2>1
    <3>2. QED
      BY <1>9, <2>1, <3>1, KeptEntries
  <2>2. CASE i > Len(records)
    <3> DEFINE k == i - Len(records)
    <3>1. /\ k \in 1 .. Len(b) /\ i = Len(records) + k /\ ~(i <= Len(records))
          /\ d + k \in 1 .. Len(buffer) /\ i + d = Len(records) + (d + k)
      BY <1>4, <1>6, <1>7, <1>9, <2>2
    <3> HIDE DEF k
    <3>2. m[i] = b[k] /\ b[k] = buffer[d + k]
      BY <1>7, <1>9, <3>1
    <3>3. Kept[i + d] = buffer[d + k]
      BY <3>1, KeptEntries
    <3>4. QED
      BY <3>1, <3>2, <3>3
  <2>3. i <= Len(records) \/ i > Len(records)
    BY <1>4
  <2>4. QED
    BY <2>1, <2>2, <2>3
<1> HIDE DEF m
<1>12. Rising(m) /\ UpTo(m, posted) /\ Accounted(m, posted, lost + d)
  <2>1. posted \in Int /\ lost \in Int /\ Rising(Kept) /\ UpTo(Kept, posted)
        /\ Accounted(Kept, posted, lost)
    BY DEF LogInv
  <2>2. Kept \in Seq(Records)
    BY KeptEntries
  <2>3. QED
    BY <1>4, <1>9, <1>10, <1>11, <2>1, <2>2, Thinned
<1>13. /\ Rising(Append(m, r)) /\ UpTo(Append(m, r), posted + 1)
       /\ Accounted(Append(m, r), posted + 1, lost + d)
  <2>1. posted \in Int /\ lost + d \in Nat
    BY <1>2, <1>10
  <2>2. QED
    BY <1>5, <1>9, <1>12, <2>1, GrownRising
<1>14. Kept' = Append(m, r)
  <2>1. Kept' = records \o Append(b, r)
    BY <1>1 DEF Kept
  <2>2. Append(b, r) = b \o <<r>> /\ Append(m, r) = m \o <<r>> /\ <<r>> \in Seq(Records)
    BY <1>5, <1>7, <1>9, AppendIsConcat
  <2>3. records \o (b \o <<r>>) = (records \o b) \o <<r>>
    BY <1>3, <1>7, <2>2, ConcatAssociative
  <2>4. QED
    BY <2>1, <2>2, <2>3 DEF m
<1>15. /\ buffer' \in Seq(Records) /\ Len(buffer') <= PendingCap
       /\ UpTo(view, posted + 1) /\ Before(view, buffer')
  <2>1. /\ Append(b, r) \in Seq(Records) /\ Len(Append(b, r)) = Len(b) + 1
        /\ \A i \in 1 .. Len(b) : Append(b, r)[i] = b[i]
        /\ Append(b, r)[Len(b) + 1] = r
    BY <1>5, <1>7, Extended
  <2>2. UpTo(view, posted) /\ Before(view, buffer)
    BY DEF LogInv
  <2>3. \A i \in 1 .. Len(view) : view[i].number <= posted /\ view[i].number \in Int
    BY <1>3, <2>2, Entries DEF UpTo
  <2>4. ASSUME NEW i \in 1 .. Len(view), NEW j \in 1 .. Len(b) + 1
        PROVE  view[i].number < Append(b, r)[j].number
    <3>1. CASE j \in 1 .. Len(b)
      <4>1. d + j \in 1 .. Len(buffer) /\ Append(b, r)[j] = buffer[d + j]
        BY <1>4, <1>6, <1>7, <2>1, <3>1
      <4>2. QED
        BY <2>2, <4>1 DEF Before
    <3>2. CASE j = Len(b) + 1
      BY <1>2, <1>5, <2>1, <2>3, <3>2
    <3>3. Len(b) \in Nat
      BY <1>7, Entries
    <3>4. j \in 1 .. Len(b) \/ j = Len(b) + 1
      BY <3>3
    <3>5. QED
      BY <3>1, <3>2, <3>4
  <2>5. \A i \in 1 .. Len(view) : view[i].number <= posted + 1
    BY <1>2, <2>3
  <2>6. QED
    BY <1>1, <1>8, <2>1, <2>4, <2>5 DEF UpTo, Before
<1>16. /\ history' \in Seq(Records) /\ Len(history') <= HistoryLimit
       /\ \A i \in 1 .. Len(history') : history'[i].number = posted + 1 - Len(history') + i
  <2> DEFINE h == Append(history, r)
  <2>1. /\ h \in Seq(Records) /\ Len(h) = Len(history) + 1
        /\ \A i \in 1 .. Len(history) : h[i] = history[i]
        /\ h[Len(history) + 1] = r
    BY <1>3, <1>5, Extended
  <2> HIDE DEF h
  <2>2. \A i \in 1 .. Len(h) : h[i].number = posted + 1 - Len(h) + i
    <3> SUFFICES ASSUME NEW i \in 1 .. Len(h) PROVE h[i].number = posted + 1 - Len(h) + i
      OBVIOUS
    <3>1. CASE i \in 1 .. Len(history)
      <4>1. h[i].number = posted - Len(history) + i
        BY <2>1, <3>1 DEF LogInv
      <4>2. QED
        BY <1>2, <1>4, <2>1, <4>1
    <3>2. CASE i = Len(history) + 1
      BY <1>2, <1>4, <1>5, <2>1, <3>2
    <3>3. QED
      BY <1>4, <2>1, <3>1, <3>2
  <2>3. history' = Newest(h, HistoryLimit)
    BY <1>1 DEF h
  <2>4. /\ history' \in Seq(Records) /\ Len(history') <= HistoryLimit /\ EndsWith(h, history')
    BY <1>2, <2>1, <2>3, NewestIs
  <2>5. Len(h) \in Nat /\ Len(history') \in Nat /\ Len(history') <= Len(h)
    BY <2>1, <2>4, Entries DEF EndsWith
  <2>6. ASSUME NEW i \in 1 .. Len(history')
        PROVE  history'[i].number = posted + 1 - Len(history') + i
    <3> DEFINE k == Len(h) - Len(history') + i
    <3>1. k \in 1 .. Len(h) /\ posted + 1 - Len(h) + k = posted + 1 - Len(history') + i
      BY <1>2, <2>5
    <3>2. history'[i] = h[k]
      BY <2>4 DEF EndsWith
    <3> HIDE DEF k
    <3>3. QED
      BY <2>2, <3>1, <3>2
  <2>7. QED
    BY <2>4, <2>6
<1>17. posted' \in 0 .. MaxPosted /\ lost' \in Nat /\ Sorted(view)
  BY <1>1, <1>2, <1>10 DEF LogInv
<1>18. UNCHANGED <<records, view, limit, picked, stale>>
  BY <1>1
<1>19. Rising(Kept') /\ UpTo(Kept', posted') /\ Accounted(Kept', posted', lost')
  BY <1>1, <1>13, <1>14
<1>20. UpTo(view, posted')
  <2>1. posted' = posted + 1
    BY <1>1
  <2>2. QED
    BY <1>15, <2>1
<1>21. \A i \in 1 .. Len(history') : history'[i].number = posted' - Len(history') + i
  <2> SUFFICES ASSUME NEW i \in 1 .. Len(history')
               PROVE  history'[i].number = posted' - Len(history') + i
    OBVIOUS
  <2>1. posted' = posted + 1 /\ posted \in Nat /\ Len(history') \in Nat
    BY <1>1, <1>2, <1>16, LenProperties
  <2>2. history'[i].number = posted + 1 - Len(history') + i
    BY <1>16
  <2>3. QED
    BY <2>1, <2>2
<1>22. QED
  BY <1>15, <1>16, <1>17, <1>18, <1>19, <1>20, <1>21
  DEF LogInv, Rising, UpTo, Accounted, Sorted, Before, EndsWith, Filtered

LEMMA FlushKeeps == ASSUME LogInv, FlushPending PROVE LogInv'
<1> DEFINE batch == Newest(buffer, limit)
           more == Filtered(batch, picked)
           rs == Newest(records \o batch, limit)
           shown == IF more = <<>> THEN view ELSE Newest(view \o more, limit)
<1>1. /\ buffer' = <<>> /\ records' = rs /\ view' = shown
      /\ UNCHANGED <<posted, minimum, history, lost, limit, paused, picked, present, stale>>
  BY DEF FlushPending
<1>2. /\ records \in Seq(Records) /\ buffer \in Seq(Records) /\ view \in Seq(Records)
      /\ limit \in Nat /\ limit > 0 /\ posted \in Int /\ lost \in Int
      /\ Len(records) <= limit /\ Len(view) <= limit
  BY KeptEntries DEF LogInv
<1>3. /\ batch \in Seq(Records) /\ EndsWith(buffer, batch) /\ Len(batch) <= limit
      /\ Len(batch) = IF Len(buffer) > limit THEN limit ELSE Len(buffer)
      /\ Len(buffer) <= limit => batch = buffer
  BY <1>2, NewestIs
<1> HIDE DEF batch
<1>4. records \o batch \in Seq(Records) /\ Len(records \o batch) = Len(records) + Len(batch)
  BY <1>2, <1>3, Joined
<1>5. /\ rs \in Seq(Records) /\ Len(rs) <= limit /\ EndsWith(records \o batch, rs)
      /\ Len(rs) = IF Len(records) + Len(batch) > limit THEN limit ELSE Len(records) + Len(batch)
  BY <1>2, <1>4, NewestIs
<1> HIDE DEF rs
<1>6. Len(records) \in Nat /\ Len(buffer) \in Nat /\ Len(batch) \in Nat /\ Len(rs) \in Nat
  BY <1>2, <1>3, <1>5, Entries
<1>7. EndsWith(Kept, rs)
  <2>1. CASE Len(buffer) <= limit
    BY <1>3, <1>5, <2>1 DEF Kept
  <2>2. CASE Len(buffer) > limit
    <3>1. EndsWith(records \o batch, batch)
      BY <1>2, <1>3, EndsJoined
    <3>2. Len(rs) <= Len(batch)
      BY <1>2, <1>3, <1>5, <1>6, <2>2
    <3>3. EndsWith(batch, rs)
      BY <1>3, <1>4, <1>5, <3>1, <3>2, EndsBoth
    <3>4. EndsWith(buffer, rs)
      BY <1>2, <1>3, <1>5, <3>3, EndsTwice
    <3>5. EndsWith(records \o buffer, rs)
      BY <1>2, <1>5, <3>4, EndsJoined
    <3>6. QED
      BY <3>5 DEF Kept
  <2>3. QED
    BY <1>2, <1>6, <2>1, <2>2
<1>8. Rising(rs) /\ UpTo(rs, posted) /\ Accounted(rs, posted, lost)
  <2>1. Rising(Kept) /\ UpTo(Kept, posted) /\ Accounted(Kept, posted, lost) /\ Kept \in Seq(Records)
    BY KeptEntries DEF LogInv
  <2>2. QED
    BY <1>2, <1>5, <1>7, <2>1, EndsRising
<1>9. Kept' = rs
  <2>1. Kept' = rs \o <<>>
    BY <1>1 DEF Kept
  <2>2. QED
    BY <1>5, <2>1, ConcatEmptySeq
<1>10. /\ more \in Seq(Records) /\ Sorted(more) /\ UpTo(more, posted) /\ Before(view, more)
       /\ Len(more) \in Nat
  <2>1. Rising(buffer) /\ UpTo(buffer, posted)
    <3>1. Rising(Kept) /\ UpTo(Kept, posted) /\ Kept \in Seq(Records) /\ EndsWith(Kept, buffer)
      BY KeptEntries DEF LogInv
    <3>2. QED
      BY <1>2, <3>1, EndsRising
  <2>2. Rising(batch) /\ UpTo(batch, posted)
    BY <1>2, <1>3, <2>1, EndsRising
  <2>3. /\ more \in Seq(Records) /\ Sorted(more) /\ Len(more) \in Nat
        /\ \A i \in 1 .. Len(more) : \E k \in 1 .. Len(batch) : more[i] = batch[k]
    BY <1>3, <2>2, FilteredType
  <2>4. \A k \in 1 .. Len(batch) : /\ Len(buffer) - Len(batch) + k \in 1 .. Len(buffer)
                                   /\ batch[k] = buffer[Len(buffer) - Len(batch) + k]
    BY <1>3, <1>6 DEF EndsWith
  <2>5. Before(view, batch)
    <3>1. Before(view, buffer)
      BY DEF LogInv
    <3>2. QED
      BY <2>4, <3>1 DEF Before
  <2> HIDE DEF more
  <2>6. UpTo(more, posted) /\ Before(view, more)
    BY <2>2, <2>3, <2>5 DEF UpTo, Before
  <2>7. QED
    BY <2>3, <2>6
<1>11. stale \/ EndsWith(view \o more, Filtered(rs, picked))
  <2>1. SUFFICES ASSUME ~stale PROVE EndsWith(view \o more, Filtered(rs, picked))
    OBVIOUS
  <2> DEFINE old == Filtered(records, picked)  all == Filtered(records \o batch, picked)
             latest == Filtered(rs, picked)
  <2>2. EndsWith(view, old) /\ old \in Seq(Records)
    BY <1>2, <2>1, FilteredType DEF LogInv
  <2>3. all = old \o more
    <3> DEFINE S == {r \in Records : Passes(r, picked)}
    <3>1. records \in Seq(Records) /\ batch \in Seq(Records)
      BY <1>2, <1>3
    <3> HIDE DEF S, batch
    <3>2. Sifted(records \o batch, S) = Sifted(records, S) \o Sifted(batch, S)
      BY <3>1, SiftedConcat
    <3>3. QED
      BY <3>2 DEF Filtered, S
  <2>4. EndsWith(all, latest) /\ all \in Seq(Records) /\ latest \in Seq(Records)
    BY <1>4, <1>5, EndsFiltered, FilteredType
  <2> HIDE DEF old, all, latest, more
  <2>5. EndsWith(view \o more, old \o more)
    BY <1>2, <1>10, <2>2, EndsJoined
  <2>6. view \o more \in Seq(Records) /\ old \o more \in Seq(Records)
    BY <1>2, <1>10, <2>2, Joined
  <2>7. EndsWith(view \o more, latest)
    BY <2>3, <2>4, <2>5, <2>6, EndsTwice
  <2>8. QED
    BY <2>7 DEF latest
<1> HIDE DEF more
<1>12. /\ view \o more \in Seq(Records) /\ Len(view \o more) = Len(view) + Len(more)
       /\ Sorted(view \o more) /\ UpTo(view \o more, posted)
  <2>1. Sorted(view) /\ UpTo(view, posted)
    BY DEF LogInv
  <2>2. QED
    BY <1>2, <1>10, <2>1, Joined, JoinedSorted
<1>13. /\ shown \in Seq(Records) /\ Len(shown) <= limit /\ EndsWith(view \o more, shown)
       /\ Len(shown) = limit \/ Len(shown) = Len(view \o more)
  <2>1. CASE more = <<>>
    <3>1. view \o more = view
      BY <1>2, <2>1, ConcatEmptySeq
    <3>2. Len(view) \in Nat
      BY <1>2, Entries
    <3>3. EndsWith(view, view)
      BY <3>2 DEF EndsWith
    <3>4. QED
      BY <1>2, <2>1, <3>1, <3>3
  <2>2. CASE more # <<>>
    <3> DEFINE w == Newest(view \o more, limit)
    <3>1. shown = w
      BY <2>2
    <3>2. /\ w \in Seq(Records) /\ Len(w) <= limit /\ EndsWith(view \o more, w)
          /\ Len(w) = limit \/ Len(w) = Len(view \o more)
      BY <1>2, <1>12, NewestIs
    <3> HIDE DEF w, shown
    <3>3. QED
      BY <3>1, <3>2
  <2>3. QED
    BY <2>1, <2>2
<1> HIDE DEF shown
<1>14. Sorted(shown) /\ UpTo(shown, posted)
  BY <1>12, <1>13, EndsSorted
<1>15. stale \/ EndsWith(shown, Filtered(rs, picked))
  <2>1. SUFFICES ASSUME ~stale PROVE EndsWith(shown, Filtered(rs, picked))
    OBVIOUS
  <2> DEFINE latest == Filtered(rs, picked)
  <2>2. EndsWith(view \o more, latest) /\ latest \in Seq(Records) /\ Len(latest) <= Len(rs) /\ Len(latest) \in Nat
    BY <1>5, <1>11, <2>1, FilteredType
  <2> HIDE DEF latest
  <2>3. Len(latest) <= Len(view \o more)
    BY <2>2 DEF EndsWith
  <2>4. Len(latest) <= Len(shown)
    BY <1>2, <1>5, <1>6, <1>13, <2>2, <2>3
  <2>5. EndsWith(shown, latest)
    BY <1>12, <1>13, <2>2, <2>4, EndsBoth
  <2>6. QED
    BY <2>5 DEF latest
<1>16. Before(shown, <<>>) /\ <<>> \in Seq(Records) /\ Len(<<>>) = 0
  BY DEF Before
<1>17. PendingCap \in Nat
  BY LogPanelAssumption
<1>18. UNCHANGED <<posted, lost, history, limit, picked, stale>>
  BY <1>1
<1>19. Rising(Kept') /\ UpTo(Kept', posted') /\ Accounted(Kept', posted', lost')
  BY <1>8, <1>9, <1>18
<1>20. stale' \/ EndsWith(view', Filtered(records', picked'))
  BY <1>1, <1>15
<1>21. QED
  BY <1>1, <1>2, <1>5, <1>13, <1>14, <1>16, <1>17, <1>18, <1>19, <1>20
  DEF LogInv, Rising, UpTo, Accounted, Sorted, Before, EndsWith, Filtered

LEMMA LogStep == LogInv /\ [LogNext]_logVars => LogInv'
<1> SUFFICES ASSUME LogInv, [LogNext]_logVars PROVE LogInv'
  OBVIOUS
<1>1. ASSUME NEW f, Pick(f) PROVE LogInv'
  <2>1. /\ picked' = f /\ Rebuild(records, f, limit)
        /\ UNCHANGED <<posted, minimum, history, records, buffer, lost, limit, paused, present>>
    BY <1>1 DEF Pick
  <2>2. /\ records \in Seq(Records) /\ Len(records) <= limit /\ limit \in Nat
        /\ Rising(records) /\ UpTo(records, posted) /\ Before(records, buffer)
    BY KeptEntries DEF LogInv
  <2>3. /\ view' \in Seq(Records) /\ Len(view') <= limit /\ EndsWith(view', Filtered(records, f))
        /\ Sorted(view') /\ UpTo(view', posted) /\ Before(view', buffer)
    BY <2>1, <2>2, RebuiltOk
  <2>4. Kept' = Kept
    BY <2>1 DEF Kept
  <2>5. /\ EndsWith(view', Filtered(records', picked')) /\ UpTo(view', posted')
        /\ Before(view', buffer')
    BY <2>1, <2>3
  <2>6. Rising(Kept') /\ UpTo(Kept', posted') /\ Accounted(Kept', posted', lost')
    BY <2>1, <2>4 DEF LogInv
  <2>7. UNCHANGED <<posted, history, records, buffer, lost, limit>>
    BY <2>1
  <2>8. QED
    BY <2>3, <2>5, <2>6, <2>7
    DEF LogInv, Rising, UpTo, Accounted, Sorted, Before, EndsWith, Filtered
<1>2. ASSUME NEW l, SetMinimumLevel(l) PROVE LogInv'
  BY <1>2 DEF SetMinimumLevel, panel, LogInv, Kept, Rising, UpTo, Accounted, Sorted, Before,
              EndsWith, Filtered
<1>3. CASE Pause \/ UNCHANGED logVars
  BY <1>3 DEF Pause, logVars, LogInv, Kept, Rising, UpTo, Accounted, Sorted, Before, EndsWith,
              Filtered
<1>4. CASE ClearLog
  <2>1. /\ history' = <<>> /\ records' = <<>> /\ buffer' = <<>> /\ view' = <<>> /\ lost' = 0
        /\ UNCHANGED <<posted, limit, picked>>
    BY <1>4 DEF ClearLog
  <2>2. Kept' = <<>> /\ <<>> \in Seq(Records) /\ Len(<<>>) = 0 /\ Len(<<>>) \in Nat
    BY <2>1 DEF Kept
  <2>3. EndsWith(<<>>, Filtered(<<>>, picked))
    <3>1. Filtered(<<>>, picked) = <<>>
      BY SiftedEmpty DEF Filtered
    <3>2. QED
      BY <3>1 DEF EndsWith
  <2>4. limit \in Nat /\ PendingCap \in Nat /\ HistoryLimit \in Nat
    BY LogPanelAssumption DEF LogInv
  <2>5. EndsWith(view', Filtered(records', picked'))
    BY <2>1, <2>3
  <2>6. QED
    BY <2>1, <2>2, <2>4, <2>5
    DEF LogInv, Rising, UpTo, Accounted, Sorted, Before, EndsWith, Filtered
<1>5. ASSUME NEW cs, ReloadCameraFilter(cs) PROVE LogInv'
  <2> DEFINE gone == picked.camera \notin cs \cup {Everyone}
  <2>1. /\ picked' = IF gone THEN [picked EXCEPT !.camera = Everyone] ELSE picked
        /\ stale' = (stale \/ gone)
        /\ UNCHANGED <<posted, minimum, history, records, buffer, lost, view, limit, paused>>
    BY <1>5 DEF ReloadCameraFilter
  <2>2. stale' \/ EndsWith(view', Filtered(records', picked'))
    <3>1. CASE gone
      BY <2>1, <3>1
    <3>2. CASE ~gone
      <4>1. picked' = picked /\ view' = view /\ records' = records /\ (stale => stale')
        BY <2>1, <3>2
      <4>2. stale \/ EndsWith(view, Filtered(records, picked))
        BY DEF LogInv
      <4>3. QED
        BY <4>1, <4>2
    <3>3. QED
      BY <3>1, <3>2
  <2>3. QED
    BY <2>1, <2>2
    DEF LogInv, Kept, Rising, UpTo, Accounted, Sorted, Before, EndsWith, Filtered
<1>6. QED
  BY <1>1, <1>2, <1>3, <1>4, <1>5, PostKeeps, FlushKeeps, SetLimitKeeps DEF LogNext

LEMMA LogStart == LogInit => LogInv
<1> SUFFICES ASSUME LogInit PROVE LogInv
  OBVIOUS
<1>1. /\ MaxPosted \in Nat /\ MaxPosted >= 1 /\ HistoryLimit \in Nat /\ HistoryLimit >= 1
      /\ PendingCap \in Nat /\ limit \in Limits /\ limit \in Nat /\ limit >= 1
  BY LogPanelAssumption DEF LogInit
<1>2. /\ history \in Seq(Records) /\ Len(history) \in 0 .. 1
      /\ \A i \in 1 .. Len(history) : history[i].number = 1
  <2>1. history \in Earlier
    BY DEF LogInit
  <2>2. CASE history = <<>>
    BY <2>2
  <2>3. CASE history # <<>>
    <3>1. PICK c \in LogCameras, l \in LogLevels :
            history = <<[number |-> 1, camera |-> c, level |-> l]>>
      BY <2>1, <2>3 DEF Earlier
    <3> DEFINE r == [number |-> 1, camera |-> c, level |-> l]
    <3>2. r \in Records /\ r.number = 1
      BY <1>1 DEF Records
    <3> HIDE DEF r
    <3>3. history = <<r>>
      BY <3>1 DEF r
    <3>4. QED
      BY <3>2, <3>3
  <2>4. QED
    BY <2>2, <2>3
<1>3. records = history
  <2>1. Len(history) <= limit
    BY <1>1, <1>2
  <2>2. QED
    BY <1>1, <1>2, <2>1, NewestIs DEF LogInit
<1>4. /\ posted = Len(history) /\ buffer = <<>> /\ lost = 0
      /\ view = Newest(Filtered(records, picked), limit)
  BY DEF LogInit
<1>5. /\ posted \in 0 .. MaxPosted /\ posted \in Int
      /\ buffer \in Seq(Records) /\ Len(buffer) = 0 /\ Len(records) <= limit
  BY <1>1, <1>2, <1>3, <1>4
<1>6. Kept = records
  BY <1>2, <1>3, <1>4, ConcatEmptySeq DEF Kept
<1>7. Rising(records) /\ UpTo(records, posted) /\ Accounted(records, posted, lost)
  <2>1. \A i, j \in 1 .. Len(records) : i = 1 /\ j = 1
    BY <1>2, <1>3
  <2>2. Rising(records)
    BY <1>2, <1>3, <2>1 DEF Rising
  <2>3. UpTo(records, posted)
    BY <1>2, <1>3, <1>4 DEF UpTo
  <2>4. Accounted(records, posted, lost)
    BY <1>2, <1>3, <1>4 DEF Accounted
  <2>5. QED
    BY <2>2, <2>3, <2>4
<1>8. Before(records, buffer)
  BY <1>5 DEF Before
<1>9. /\ view \in Seq(Records) /\ Len(view) <= limit /\ EndsWith(view, Filtered(records, picked))
      /\ Sorted(view) /\ UpTo(view, posted)
  <2> DEFINE v == Filtered(records, picked)
  <2>1. /\ v \in Seq(Records) /\ Len(v) \in Nat /\ Len(v) <= Len(records) /\ Sorted(v)
        /\ \A i \in 1 .. Len(v) : \E k \in 1 .. Len(records) : v[i] = records[k]
    BY <1>2, <1>3, <1>7, FilteredType
  <2>2. view = Newest(v, limit)
    BY <1>4
  <2> HIDE DEF v
  <2>3. Len(v) <= limit
    BY <1>1, <1>2, <1>3, <2>1
  <2>4. view = v
    BY <1>1, <2>1, <2>2, <2>3, NewestIs
  <2>5. EndsWith(v, v)
    BY <2>1 DEF EndsWith
  <2>6. UpTo(v, posted)
    BY <1>7, <2>1 DEF UpTo
  <2>7. QED
    BY <2>1, <2>3, <2>4, <2>5, <2>6 DEF v
<1>10. Before(view, buffer)
  BY <1>5 DEF Before
<1>11. \A i \in 1 .. Len(history) : history[i].number = posted - Len(history) + i
  <2> SUFFICES ASSUME NEW i \in 1 .. Len(history)
               PROVE  history[i].number = posted - Len(history) + i
    OBVIOUS
  <2>1. i = 1 /\ history[i].number = 1 /\ posted - Len(history) = 0
    BY <1>2, <1>4
  <2>2. QED
    BY <2>1
<1>12. Len(history) <= HistoryLimit /\ Len(buffer) <= PendingCap /\ lost \in Nat
  BY <1>1, <1>2, <1>4, <1>5
<1>13. QED
  BY <1>1, <1>2, <1>3, <1>5, <1>6, <1>7, <1>9, <1>10, <1>11, <1>12 DEF LogInv

\* The last rows, counted from the end.
LEMMA EndIsSuffix ==
  ASSUME NEW s \in Seq(Records), NEW t \in Seq(Records), EndsWith(t, s)
  PROVE  IsSuffix(s, t)
<1> DEFINE L == Len(s)  M == Len(t)  a == Reverse(s)  b == Reverse(t)
<1>1. L \in Nat /\ M \in Nat /\ L <= M
  BY Entries DEF EndsWith
<1>2. /\ a \in Seq(Records) /\ Len(a) = L /\ \A i \in 1 .. L : a[i] = s[L - i + 1]
  <2>1. \A i \in 1 .. L : s[L - i + 1] \in Records
    BY <1>1, Entries
  <2>2. a = [i \in 1 .. L |-> s[L - i + 1]]
    BY DEF Reverse
  <2> HIDE DEF L, a
  <2>3. QED
    BY <1>1, <2>1, <2>2
<1>3. /\ b \in Seq(Records) /\ Len(b) = M /\ \A i \in 1 .. M : b[i] = t[M - i + 1]
  <2>1. \A i \in 1 .. M : t[M - i + 1] \in Records
    BY <1>1, Entries
  <2>2. b = [i \in 1 .. M |-> t[M - i + 1]]
    BY DEF Reverse
  <2> HIDE DEF M, b
  <2>3. QED
    BY <1>1, <2>1, <2>2
<1>4. \A i \in 1 .. L : a[i] = b[i]
  <2> SUFFICES ASSUME NEW i \in 1 .. L PROVE a[i] = b[i]
    OBVIOUS
  <2>1. L - i + 1 \in 1 .. L /\ M - L + (L - i + 1) = M - i + 1 /\ i \in 1 .. M
    BY <1>1
  <2>2. s[L - i + 1] = t[M - L + (L - i + 1)]
    BY <2>1 DEF EndsWith
  <2>3. QED
    BY <1>2, <1>3, <2>1, <2>2
<1> HIDE DEF L, M, a, b
<1>5. SubSeq(a, 1, L) = SubSeq(b, 1, L)
  <2>1. /\ SubSeq(a, 1, L) \in Seq(Records) /\ Len(SubSeq(a, 1, L)) = L
        /\ \A i \in 1 .. L : SubSeq(a, 1, L)[i] = a[i]
    <3>1. \A i \in 1 .. L : a[i] \in Records
      BY <1>2, Entries
    <3>2. QED
      BY <1>1, <3>1, SubSeqProperties
  <2>2. /\ SubSeq(b, 1, L) \in Seq(Records) /\ Len(SubSeq(b, 1, L)) = L
        /\ \A i \in 1 .. L : SubSeq(b, 1, L)[i] = b[i]
    <3>1. \A i \in 1 .. L : b[i] \in Records
      BY <1>1, <1>3, Entries
    <3>2. QED
      BY <1>1, <3>1, SubSeqProperties
  <2>3. \A i \in 1 .. L : SubSeq(a, 1, L)[i] = SubSeq(b, 1, L)[i]
    BY <1>4, <2>1, <2>2
  <2>4. QED
    BY <2>1, <2>2, <2>3, SeqEqual
<1>6. IsPrefix(a, b)
  BY <1>1, <1>2, <1>3, <1>5 DEF IsPrefix
<1>7. QED
  BY <1>6 DEF IsSuffix, a, b

LEMMA LogImplies == LogInv => LogTrue
<1> SUFFICES ASSUME LogInv PROVE LogTrue
  OBVIOUS
<1>1. /\ view \in Seq(Records) /\ records \in Seq(Records) /\ history \in Seq(Records)
      /\ posted \in Int /\ lost \in Nat
  BY DEF LogInv
<1>2. Kept \in Seq(Records)
  BY KeptEntries
<1>3. RowsEndWithRecords
  <2>1. Exported \in Seq(Records)
    BY <1>1, FilteredType DEF Exported
  <2>2. stale \/ EndsWith(view, Exported)
    BY DEF LogInv, Exported
  <2>3. QED
    BY <1>1, <2>1, <2>2, EndIsSuffix DEF RowsEndWithRecords
<1>4. Ascending(Kept)
  <2> SUFFICES ASSUME NEW i \in 1 .. Len(Kept) - 1 PROVE Kept[i].number < Kept[i + 1].number
    BY DEF Ascending
  <2>1. i \in 1 .. Len(Kept) /\ i + 1 \in 1 .. Len(Kept) /\ i <= i + 1 /\ (i + 1) - i = 1
    BY <1>2, Entries
  <2>2. Kept[i + 1].number >= Kept[i].number + ((i + 1) - i)
    BY <2>1 DEF LogInv, Rising
  <2>3. Kept[i].number \in Int /\ Kept[i + 1].number \in Int
    BY <1>2, <2>1, Entries
  <2> DEFINE x == Kept[i].number  y == Kept[i + 1].number
  <2>4. x \in Int /\ y \in Int /\ y >= x + 1
    BY <2>1, <2>2, <2>3
  <2> HIDE DEF x, y
  <2>5. x < y
    BY <2>4
  <2>6. QED
    BY <2>5 DEF x, y
<1>5. Ascending(view)
  <2> SUFFICES ASSUME NEW i \in 1 .. Len(view) - 1 PROVE view[i].number < view[i + 1].number
    BY DEF Ascending
  <2>1. i \in 1 .. Len(view) /\ i + 1 \in 1 .. Len(view) /\ i < i + 1
    BY <1>1, Entries
  <2>2. QED
    BY <2>1 DEF LogInv, Sorted
<1>6. Ascending(history) /\ HistoryWhole
  <2> DEFINE L == Len(history)
  <2>1. L \in Nat /\ \A i \in 1 .. L : history[i].number = posted - L + i
    BY <1>1, Entries DEF LogInv
  <2>2. Ascending(history)
    <3> SUFFICES ASSUME NEW i \in 1 .. L - 1 PROVE history[i].number < history[i + 1].number
      BY DEF Ascending
    <3>1. i \in 1 .. L /\ i + 1 \in 1 .. L
      BY <2>1
    <3>2. QED
      BY <1>1, <2>1, <3>1
  <2>3. ASSUME history # <<>>
        PROVE  history[L].number = posted /\ history[1].number = posted - L + 1
    <3>1. L # 0
      BY <1>1, <2>3, EmptySeq
    <3>2. 1 \in 1 .. L /\ L \in 1 .. L
      BY <2>1, <3>1
    <3>3. QED
      BY <1>1, <2>1, <3>2
  <2>4. QED
    BY <2>2, <2>3 DEF HistoryWhole
<1>7. GapsCounted
  <2>1. Kept # <<>> => Len(Kept) > 0
    BY <1>2, EmptySeq, Entries
  <2>2. QED
    BY <2>1 DEF GapsCounted, LogInv, Accounted
<1>8. QED
  BY <1>3, <1>4, <1>5, <1>6, <1>7 DEF LogInv, LogTrue, KeptInOrder

\* Whatever is posted, filtered, trimmed, paused and cleared: what is exported is what
\* the rows end with, and no record is missing that was not counted (LogBus::post,
\* LogPanel::onRecordPosted, flushPending, rebuildView).
THEOREM LogStaysTrue == LogSpec => []LogTrue
<1>1. LogSpec => []LogInv
  BY LogStart, LogStep, PTL DEF LogSpec
<1>2. QED
  BY <1>1, LogImplies, PTL

-----------------------------------------------------------------------------
(* Desktop.                                                                *)

\* What is written in fields, and the shapes of what there is: cameras, what the tab
\* followed may show, dialogs and the window.
Writings == Texts \cup {"made", "plain", "styled", ""}
QuirkTables == [QuirkLines -> {"unset", "on", "off"}]
Units == [id : Range(CameraIds), object : Objects, fields : Writings, scopes : Seq(Writings),
          names : Seq(Writings), quirks : QuirkTables]
Forms == [fields : Writings, scopes : Seq(Writings), typed : BOOLEAN]
Editors == [line : Nat, typed : BOOLEAN, text : Writings, lines : Nat]
Switches == [target : {"camera", "global"}, on : SUBSET QuirkLines]
Pages == Forms \cup Editors \cup Switches
Dialogs == {NoDialog} \cup [kind : {"add"}] \cup [kind : {"menu", "warning"}, object : Objects]
           \cup [kind : {"remove"}, id : Range(CameraIds)] \cup [kind : {"edit"}, line : Nat]
Windows == [rows : Seq(Range(CameraIds)), at : Int, shown : Objects \cup {0}, missed : BOOLEAN,
            page : Pages, dialog : Dialogs]

\* The page is one of the tab that is followed, and a question for a scope is asked on
\* the identity tab.
PageOk(page) ==
  /\ tab \in {"identity", "streams", "quirks"} /\ page \in Pages
  /\ tab = "identity" => page \in Forms
  /\ tab = "streams" => page \in Editors
  /\ tab = "quirks" => page \in Switches
WindowOk(w) ==
  w \in Windows /\ PageOk(w.page) /\ (w.dialog.kind \in {"add", "edit"} => tab = "identity")

\* No two cameras have an id or an object in common.
UnitsOk(us) ==
  /\ us \in Seq(Units)
  /\ \A i, j \in 1 .. Len(us) : us[i].id = us[j].id \/ us[i].object = us[j].object => i = j

\* The parts of WindowTrue, for any cameras and window.
IdsOf(us) == [r \in DOMAIN us |-> us[r].id]
ListFits(us, w) ==
  /\ w.rows = IdsOf(us)
  /\ w.at \in (IF us = <<>> THEN {0} ELSE DOMAIN us)
  /\ w.shown = IF w.at = 0 THEN 0 ELSE us[w.at].object
FormTrue(us, w) ==
  tab = "identity" /\ w.shown # 0 /\ ~w.missed =>
    /\ w.page.scopes = UnitOf(us, w.shown).scopes
    /\ w.page.typed \/ w.page.fields = UnitOf(us, w.shown).fields
EditorTrue(us, w) ==
  tab = "streams" /\ w.shown # 0 =>
    /\ w.page.lines = Len(UnitOf(us, w.shown).names)
    /\ w.page.line \in 0 .. w.page.lines /\ (w.page.line = 0 => w.page.lines = 0)
    /\ w.page.typed \/ w.missed \/ w.page.line = 0
       \/ w.page.text = UnitOf(us, w.shown).names[w.page.line]
RowsTrue(us, defs, w) ==
  tab = "quirks" /\ ~w.missed =>
    w.page.on = SwitchedOn(TargetQuirks(w.page, us, defs, w.shown))
PageTrue(us, defs, w) == FormTrue(us, w) /\ EditorTrue(us, w) /\ RowsTrue(us, defs, w)
Good(us, defs, w) == WindowOk(w) /\ ListFits(us, w) /\ PageTrue(us, defs, w)

\* What the invariant rests on.
DesktopInv == UnitsOk(units) /\ defaults \in QuirkTables /\ Good(units, defaults, win)

-----------------------------------------------------------------------------
LEMMA UnitParts ==
  ASSUME NEW us, UnitsOk(us)
  PROVE  /\ us \in Seq(Units) /\ Len(us) \in Nat /\ DOMAIN us = 1 .. Len(us)
         /\ \A r \in 1 .. Len(us) : us[r] \in Units
         /\ \A i, j \in 1 .. Len(us) : us[i].id = us[j].id => i = j
         /\ \A i, j \in 1 .. Len(us) : us[i].object = us[j].object => i = j
         /\ us = <<>> <=> Len(us) = 0
<1>1. us \in Seq(Units)
  BY DEF UnitsOk
<1>2. /\ Len(us) \in Nat /\ DOMAIN us = 1 .. Len(us) /\ \A r \in 1 .. Len(us) : us[r] \in Units
      /\ us = <<>> <=> Len(us) = 0
  BY <1>1, EmptySeq, LenProperties, ElementOfSeq
<1>3. QED
  BY <1>1, <1>2 DEF UnitsOk

LEMMA UnitFields ==
  ASSUME NEW u \in Units
  PROVE  /\ u.id \in Range(CameraIds) /\ u.object \in Objects /\ u.object # 0
         /\ u.fields \in Writings /\ u.scopes \in Seq(Writings) /\ u.names \in Seq(Writings)
         /\ u.quirks \in QuirkTables
BY DesktopAssumption DEF Units

\* A camera is found by its object.
LEMMA UnitFound ==
  ASSUME NEW us, UnitsOk(us), NEW r \in 1 .. Len(us)
  PROVE  /\ UnitOf(us, us[r].object) = us[r] /\ RowOf(us, us[r].object) = r
         /\ us[r].object \in Alive(us)
<1>1. DOMAIN us = 1 .. Len(us) /\ \A i, j \in 1 .. Len(us) : us[i].object = us[j].object => i = j
  BY UnitParts
<1>2. Range(us) = {us[i] : i \in 1 .. Len(us)}
  BY <1>1 DEF Range
<1> DEFINE o == us[r].object
<1>3. us[r] \in Range(us) /\ \A u \in Range(us) : u.object = o => u = us[r]
  BY <1>1, <1>2
<1>4. UnitOf(us, o) = us[r]
  BY <1>3 DEF UnitOf
<1>5. RowOf(us, o) = r
  BY <1>1 DEF RowOf
<1>6. o \in Alive(us)
  BY <1>3 DEF Alive
<1>7. QED
  BY <1>4, <1>5, <1>6

LEMMA AliveRow ==
  ASSUME NEW us, UnitsOk(us), NEW o \in Alive(us)
  PROVE  \E r \in 1 .. Len(us) : us[r].object = o
<1>1. DOMAIN us = 1 .. Len(us)
  BY UnitParts
<1>2. PICK u \in Range(us) : u.object = o
  BY DEF Alive
<1>3. QED
  BY <1>1, <1>2 DEF Range

\* Switches of a table are lines of it.
LEMMA SwitchesLines ==
  ASSUME NEW table \in QuirkTables PROVE SwitchedOn(table) \in SUBSET QuirkLines
BY DEF SwitchedOn

LEMMA UntouchedTable == Untouched \in QuirkTables /\ SwitchedOn(Untouched) = {}
BY DEF Untouched, QuirkTables, SwitchedOn

LEMMA OverlaidTable ==
  ASSUME NEW t \in QuirkTables, NEW u \in QuirkTables PROVE Overlaid(t, u) \in QuirkTables
BY DEF Overlaid, QuirkTables

LEMMA StyledNames ==
  ASSUME NEW names \in Seq(Writings), NEW t
  PROVE  Styled(names, t) \in Seq(Writings) /\ Len(Styled(names, t)) = Len(names)
<1>1. DOMAIN names = 1 .. Len(names) /\ Len(names) \in Nat
  OBVIOUS
<1>2. \A i \in 1 .. Len(names) : (IF t["naming"] = "on" THEN "styled" ELSE "plain") \in Writings
  BY DEF Writings
<1>3. QED
  BY <1>1, <1>2 DEF Styled

-----------------------------------------------------------------------------
\* What a tab reads of a camera is what it has.
ReadRight(us, defs, o, q) ==
  /\ tab = "identity" /\ o # 0 =>
       q.scopes = UnitOf(us, o).scopes /\ q.fields = UnitOf(us, o).fields
  /\ tab = "streams" /\ o # 0 =>
       /\ q.lines = Len(UnitOf(us, o).names) /\ q.line \in 0 .. q.lines
       /\ q.line = 0 => q.lines = 0
       /\ q.line = 0 \/ q.text = UnitOf(us, o).names[q.line]
  /\ tab = "quirks" => q.on = SwitchedOn(TargetQuirks(q, us, defs, o))

\* The camera a window may show.
Shown(us, o) == o = 0 \/ o \in Alive(us)

LEMMA ShownUnit ==
  ASSUME NEW us, UnitsOk(us), NEW o, Shown(us, o), o # 0
  PROVE  UnitOf(us, o) \in Units
<1>1. PICK r \in 1 .. Len(us) : us[r].object = o
  BY AliveRow DEF Shown
<1>2. UnitOf(us, o) = us[r] /\ us[r] \in Units
  BY <1>1, UnitFound, UnitParts
<1>3. QED
  BY <1>2

LEMMA EditedRight ==
  ASSUME NEW us, UnitsOk(us), NEW o, Shown(us, o), NEW l,
         o = 0 => l = 0,
         o # 0 => l \in 0 .. Len(UnitOf(us, o).names)
  PROVE  LET q == Edited(us, o, l)
         IN  /\ q \in Editors /\ q.line = l /\ ~q.typed
             /\ o # 0 => q.lines = Len(UnitOf(us, o).names)
             /\ l # 0 => q.text = UnitOf(us, o).names[l]
<1> DEFINE q == Edited(us, o, l)
           t == IF l = 0 THEN "" ELSE UnitOf(us, o).names[l]
           n == IF o = 0 THEN 0 ELSE Len(UnitOf(us, o).names)
<1>1. t \in Writings /\ n \in Nat /\ l \in Nat
  <2>1. CASE o = 0
    BY <2>1 DEF Writings
  <2>2. CASE o # 0
    <3>1. UnitOf(us, o).names \in Seq(Writings)
      BY <2>2, ShownUnit, UnitFields
    <3> DEFINE names == UnitOf(us, o).names
    <3>2. names \in Seq(Writings) /\ l \in 0 .. Len(names) /\ Len(names) \in Nat
      BY <2>2, <3>1
    <3> HIDE DEF names
    <3>3. l # 0 => names[l] \in Writings
      BY <3>2
    <3>4. l \in Nat
      BY <3>2
    <3>5. QED
      BY <2>2, <3>2, <3>3, <3>4 DEF names, Writings
  <2>3. QED
    BY <2>1, <2>2
<1>2. q = [line |-> l, typed |-> FALSE, text |-> t, lines |-> n]
  BY DEF Edited
<1> HIDE DEF t, n, q
<1>3. q \in Editors /\ q.line = l /\ q.typed = FALSE /\ q.lines = n /\ q.text = t
  BY <1>1, <1>2 DEF Editors
<1>4. QED
  BY <1>3 DEF t, n, q

LEMMA ReadsRight ==
  ASSUME NEW us, UnitsOk(us), NEW defs \in QuirkTables, NEW page, PageOk(page),
         NEW o, Shown(us, o)
  PROVE  LET q == Reads(page, us, defs, o) IN PageOk(q) /\ ReadRight(us, defs, o, q)
<1> DEFINE q == Reads(page, us, defs, o)
<1>1. CASE tab = "identity"
  <2>1. q = ReadIdentity(us, o)
    BY <1>1 DEF Reads
  <2>2. q \in Forms
    <3>1. CASE o = 0
      <4>1. q = [fields |-> "", scopes |-> <<>>, typed |-> FALSE]
        BY <2>1, <3>1 DEF ReadIdentity, Blank
      <4>2. "" \in Writings /\ <<>> \in Seq(Writings)
        BY DEF Writings
      <4> HIDE DEF q
      <4>3. QED
        BY <4>1, <4>2 DEF Forms
    <3>2. CASE o # 0
      <4>1. UnitOf(us, o).fields \in Writings /\ UnitOf(us, o).scopes \in Seq(Writings)
        BY <3>2, ShownUnit, UnitFields
      <4>2. q = [fields |-> UnitOf(us, o).fields, scopes |-> UnitOf(us, o).scopes, typed |-> FALSE]
        BY <2>1, <3>2 DEF ReadIdentity
      <4> HIDE DEF q
      <4>3. QED
        BY <4>1, <4>2 DEF Forms
    <3>3. QED
      BY <3>1, <3>2
  <2>3. o # 0 => q.scopes = UnitOf(us, o).scopes /\ q.fields = UnitOf(us, o).fields
    BY <2>1 DEF ReadIdentity
  <2> HIDE DEF q
  <2>4. PageOk(q) /\ ReadRight(us, defs, o, q)
    BY <1>1, <2>2, <2>3 DEF PageOk, Pages, ReadRight
  <2>5. QED
    BY <2>4 DEF q
<1>2. CASE tab = "streams"
  <2> DEFINE n == IF o = 0 THEN 0 ELSE Len(UnitOf(us, o).names)
             l == IF page.line \in 1 .. n THEN page.line ELSE IF n > 0 THEN 1 ELSE 0
  <2>1. q = Edited(us, o, l)
    BY <1>2 DEF Reads, ReadStreams
  <2>2. n \in Nat
    <3>1. o # 0 => UnitOf(us, o).names \in Seq(Writings)
      BY ShownUnit, UnitFields
    <3>2. QED
      BY <3>1
  <2>3. l \in 0 .. n /\ (l = 0 => n = 0)
    <3> HIDE DEF n
    <3>1. QED
      BY <2>2
  <2>4. (o = 0 => l = 0) /\ (o # 0 => l \in 0 .. Len(UnitOf(us, o).names))
    <3> HIDE DEF l
    <3>1. QED
      BY <2>3
  <2> HIDE DEF l
  <2>5. /\ q \in Editors /\ q.line = l
        /\ o # 0 => q.lines = n
        /\ l # 0 => q.text = UnitOf(us, o).names[l]
    <3> HIDE DEF q
    <3>1. QED
      BY <2>1, <2>4, EditedRight DEF n
  <2> HIDE DEF q
  <2>6. PageOk(q) /\ ReadRight(us, defs, o, q)
    <3>1. o # 0 => n = Len(UnitOf(us, o).names)
      OBVIOUS
    <3> HIDE DEF n
    <3>2. PageOk(q)
      BY <1>2, <2>5 DEF PageOk, Pages
    <3>3. ReadRight(us, defs, o, q)
      BY <1>2, <2>3, <2>5, <3>1 DEF ReadRight
    <3>4. QED
      BY <3>2, <3>3
  <2>7. QED
    BY <2>6 DEF q
<1>3. CASE tab = "quirks"
  <2> DEFINE s == SwitchedOn(TargetQuirks(page, us, defs, o))
  <2>1. q = [page EXCEPT !.on = s]
    BY <1>3 DEF Reads, ReadQuirks
  <2>2. page \in Switches
    BY <1>3 DEF PageOk
  <2>3. TargetQuirks(page, us, defs, o) \in QuirkTables
    BY ShownUnit, UnitFields, UntouchedTable DEF TargetQuirks
  <2>4. s \in SUBSET QuirkLines
    BY <2>3, SwitchesLines
  <2> HIDE DEF s, q
  <2>5. q \in Switches /\ q.target = page.target /\ q.on = s
    BY <2>1, <2>2, <2>4 DEF Switches
  <2>6. TargetQuirks(q, us, defs, o) = TargetQuirks(page, us, defs, o)
    BY <2>5 DEF TargetQuirks
  <2>7. PageOk(q) /\ ReadRight(us, defs, o, q)
    BY <1>3, <2>5, <2>6 DEF PageOk, Pages, ReadRight, s
  <2>8. QED
    BY <2>7 DEF q
<1>4. QED
  BY <1>1, <1>2, <1>3 DEF PageOk

-----------------------------------------------------------------------------
LEMMA WindowParts ==
  ASSUME NEW w, WindowOk(w)
  PROVE  /\ w \in Windows /\ PageOk(w.page) /\ w.rows \in Seq(Range(CameraIds)) /\ w.at \in Int
         /\ w.shown \in Objects \cup {0} /\ w.missed \in BOOLEAN /\ w.page \in Pages
         /\ w.dialog \in Dialogs /\ (w.dialog.kind \in {"add", "edit"} => tab = "identity")
BY DEF WindowOk, Windows

\* Putting a window together again.
Windowed(w, rows, at, shown, missed, page, dialog) ==
  [w EXCEPT !.rows = rows, !.at = at, !.shown = shown, !.missed = missed, !.page = page,
            !.dialog = dialog]
Paged(w, missed, page, dialog) ==
  [w EXCEPT !.missed = missed, !.page = page, !.dialog = dialog]

ListParts(rows, at, shown) ==
  rows \in Seq(Range(CameraIds)) /\ at \in Int /\ shown \in Objects \cup {0}
PageParts(missed, page, dialog) ==
  /\ missed \in BOOLEAN /\ PageOk(page) /\ dialog \in Dialogs
  /\ dialog.kind \in {"add", "edit"} => tab = "identity"

LEMMA WindowWhole ==
  ASSUME NEW w, WindowOk(w), NEW rows, NEW at, NEW shown, NEW missed, NEW page, NEW dialog,
         ListParts(rows, at, shown), PageParts(missed, page, dialog)
  PROVE  LET v == Windowed(w, rows, at, shown, missed, page, dialog)
         IN  /\ WindowOk(v) /\ v.rows = rows /\ v.at = at /\ v.shown = shown
             /\ v.missed = missed /\ v.page = page /\ v.dialog = dialog
<1> DEFINE v == Windowed(w, rows, at, shown, missed, page, dialog)
<1>1. page \in Pages
  BY DEF PageParts, PageOk
<1>2. w \in Windows
  BY DEF WindowOk
<1>3. v \in Windows
  BY <1>1, <1>2 DEF Windows, Windowed, ListParts, PageParts
<1>4. /\ v.rows = rows /\ v.at = at /\ v.shown = shown /\ v.missed = missed
      /\ v.page = page /\ v.dialog = dialog
  BY <1>2 DEF Windows, Windowed
<1> HIDE DEF v
<1>5. WindowOk(v)
  BY <1>3, <1>4 DEF WindowOk, PageParts
<1>6. QED
  BY <1>4, <1>5 DEF v

\* A list item a dialog holds is forgotten.
LEMMA Forgotten ==
  ASSUME NEW d \in Dialogs
  PROVE  LET e == IF d.kind = "edit" THEN [d EXCEPT !.line = 0] ELSE d
         IN  e \in Dialogs /\ e.kind = d.kind
<1>1. CASE d.kind = "edit"
  <2>1. d \in [kind : {"edit"}, line : Nat]
    BY <1>1 DEF Dialogs, NoDialog
  <2>2. [d EXCEPT !.line = 0] \in [kind : {"edit"}, line : Nat] /\ [d EXCEPT !.line = 0].kind = "edit"
    BY <2>1
  <2>3. QED
    BY <1>1, <2>2 DEF Dialogs
<1>2. CASE d.kind # "edit"
  BY <1>2
<1>3. QED
  BY <1>1, <1>2

LEMMA ShowRight ==
  ASSUME NEW us, UnitsOk(us), NEW defs \in QuirkTables, NEW w, WindowOk(w), NEW o, Shown(us, o)
  PROVE  LET v == Show(w, us, defs, o)
         IN  /\ WindowOk(v) /\ v.rows = w.rows /\ v.at = w.at /\ v.shown = o
             /\ PageTrue(us, defs, v)
<1> DEFINE v == Show(w, us, defs, o)
           q == Reads(w.page, us, defs, o)
           e == IF w.dialog.kind = "edit" THEN [w.dialog EXCEPT !.line = 0] ELSE w.dialog
           no == FALSE
<1>1. PageOk(q) /\ ReadRight(us, defs, o, q)
  BY WindowParts, ReadsRight
<1>2. e \in Dialogs /\ e.kind = w.dialog.kind
  BY WindowParts, Forgotten
<1>3. o \in Objects \cup {0}
  <2>1. CASE o = 0
    BY <2>1
  <2>2. CASE o \in Alive(us)
    <3>1. PICK r \in 1 .. Len(us) : us[r].object = o
      BY <2>2, AliveRow
    <3>2. us[r] \in Units
      BY UnitParts
    <3>3. QED
      BY <3>1, <3>2, UnitFields
  <2>3. QED
    BY <2>1, <2>2 DEF Shown
<1>4. v = [w EXCEPT !.shown = o, !.missed = FALSE, !.page = q, !.dialog = e]
  BY DEF Show
<1> HIDE DEF q, e, v
<1>5. v = Windowed(w, w.rows, w.at, o, no, q, e)
  BY <1>4, WindowParts DEF Windows, Windowed
<1>6. /\ WindowOk(v) /\ v.rows = w.rows /\ v.at = w.at /\ v.shown = o /\ v.missed = no
      /\ v.page = q
  <2>1. e.kind \in {"add", "edit"} => tab = "identity"
    BY <1>2, WindowParts
  <2>2. no \in BOOLEAN
    OBVIOUS
  <2> HIDE DEF no
  <2>3. ListParts(w.rows, w.at, o)
    BY <1>3, WindowParts DEF ListParts
  <2>4. PageParts(no, q, e)
    BY <1>1, <1>2, <2>1, <2>2 DEF PageParts
  <2>5. QED
    BY <1>5, <2>3, <2>4, WindowWhole
<1>7. PageTrue(us, defs, v)
  BY <1>1, <1>6 DEF PageTrue, FormTrue, EditorTrue, RowsTrue, ReadRight
<1>8. QED
  BY <1>6, <1>7 DEF v

\* What is shown is true of later cameras too, when the one shown did not change.
LEMMA PageKept ==
  ASSUME NEW us, NEW us2, NEW defs, NEW w, NEW v, PageTrue(us, defs, w),
         v.page = w.page, v.shown = w.shown, v.missed = w.missed,
         w.shown # 0 => UnitOf(us2, w.shown) = UnitOf(us, w.shown)
  PROVE  PageTrue(us2, defs, v)
<1>1. FormTrue(us2, v)
  BY DEF PageTrue, FormTrue
<1>2. EditorTrue(us2, v)
  BY DEF PageTrue, EditorTrue
<1>3. RowsTrue(us2, defs, v)
  <2>1. TargetQuirks(v.page, us2, defs, v.shown) = TargetQuirks(w.page, us, defs, w.shown)
    BY DEF TargetQuirks
  <2>2. QED
    BY <2>1 DEF PageTrue, RowsTrue
<1>4. QED
  BY <1>1, <1>2, <1>3 DEF PageTrue

LEMMA SelectRight ==
  ASSUME NEW us, UnitsOk(us), NEW defs \in QuirkTables, NEW w, WindowOk(w), w.rows = IdsOf(us),
         NEW row, row \in (IF us = <<>> THEN {0} ELSE DOMAIN us),
         row = w.at => Good(us, defs, w)
  PROVE  Good(us, defs, Select(w, us, defs, row))
<1>1. CASE row = w.at
  BY <1>1 DEF Select
<1>2. CASE row # w.at
  <2> DEFINE o == IF row = 0 THEN 0 ELSE us[row].object
             u == Show(w, us, defs, o)
             v == [u EXCEPT !.at = row]
  <2>1. Shown(us, o) /\ row \in Int
    <3>1. DOMAIN us = 1 .. Len(us) /\ Len(us) \in Nat
      BY UnitParts
    <3>2. row = 0 \/ row \in 1 .. Len(us)
      BY <3>1
    <3>3. row \in 1 .. Len(us) => us[row].object \in Alive(us)
      BY UnitFound
    <3>4. QED
      BY <3>1, <3>2, <3>3 DEF Shown
  <2> HIDE DEF o
  <2>2. /\ WindowOk(u) /\ u.rows = w.rows /\ u.at = w.at /\ u.shown = o
        /\ PageTrue(us, defs, u)
    BY <2>1, ShowRight
  <2> HIDE DEF u
  <2>3. v = Windowed(u, u.rows, row, u.shown, u.missed, u.page, u.dialog)
    BY <2>2, WindowParts DEF Windows, Windowed
  <2> HIDE DEF v
  <2>4. /\ WindowOk(v) /\ v.rows = u.rows /\ v.at = row /\ v.shown = u.shown
        /\ v.missed = u.missed /\ v.page = u.page
    <3>1. ListParts(u.rows, row, u.shown)
      BY <2>1, <2>2, <2>3, WindowParts DEF ListParts
    <3>2. PageParts(u.missed, u.page, u.dialog)
      BY <2>1, <2>2, <2>3, WindowParts DEF PageParts
    <3>3. QED
      BY <2>1, <2>2, <2>3, <3>1, <3>2, WindowWhole
  <2>5. PageTrue(us, defs, v)
    BY <2>2, <2>4, PageKept
  <2>6. ListFits(us, v)
    BY <2>2, <2>4 DEF ListFits, o
  <2>7. Good(us, defs, v)
    BY <2>4, <2>5, <2>6 DEF Good
  <2>8. QED
    BY <1>2, <2>7 DEF Select, v, u, o
<1>3. QED
  BY <1>1, <1>2

-----------------------------------------------------------------------------
LEMMA IdsList ==
  ASSUME NEW us, UnitsOk(us)
  PROVE  /\ IdsOf(us) \in Seq(Range(CameraIds)) /\ Len(IdsOf(us)) = Len(us)
         /\ \A r \in 1 .. Len(us) : IdsOf(us)[r] = us[r].id
<1>1. DOMAIN us = 1 .. Len(us) /\ Len(us) \in Nat /\ \A r \in 1 .. Len(us) : us[r] \in Units
  BY UnitParts
<1>2. IdsOf(us) = [r \in 1 .. Len(us) |-> us[r].id]
  BY <1>1 DEF IdsOf
<1>3. \A r \in 1 .. Len(us) : us[r].id \in Range(CameraIds)
  BY <1>1, UnitFields
<1>4. QED
  BY <1>1, <1>2, <1>3

\* A camera with an id and an object of its own can be appended.
LEMMA AppendedUnits ==
  ASSUME NEW us, UnitsOk(us), NEW u \in Units,
         \A r \in 1 .. Len(us) : us[r].id # u.id /\ us[r].object # u.object
  PROVE  /\ UnitsOk(Append(us, u)) /\ Len(Append(us, u)) = Len(us) + 1
         /\ Append(us, u)[Len(us) + 1] = u
         /\ \A r \in 1 .. Len(us) : Append(us, u)[r] = us[r]
         /\ IdsOf(Append(us, u)) = Append(IdsOf(us), u.id)
<1> DEFINE q == Append(us, u)  n == Len(us)
<1>1. us \in Seq(Units) /\ n \in Nat
  BY UnitParts
<1>2. q \in Seq(Units) /\ Len(q) = n + 1 /\ q[n + 1] = u /\ \A r \in 1 .. n : q[r] = us[r]
  BY <1>1
<1> HIDE DEF q
<1>3. ASSUME NEW i \in 1 .. Len(q), NEW j \in 1 .. Len(q),
             q[i].id = q[j].id \/ q[i].object = q[j].object
      PROVE  i = j
  <2>1. i \in 1 .. n \/ i = n + 1
    BY <1>1, <1>2
  <2>2. j \in 1 .. n \/ j = n + 1
    BY <1>1, <1>2
  <2>3. \A k, l \in 1 .. n : us[k].id = us[l].id \/ us[k].object = us[l].object => k = l
    BY UnitParts
  <2> HIDE DEF n
  <2>4. \A r \in 1 .. n : us[r].id # u.id /\ us[r].object # u.object
    BY DEF n
  <2>5. QED
    BY <1>2, <1>3, <2>1, <2>2, <2>3, <2>4
<1>4. UnitsOk(q)
  BY <1>2, <1>3 DEF UnitsOk
<1>5. IdsOf(q) = Append(IdsOf(us), u.id)
  <2>1. /\ IdsOf(q) \in Seq(Range(CameraIds)) /\ Len(IdsOf(q)) = n + 1
        /\ \A r \in 1 .. n + 1 : IdsOf(q)[r] = q[r].id
    BY <1>2, <1>4, IdsList
  <2>2. /\ IdsOf(us) \in Seq(Range(CameraIds)) /\ Len(IdsOf(us)) = n
        /\ \A r \in 1 .. n : IdsOf(us)[r] = us[r].id
    BY IdsList
  <2> DEFINE a == IdsOf(q)  b == IdsOf(us)  c == Append(b, u.id)
  <2>3. u.id \in Range(CameraIds)
    BY UnitFields
  <2> HIDE DEF a, b
  <2>4. c \in Seq(Range(CameraIds)) /\ Len(c) = n + 1 /\ c[n + 1] = u.id /\ \A r \in 1 .. n : c[r] = b[r]
    BY <2>2, <2>3 DEF b
  <2> HIDE DEF c
  <2>5. ASSUME NEW r \in 1 .. n + 1 PROVE a[r] = c[r]
    <3>1. a[r] = q[r].id
      BY <2>1 DEF a
    <3>2. CASE r = n + 1
      BY <1>2, <2>4, <3>1, <3>2
    <3>3. CASE r \in 1 .. n
      BY <1>2, <2>2, <2>4, <3>1, <3>3 DEF b
    <3>4. r = n + 1 \/ r \in 1 .. n
      BY <1>1
    <3>5. QED
      BY <3>2, <3>3, <3>4
  <2>6. a \in Seq(Range(CameraIds)) /\ Len(a) = n + 1
    BY <2>1 DEF a
  <2> HIDE DEF n
  <2>7. a = c
    BY <2>4, <2>5, <2>6, SeqEqual
  <2>8. QED
    BY <2>7 DEF a, b, c
<1>6. QED
  BY <1>2, <1>4, <1>5 DEF q

LEMMA AddedRight ==
  ASSUME NEW us, UnitsOk(us), NEW defs \in QuirkTables, NEW w, Good(us, defs, w), NEW u \in Units,
         \A r \in 1 .. Len(us) : us[r].id # u.id /\ us[r].object # u.object
  PROVE  /\ UnitsOk(Append(us, u))
         /\ Good(Append(us, u), defs, RowAdded(w, Append(us, u), defs))
<1> DEFINE q == Append(us, u)
           v == [w EXCEPT !.rows = Append(@, Last(q).id)]
<1>1. /\ UnitsOk(q) /\ Len(q) = Len(us) + 1 /\ q[Len(us) + 1] = u /\ IdsOf(q) = Append(IdsOf(us), u.id)
  BY AppendedUnits
<1>2. WindowOk(w) /\ w.rows = IdsOf(us) /\ w.at \in (IF us = <<>> THEN {0} ELSE DOMAIN us)
  BY DEF Good, ListFits
<1>3. Len(us) \in Nat /\ DOMAIN us = 1 .. Len(us) /\ (us = <<>> <=> Len(us) = 0)
  BY UnitParts
<1>4. DOMAIN q = 1 .. Len(q) /\ (q = <<>> <=> Len(q) = 0)
  BY <1>1, UnitParts
<1> HIDE DEF q
<1>5. Last(q) = u
  BY <1>1 DEF Last
<1>6. Append(w.rows, u.id) = IdsOf(q) /\ IdsOf(q) \in Seq(Range(CameraIds))
  BY <1>1, <1>2, IdsList
<1>7. v = Windowed(w, IdsOf(q), w.at, w.shown, w.missed, w.page, w.dialog)
  BY <1>2, <1>5, <1>6, WindowParts DEF Windows, Windowed
<1> HIDE DEF v
<1>8. WindowOk(v) /\ v.rows = IdsOf(q) /\ v.at = w.at
  <2>1. ListParts(IdsOf(q), w.at, w.shown)
    BY <1>2, <1>6, <1>7, WindowParts DEF ListParts
  <2>2. PageParts(w.missed, w.page, w.dialog)
    BY <1>2, <1>6, <1>7, WindowParts DEF PageParts
  <2>3. QED
    BY <1>2, <1>6, <1>7, <2>1, <2>2, WindowWhole
<1>9. Len(q) # v.at /\ Len(q) \in (IF q = <<>> THEN {0} ELSE DOMAIN q)
  BY <1>1, <1>2, <1>3, <1>4, <1>8
<1>10. Good(q, defs, Select(v, q, defs, Len(q)))
  BY <1>1, <1>8, <1>9, SelectRight
<1>11. QED
  BY <1>1, <1>10 DEF RowAdded, v, q

\* RemoveAt() takes one element out of a list.
LEMMA ListWithout ==
  ASSUME NEW T, NEW s \in Seq(T), NEW row \in 1 .. Len(s)
  PROVE  /\ RemoveAt(s, row) \in Seq(T) /\ Len(RemoveAt(s, row)) = Len(s) - 1
         /\ \A r \in 1 .. Len(s) - 1 : RemoveAt(s, row)[r] = s[IF r < row THEN r ELSE r + 1]
<1> DEFINE n == Len(s)  a == SubSeq(s, 1, row - 1)  b == SubSeq(s, row + 1, n)
<1>1. n \in Nat /\ row \in 1 .. n /\ \A i \in 1 .. n : s[i] \in T
  BY ElementOfSeq
<1>2. a \in Seq(T) /\ Len(a) = row - 1 /\ \A i \in 1 .. row - 1 : a[i] = s[i]
  <2>1. \A i \in 1 .. row - 1 : s[i] \in T
    BY <1>1
  <2>2. QED
    BY <1>1, <2>1, SubSeqProperties
<1>3. b \in Seq(T) /\ Len(b) = n - row /\ \A i \in 1 .. n - row : b[i] = s[row + i]
  <2>1. \A i \in row + 1 .. n : s[i] \in T
    BY <1>1
  <2>2. QED
    BY <1>1, <2>1, SubSeqProperties
<1> HIDE DEF a, b
<1>4. a \o b \in Seq(T) /\ Len(a \o b) = n - 1
  BY <1>1, <1>2, <1>3
<1>5. ASSUME NEW r \in 1 .. n - 1 PROVE (a \o b)[r] = s[IF r < row THEN r ELSE r + 1]
  <2>1. CASE r < row
    BY <1>1, <1>2, <1>3, <2>1
  <2>2. CASE r >= row
    <3>1. (a \o b)[r] = b[r - (row - 1)]
      BY <1>1, <1>2, <1>3, <2>2
    <3>2. r - (row - 1) \in 1 .. n - row /\ row + (r - (row - 1)) = r + 1
      BY <1>1, <2>2
    <3>3. QED
      BY <1>1, <1>3, <2>2, <3>1, <3>2
  <2>3. r < row \/ r >= row
    BY <1>1
  <2>4. QED
    BY <2>1, <2>2, <2>3
<1>6. RemoveAt(s, row) = a \o b
  BY DEF RemoveAt, a, b, n
<1>7. QED
  BY <1>4, <1>5, <1>6

\* One camera less: the ones after it move up.
LEMMA RemovedUnits ==
  ASSUME NEW us, UnitsOk(us), NEW row \in 1 .. Len(us)
  PROVE  /\ UnitsOk(RemoveAt(us, row)) /\ Len(RemoveAt(us, row)) = Len(us) - 1
         /\ \A r \in 1 .. Len(us) - 1 : RemoveAt(us, row)[r] = us[IF r < row THEN r ELSE r + 1]
         /\ IdsOf(RemoveAt(us, row)) = RemoveAt(IdsOf(us), row)
<1> DEFINE q == RemoveAt(us, row)  n == Len(us)
<1>1. us \in Seq(Units) /\ n \in Nat /\ row \in 1 .. n
  BY UnitParts
<1>2. q \in Seq(Units) /\ Len(q) = n - 1 /\ \A r \in 1 .. n - 1 : q[r] = us[IF r < row THEN r ELSE r + 1]
  BY <1>1, ListWithout
<1> HIDE DEF q
<1>3. ASSUME NEW i \in 1 .. Len(q), NEW j \in 1 .. Len(q),
             q[i].id = q[j].id \/ q[i].object = q[j].object
      PROVE  i = j
  <2> DEFINE k == IF i < row THEN i ELSE i + 1
             l == IF j < row THEN j ELSE j + 1
  <2>1. i \in 1 .. n - 1 /\ j \in 1 .. n - 1
    BY <1>2
  <2>2. k \in 1 .. n /\ l \in 1 .. n /\ (k = l => i = j) /\ q[i] = us[k] /\ q[j] = us[l]
    BY <1>1, <1>2, <2>1
  <2> HIDE DEF k, l
  <2>3. us[k].id = us[l].id \/ us[k].object = us[l].object
    BY <1>3, <2>2
  <2>4. k = l
    BY <2>2, <2>3, UnitParts
  <2>5. QED
    BY <2>2, <2>4
<1>4. UnitsOk(q)
  BY <1>2, <1>3 DEF UnitsOk
<1>5. IdsOf(q) = RemoveAt(IdsOf(us), row)
  <2> DEFINE a == IdsOf(q)  b == IdsOf(us)  c == RemoveAt(b, row)
  <2>1. a \in Seq(Range(CameraIds)) /\ Len(a) = n - 1 /\ \A r \in 1 .. n - 1 : a[r] = q[r].id
    BY <1>2, <1>4, IdsList
  <2>2. b \in Seq(Range(CameraIds)) /\ Len(b) = n /\ \A r \in 1 .. n : b[r] = us[r].id
    BY IdsList
  <2> HIDE DEF a, b
  <2>3. /\ c \in Seq(Range(CameraIds)) /\ Len(c) = n - 1
        /\ \A r \in 1 .. n - 1 : c[r] = b[IF r < row THEN r ELSE r + 1]
    BY <1>1, <2>2, ListWithout
  <2> HIDE DEF c
  <2>4. ASSUME NEW r \in 1 .. n - 1 PROVE a[r] = c[r]
    <3> DEFINE k == IF r < row THEN r ELSE r + 1
    <3>1. k \in 1 .. n /\ q[r] = us[k] /\ c[r] = b[k]
      BY <1>1, <1>2, <2>3
    <3> HIDE DEF k
    <3>2. QED
      BY <2>1, <2>2, <3>1
  <2> HIDE DEF n
  <2>5. a = c
    BY <2>1, <2>3, <2>4, SeqEqual
  <2>6. QED
    BY <2>5 DEF a, b, c
<1>6. QED
  BY <1>2, <1>4, <1>5 DEF q

LEMMA RemovedRight ==
  ASSUME NEW us, UnitsOk(us), NEW defs \in QuirkTables, NEW w, Good(us, defs, w),
         NEW row \in 1 .. Len(us)
  PROVE  Good(RemoveAt(us, row), defs, RowRemoved(w, us, defs, row))
<1> DEFINE left == RemoveAt(us, row)  n == Len(us)
           away == IF w.shown = us[row].object THEN Show(w, us, defs, 0) ELSE w
           rest == [away EXCEPT !.rows = RemoveAt(@, row)]
<1>1. /\ UnitsOk(left) /\ Len(left) = n - 1 /\ IdsOf(left) = RemoveAt(IdsOf(us), row)
      /\ \A r \in 1 .. n - 1 : left[r] = us[IF r < row THEN r ELSE r + 1]
  BY RemovedUnits
<1>2. n \in Nat /\ DOMAIN us = 1 .. n /\ us # <<>> /\ row \in 1 .. n
  BY UnitParts
<1>3. /\ WindowOk(w) /\ w.rows = IdsOf(us) /\ w.at \in 1 .. n /\ w.shown = us[w.at].object
      /\ PageTrue(us, defs, w)
  BY <1>2 DEF Good, ListFits
<1>4. /\ DOMAIN left = 1 .. n - 1 /\ (left = <<>> <=> n - 1 = 0)
  BY <1>1, UnitParts
<1>5. w.shown = us[row].object <=> w.at = row
  BY <1>2, <1>3, UnitParts
<1> HIDE DEF left
<1>6. /\ WindowOk(away) /\ away.rows = w.rows /\ away.at = w.at
      /\ w.at # row => away = w
  <2>1. Shown(us, 0)
    BY DEF Shown
  <2>2. LET s == Show(w, us, defs, 0) IN WindowOk(s) /\ s.rows = w.rows /\ s.at = w.at
    BY <1>3, <2>1, ShowRight
  <2>3. QED
    BY <1>3, <1>5, <2>2
<1>7. RemoveAt(away.rows, row) = IdsOf(left) /\ IdsOf(left) \in Seq(Range(CameraIds))
  BY <1>1, <1>3, <1>6, IdsList
<1> HIDE DEF away
<1>8. \A at \in Int : LET v == [rest EXCEPT !.at = at]
                      IN  /\ WindowOk(v) /\ v.rows = IdsOf(left) /\ v.at = at /\ v.page = away.page
                          /\ v.shown = away.shown /\ v.missed = away.missed
  <2>1. SUFFICES ASSUME NEW at \in Int
                 PROVE  LET v == [rest EXCEPT !.at = at]
                        IN  /\ WindowOk(v) /\ v.rows = IdsOf(left) /\ v.at = at
                            /\ v.page = away.page /\ v.shown = away.shown /\ v.missed = away.missed
    OBVIOUS
  <2> DEFINE v == [rest EXCEPT !.at = at]
  <2>2. v = Windowed(away, IdsOf(left), at, away.shown, away.missed, away.page, away.dialog)
    BY <1>6, <1>7, WindowParts DEF Windows, Windowed
  <2> HIDE DEF v
  <2>3. /\ WindowOk(v) /\ v.rows = IdsOf(left) /\ v.at = at /\ v.page = away.page
        /\ v.shown = away.shown /\ v.missed = away.missed
    <3>1. ListParts(IdsOf(left), at, away.shown)
      BY <1>6, <1>7, <2>2, WindowParts DEF ListParts
    <3>2. PageParts(away.missed, away.page, away.dialog)
      BY <1>6, <1>7, <2>2, WindowParts DEF PageParts
    <3>3. QED
      BY <1>6, <1>7, <2>2, <3>1, <3>2, WindowWhole
  <2>4. QED
    BY <2>3 DEF v
<1>9. rest.at = w.at /\ rest = [rest EXCEPT !.at = w.at]
  BY <1>3, <1>6, <1>7, WindowParts DEF Windows
<1> HIDE DEF rest
\* The row before the current one went, or one behind it.
<1>10. ASSUME row # w.at PROVE Good(left, defs, [rest EXCEPT !.at = IF row < w.at THEN w.at - 1 ELSE w.at])
  <2> DEFINE at == IF row < w.at THEN w.at - 1 ELSE w.at
             v == [rest EXCEPT !.at = at]
  <2>1. /\ at \in 1 .. n - 1 /\ (IF at < row THEN at ELSE at + 1) = w.at
    BY <1>2, <1>3, <1>10
  <2> HIDE DEF at
  <2>2. left[at] = us[w.at]
    BY <1>1, <2>1
  <2>3. at \in Int
    BY <2>1
  <2>4. /\ WindowOk(v) /\ v.rows = IdsOf(left) /\ v.at = at /\ v.page = w.page
        /\ v.shown = w.shown /\ v.missed = w.missed
    BY <1>6, <1>8, <1>10, <2>3
  <2> HIDE DEF v
  <2>5. UnitOf(left, w.shown) = UnitOf(us, w.shown)
    <3>1. UnitOf(us, us[w.at].object) = us[w.at]
      BY <1>3, UnitFound
    <3>2. UnitOf(left, left[at].object) = left[at]
      BY <1>1, <2>1, UnitFound
    <3>3. QED
      BY <1>3, <2>2, <3>1, <3>2
  <2>6. PageTrue(left, defs, v)
    BY <1>3, <2>4, <2>5, PageKept
  <2>7. ListFits(left, v)
    BY <1>2, <1>3, <1>4, <2>1, <2>2, <2>4 DEF ListFits
  <2>8. Good(left, defs, v)
    BY <2>4, <2>6, <2>7 DEF Good
  <2>9. QED
    BY <2>8 DEF v, at
<1>11. ASSUME row = w.at
       PROVE  Good(left, defs, Select([rest EXCEPT !.at = -1], left, defs,
                                      IF row <= Len(left) THEN row ELSE Len(left)))
  <2> DEFINE v == [rest EXCEPT !.at = -1]
             r == IF row <= Len(left) THEN row ELSE Len(left)
  <2>1. -1 \in Int
    OBVIOUS
  <2>2. WindowOk(v) /\ v.rows = IdsOf(left) /\ v.at = -1
    BY <1>8, <2>1
  <2> HIDE DEF v
  <2>3. r \in (IF left = <<>> THEN {0} ELSE DOMAIN left) /\ r # v.at
    BY <1>1, <1>2, <1>4, <2>2
  <2> HIDE DEF r
  <2>4. Good(left, defs, Select(v, left, defs, r))
    BY <1>1, <2>2, <2>3, SelectRight
  <2>5. QED
    BY <2>4 DEF v, r
<1> DEFINE x == RowRemoved(w, us, defs, row)
<1>12. x = CASE row < w.at -> [rest EXCEPT !.at = @ - 1]
             [] row > w.at -> rest
             [] row = w.at -> Select([rest EXCEPT !.at = -1], left, defs,
                                     IF row <= Len(left) THEN row ELSE Len(left))
  BY DEF RowRemoved, rest, away, left
<1> HIDE DEF x
<1>13. CASE row < w.at
  <2>1. x = [rest EXCEPT !.at = rest.at - 1]
    BY <1>2, <1>3, <1>12, <1>13
  <2>2. x = [rest EXCEPT !.at = IF row < w.at THEN w.at - 1 ELSE w.at]
    BY <1>9, <1>13, <2>1
  <2>3. row # w.at
    BY <1>2, <1>3, <1>13
  <2>4. QED
    BY <1>10, <2>2, <2>3 DEF left, x
<1>14. CASE row > w.at
  <2>1. x = rest
    BY <1>2, <1>3, <1>12, <1>14
  <2>2. row # w.at /\ ~(row < w.at)
    BY <1>2, <1>3, <1>14
  <2>3. x = [rest EXCEPT !.at = IF row < w.at THEN w.at - 1 ELSE w.at]
    BY <1>9, <2>1, <2>2
  <2>4. QED
    BY <1>10, <2>2, <2>3 DEF left, x
<1>15. CASE row = w.at
  <2>1. ~(row < w.at) /\ ~(row > w.at)
    BY <1>2, <1>3, <1>15
  <2>2. x = Select([rest EXCEPT !.at = -1], left, defs, IF row <= Len(left) THEN row ELSE Len(left))
    BY <1>12, <1>15, <2>1
  <2>3. QED
    BY <1>11, <1>15, <2>2 DEF left, x
<1>16. QED
  BY <1>2, <1>3, <1>13, <1>14, <1>15

\* rebuild() makes the list anew from whatever there was.
LEMMA RebuiltRight ==
  ASSUME NEW us, UnitsOk(us), NEW defs \in QuirkTables, NEW w, WindowOk(w)
  PROVE  Good(us, defs, Rebuilt(w, us, defs))
<1> DEFINE u == Show(w, us, defs, 0)
           none == [u EXCEPT !.rows = IdsOf(us), !.at = 0]
           same == {r \in DOMAIN us : w.at # 0 /\ IdsOf(us)[r] = w.rows[w.at]}
           row == IF us = <<>> THEN 0 ELSE IF same = {} THEN 1 ELSE CHOOSE r \in same : TRUE
<1>1. WindowOk(u) /\ u.shown = 0 /\ PageTrue(us, defs, u)
  <2>1. Shown(us, 0)
    BY DEF Shown
  <2>2. QED
    BY <2>1, ShowRight
<1> HIDE DEF u
<1>2. none = Windowed(u, IdsOf(us), 0, u.shown, u.missed, u.page, u.dialog)
  BY <1>1, WindowParts DEF Windows, Windowed
<1> HIDE DEF none
<1>3. /\ WindowOk(none) /\ none.rows = IdsOf(us) /\ none.at = 0 /\ none.shown = 0
      /\ none.page = u.page /\ none.missed = u.missed
  <2>1. 0 \in Int /\ IdsOf(us) \in Seq(Range(CameraIds))
    BY IdsList
  <2>2. QED
    <3>1. ListParts(IdsOf(us), 0, u.shown)
      BY <1>1, <1>2, <2>1, WindowParts DEF ListParts
    <3>2. PageParts(u.missed, u.page, u.dialog)
      BY <1>1, <1>2, <2>1, WindowParts DEF PageParts
    <3>3. QED
      BY <1>1, <1>2, <2>1, <3>1, <3>2, WindowWhole
<1>4. DOMAIN us = 1 .. Len(us) /\ Len(us) \in Nat /\ (us = <<>> <=> Len(us) = 0)
  BY UnitParts
<1>5. row \in (IF us = <<>> THEN {0} ELSE DOMAIN us)
  <2>1. same # {} => (CHOOSE r \in same : TRUE) \in same
    BY Zenon
  <2>2. same \subseteq DOMAIN us
    OBVIOUS
  <2> HIDE DEF same
  <2>3. QED
    BY <1>4, <2>1, <2>2
<1> HIDE DEF same
<1>6. row = none.at => Good(us, defs, none)
  <2>1. SUFFICES ASSUME row = 0 PROVE Good(us, defs, none)
    BY <1>3
  <2> HIDE DEF row
  <2>2. us = <<>>
    BY <1>4, <1>5, <2>1
  <2>3. ListFits(us, none)
    BY <1>3, <2>2 DEF ListFits
  <2>4. PageTrue(us, defs, none)
    BY <1>1, <1>3, PageKept
  <2>5. QED
    BY <1>3, <2>3, <2>4 DEF Good
<1> HIDE DEF row
<1>7. Good(us, defs, Select(none, us, defs, row))
  BY <1>3, <1>5, <1>6, SelectRight
<1>8. QED
  BY <1>7 DEF Rebuilt, none, u, row, same, IdsOf

-----------------------------------------------------------------------------
\* Cameras with the ids and objects there were.
Alike(us, q) ==
  /\ Len(q) = Len(us)
  /\ \A k \in 1 .. Len(us) : q[k].id = us[k].id /\ q[k].object = us[k].object

\* One camera changed, with the id and the object it had.
Changed(us, r, u) == [us EXCEPT ![r] = u]

LEMMA ChangedUnits ==
  ASSUME NEW us, UnitsOk(us), NEW r \in 1 .. Len(us), NEW u \in Units,
         u.id = us[r].id, u.object = us[r].object
  PROVE  LET q == Changed(us, r, u)
         IN  /\ UnitsOk(q) /\ Alike(us, q) /\ q[r] = u
             /\ \A k \in 1 .. Len(us) : k # r => q[k] = us[k]
<1> DEFINE q == Changed(us, r, u)
<1>1. us \in Seq(Units) /\ Len(us) \in Nat /\ DOMAIN us = 1 .. Len(us)
  BY UnitParts
<1>2. /\ q \in Seq(Units) /\ Len(q) = Len(us) /\ q[r] = u /\ DOMAIN q = DOMAIN us
      /\ \A k \in 1 .. Len(us) : k # r => q[k] = us[k]
  BY <1>1 DEF Changed
<1> HIDE DEF q
<1>3. \A k \in 1 .. Len(us) : q[k].id = us[k].id /\ q[k].object = us[k].object
  BY <1>2
<1>4. UnitsOk(q)
  <2>1. \A i, j \in 1 .. Len(us) : us[i].id = us[j].id \/ us[i].object = us[j].object => i = j
    BY DEF UnitsOk
  <2>2. \A i, j \in 1 .. Len(q) : q[i].id = q[j].id \/ q[i].object = q[j].object => i = j
    BY <1>2, <1>3, <2>1
  <2>3. QED
    BY <1>2, <2>2 DEF UnitsOk
<1>5. QED
  BY <1>2, <1>3, <1>4 DEF Alike, q

\* The list and the camera shown do not depend on more than that.
LEMMA FitsAlike ==
  ASSUME NEW us, UnitsOk(us), NEW q, UnitsOk(q), Alike(us, q), NEW w, ListFits(us, w),
         NEW v, v.rows = w.rows, v.at = w.at, v.shown = w.shown
  PROVE  ListFits(q, v)
<1>1. /\ DOMAIN us = 1 .. Len(us) /\ DOMAIN q = 1 .. Len(us) /\ Len(us) \in Nat
      /\ us = <<>> <=> q = <<>>
  BY UnitParts DEF Alike
<1>2. IdsOf(q) = IdsOf(us)
  BY <1>1 DEF IdsOf, Alike
<1>3. w.at # 0 => w.at \in 1 .. Len(us) /\ us[w.at].object = q[w.at].object
  BY <1>1 DEF ListFits, Alike
<1>4. QED
  BY <1>1, <1>2, <1>3 DEF ListFits

\* The camera shown is one there is.
LEMMA ShownThere ==
  ASSUME NEW us, UnitsOk(us), NEW w, ListFits(us, w)
  PROVE  /\ Shown(us, w.shown)
         /\ w.shown # 0 => \E k \in 1 .. Len(us) : w.shown = us[k].object /\ UnitOf(us, w.shown) = us[k]
<1>1. w.at # 0 => w.at \in 1 .. Len(us)
  BY UnitParts DEF ListFits
<1>2. w.shown # 0 => w.at # 0 /\ w.shown = us[w.at].object
  BY DEF ListFits
<1>3. QED
  BY <1>1, <1>2, UnitFound DEF Shown

\* What is found by the object of a camera that may have changed.
LEMMA UnitAlike ==
  ASSUME NEW us, UnitsOk(us), NEW q, UnitsOk(q), Alike(us, q), NEW k \in 1 .. Len(us)
  PROVE  UnitOf(us, us[k].object) = us[k] /\ UnitOf(q, us[k].object) = q[k]
<1>1. UnitOf(us, us[k].object) = us[k]
  BY UnitFound
<1>2. UnitOf(q, q[k].object) = q[k]
  BY UnitFound DEF Alike
<1>3. QED
  BY <1>1, <1>2 DEF Alike

\* A window that reads the camera it shows again, whatever became of the cameras.
LEMMA ShownAgain ==
  ASSUME NEW us, UnitsOk(us), NEW q, UnitsOk(q), Alike(us, q), NEW defs \in QuirkTables, NEW w,
         WindowOk(w), ListFits(us, w)
  PROVE  Good(q, defs, Show(w, q, defs, w.shown))
<1> DEFINE v == Show(w, q, defs, w.shown)
<1>1. ListFits(q, w)
  BY FitsAlike
<1>2. Shown(q, w.shown)
  BY <1>1, ShownThere
<1>3. WindowOk(v) /\ v.rows = w.rows /\ v.at = w.at /\ v.shown = w.shown /\ PageTrue(q, defs, v)
  BY <1>2, ShowRight
<1> HIDE DEF v
<1>4. ListFits(q, v)
  BY <1>3, FitsAlike
<1>5. Good(q, defs, v)
  BY <1>3, <1>4 DEF Good
<1>6. QED
  BY <1>5 DEF v

\* applyModelChanges() of one camera: what is shown follows.
LEMMA ModelFollowed ==
  ASSUME NEW us, UnitsOk(us), NEW defs \in QuirkTables, NEW w, Good(us, defs, w),
         NEW r \in 1 .. Len(us), NEW u \in Units, u.id = us[r].id, u.object = us[r].object,
         u.quirks = us[r].quirks
  PROVE  LET q == Changed(us, r, u)
         IN UnitsOk(q) /\ Good(q, defs, ModelChanged(w, q, defs, us[r].object))
<1> DEFINE q == Changed(us, r, u)
<1>1. UnitsOk(q) /\ Alike(us, q) /\ q[r] = u /\ \A k \in 1 .. Len(us) : k # r => q[k] = us[k]
  BY ChangedUnits
<1> HIDE DEF q
<1>2. WindowOk(w) /\ ListFits(us, w) /\ PageTrue(us, defs, w)
  BY DEF Good
<1>3. CASE w.shown = us[r].object /\ tab # "quirks"
  <2>1. ModelChanged(w, q, defs, us[r].object) = Show(w, q, defs, w.shown)
    BY <1>3 DEF ModelChanged
  <2>2. QED
    BY <1>1, <1>2, <2>1, ShownAgain DEF q
<1>4. CASE ~(w.shown = us[r].object /\ tab # "quirks")
  <2>1. ModelChanged(w, q, defs, us[r].object) = w
    BY <1>4 DEF ModelChanged
  <2>2. ListFits(q, w)
    BY <1>1, <1>2, FitsAlike
  <2>3. CASE w.shown # us[r].object
    <3>1. w.shown # 0 => UnitOf(q, w.shown) = UnitOf(us, w.shown)
      <4>1. SUFFICES ASSUME w.shown # 0 PROVE UnitOf(q, w.shown) = UnitOf(us, w.shown)
        OBVIOUS
      <4>2. PICK k \in 1 .. Len(us) : w.shown = us[k].object
        BY <1>2, <4>1, ShownThere
      <4>3. k # r
        BY <2>3, <4>2
      <4>4. UnitOf(us, us[k].object) = us[k] /\ UnitOf(q, us[k].object) = q[k]
        BY <1>1, UnitAlike
      <4>5. QED
        BY <1>1, <4>2, <4>3, <4>4
    <3>2. PageTrue(q, defs, w)
      BY <1>2, <3>1, PageKept
    <3>3. QED
      BY <1>1, <1>2, <2>1, <2>2, <3>2 DEF Good, q
  <2>4. CASE w.shown = us[r].object /\ tab = "quirks"
    <3>1. UnitOf(q, w.shown).quirks = UnitOf(us, w.shown).quirks
      <4>1. UnitOf(us, us[r].object) = us[r] /\ UnitOf(q, us[r].object) = q[r]
        BY <1>1, UnitAlike
      <4>2. QED
        BY <1>1, <2>4, <4>1
    <3>2. TargetQuirks(w.page, q, defs, w.shown) = TargetQuirks(w.page, us, defs, w.shown)
      BY <3>1 DEF TargetQuirks
    <3>3. PageTrue(q, defs, w)
      BY <1>2, <2>4, <3>2 DEF PageTrue, FormTrue, EditorTrue, RowsTrue
    <3>4. QED
      BY <1>1, <1>2, <2>1, <2>2, <3>3 DEF Good, q
  <2>5. QED
    BY <1>4, <2>3, <2>4
<1>5. QED
  BY <1>1, <1>3, <1>4 DEF q

\* The camera a table of quirks was given to, with the names they make.
LEMMA RequirkedUnit ==
  ASSUME NEW u \in Units, NEW table \in QuirkTables
  PROVE  LET v == Requirked(u, table)
         IN  /\ v \in Units /\ v.id = u.id /\ v.object = u.object /\ v.quirks = table
             /\ v.fields = u.fields /\ v.scopes = u.scopes
             /\ v.names = Styled(u.names, table) /\ Len(v.names) = Len(u.names)
<1> DEFINE n == Styled(u.names, table)
           v == Requirked(u, table)
<1>1. n \in Seq(Writings) /\ Len(n) = Len(u.names)
  BY UnitFields, StyledNames
<1>2. v = [u EXCEPT !.quirks = table, !.names = n]
  BY DEF Requirked
<1> HIDE DEF n, v
<1>3. /\ v \in Units /\ v.id = u.id /\ v.object = u.object /\ v.quirks = table
      /\ v.fields = u.fields /\ v.scopes = u.scopes /\ v.names = n
  BY <1>1, <1>2 DEF Units
<1>4. QED
  BY <1>1, <1>3 DEF v, n

\* setQuirks() of one camera, in any window that shows no switches of its own for it.
LEMMA QuirksAlike ==
  ASSUME NEW us, UnitsOk(us), NEW r \in 1 .. Len(us), NEW table \in QuirkTables
  PROVE  LET q == QuirksSet(us, us[r].object, table)
         IN  /\ UnitsOk(q) /\ Alike(us, q) /\ q[r] = Requirked(us[r], table)
             /\ \A k \in 1 .. Len(us) : k # r => q[k] = us[k]
<1> DEFINE q == QuirksSet(us, us[r].object, table)
           u == Requirked(us[r], table)
<1>1. RowOf(us, us[r].object) = r /\ us[r] \in Units /\ r \in DOMAIN us
  BY UnitFound, UnitParts
<1>2. q = Changed(us, r, u)
  <2> DEFINE row == RowOf(us, us[r].object)
  <2>1. q = [us EXCEPT ![row] = Requirked(us[row], table)]
    BY DEF QuirksSet
  <2>2. row = r
    BY <1>1
  <2> HIDE DEF row, q
  <2>3. QED
    BY <2>1, <2>2 DEF Changed
<1>3. u \in Units /\ u.id = us[r].id /\ u.object = us[r].object
  BY <1>1, RequirkedUnit
<1> HIDE DEF q, u
<1>4. /\ UnitsOk(q) /\ Alike(us, q) /\ q[r] = u
      /\ \A k \in 1 .. Len(us) : k # r => q[k] = us[k]
  BY <1>2, <1>3, ChangedUnits
<1>5. QED
  BY <1>4 DEF q, u

\* Another page, note or dialog in a window.
LEMMA Repaged ==
  ASSUME NEW us, NEW w, WindowOk(w), ListFits(us, w), NEW p, NEW m, NEW d, PageParts(m, p, d)
  PROVE  LET v == Paged(w, m, p, d)
         IN  /\ WindowOk(v) /\ ListFits(us, v) /\ v.shown = w.shown /\ v.page = p
             /\ v.missed = m /\ v.dialog = d
<1> DEFINE v == Paged(w, m, p, d)
<1>1. v = Windowed(w, w.rows, w.at, w.shown, m, p, d)
  BY WindowParts DEF Windows, Windowed, Paged
<1> HIDE DEF v
<1>2. /\ WindowOk(v) /\ v.rows = w.rows /\ v.at = w.at /\ v.shown = w.shown /\ v.missed = m
      /\ v.page = p /\ v.dialog = d
  <2>1. ListParts(w.rows, w.at, w.shown)
    BY <1>1, WindowParts DEF ListParts
  <2>2. PageParts(m, p, d)
    BY <1>1, WindowParts DEF PageParts
  <2>3. QED
    BY <1>1, <2>1, <2>2, WindowWhole
<1>3. ListFits(us, v)
  BY <1>2 DEF ListFits
<1>4. QED
  BY <1>2, <1>3 DEF v

\* Nothing more is claimed of what was missed.
LEMMA Missed ==
  ASSUME NEW us, NEW defs, NEW w, Good(us, defs, w), NEW m \in BOOLEAN, w.missed => m,
         NEW v, v = [w EXCEPT !.missed = m]
  PROVE  Good(us, defs, v) /\ v.page = w.page /\ v.shown = w.shown /\ v.missed = m
<1>1. WindowOk(w) /\ ListFits(us, w) /\ PageTrue(us, defs, w)
  BY DEF Good
<1>2. v = Paged(w, m, w.page, w.dialog)
  BY <1>1, WindowParts DEF Windows, Paged
<1>3. /\ WindowOk(v) /\ ListFits(us, v) /\ v.shown = w.shown /\ v.page = w.page /\ v.missed = m
  <2>1. PageParts(m, w.page, w.dialog)
    BY <1>1, <1>2, WindowParts DEF PageParts
  <2>2. QED
    BY <1>1, <1>2, <2>1, Repaged
<1>4. PageTrue(us, defs, v)
  BY <1>1, <1>3 DEF PageTrue, FormTrue, EditorTrue, RowsTrue
<1>5. QED
  BY <1>3, <1>4 DEF Good

\* A dialog opens or closes.
LEMMA Asked ==
  ASSUME NEW us, NEW defs, NEW w, Good(us, defs, w), NEW d \in Dialogs,
         d.kind \in {"add", "edit"} => tab = "identity",
         NEW v, v = [w EXCEPT !.dialog = d]
  PROVE  Good(us, defs, v) /\ v.page = w.page /\ v.shown = w.shown /\ v.missed = w.missed
<1>1. WindowOk(w) /\ ListFits(us, w) /\ PageTrue(us, defs, w)
  BY DEF Good
<1>2. v = Paged(w, w.missed, w.page, d)
  BY <1>1, WindowParts DEF Windows, Paged
<1>3. /\ WindowOk(v) /\ ListFits(us, v) /\ v.shown = w.shown /\ v.page = w.page
      /\ v.missed = w.missed
  <2>1. PageParts(w.missed, w.page, d)
    BY <1>1, <1>2, WindowParts DEF PageParts
  <2>2. QED
    BY <1>1, <1>2, <2>1, Repaged
<1>4. PageTrue(us, defs, v)
  BY <1>1, <1>3, PageKept
<1>5. QED
  BY <1>3, <1>4 DEF Good

LEMMA NoDialogFits == NoDialog \in Dialogs /\ NoDialog.kind = "none"
BY DEF Dialogs, NoDialog

\* setQuirks() of a camera: the switches follow, and what other tabs show of its
\* profiles is noted as missed.
LEMMA QuirksFollowed ==
  ASSUME NEW us, UnitsOk(us), NEW defs \in QuirkTables, NEW w, Good(us, defs, w),
         NEW r \in 1 .. Len(us), NEW table \in QuirkTables
  PROVE  LET q == QuirksSet(us, us[r].object, table)
         IN  /\ UnitsOk(q)
             /\ Good(q, defs, Unannounced(QuirksChanged(w, q, defs, us[r].object), us, q))
<1> DEFINE q == QuirksSet(us, us[r].object, table)
           o == us[r].object
           v == QuirksChanged(w, q, defs, o)
           b == v.shown # 0 /\ UnitOf(us, v.shown).names # UnitOf(q, v.shown).names
           m == v.missed \/ b
           x == [v EXCEPT !.missed = m]
<1>1. /\ UnitsOk(q) /\ Alike(us, q) /\ q[r] = Requirked(us[r], table)
      /\ \A k \in 1 .. Len(us) : k # r => q[k] = us[k]
  BY QuirksAlike
<1>2. WindowOk(w) /\ ListFits(us, w) /\ PageTrue(us, defs, w)
  BY DEF Good
<1>3. x = Unannounced(v, us, q)
  BY DEF Unannounced
<1> HIDE DEF q
<1>4. CASE w.shown = o /\ tab = "quirks" /\ w.page.target = "camera"
  <2>1. v = Show(w, q, defs, w.shown)
    BY <1>4 DEF QuirksChanged
  <2>2. Good(q, defs, v)
    BY <1>1, <1>2, <2>1, ShownAgain
  <2> HIDE DEF v
  <2>3. m \in BOOLEAN /\ (v.missed => m)
    BY <2>2, WindowParts DEF Good
  <2> HIDE DEF m
  <2>4. Good(q, defs, x)
    BY <2>2, <2>3, Missed
  <2>5. QED
    BY <1>1, <1>3, <2>4 DEF q, o, v, x, m
<1>5. CASE ~(w.shown = o /\ tab = "quirks" /\ w.page.target = "camera")
  <2>1. v = w
    BY <1>5 DEF QuirksChanged
  <2>2. m \in BOOLEAN /\ (w.missed => m) /\ (b => m)
    BY <1>2, <2>1, WindowParts
  <2>3. x = Paged(w, m, w.page, w.dialog)
    BY <1>2, <2>1, WindowParts DEF Windows, Paged
  <2> HIDE DEF m, x
  <2>4. ListFits(q, w)
    BY <1>1, <1>2, FitsAlike
  <2>5. WindowOk(x) /\ ListFits(q, x) /\ x.shown = w.shown /\ x.page = w.page /\ x.missed = m
    <3>1. PageParts(m, w.page, w.dialog)
      BY <1>2, <2>2, <2>3, <2>4, WindowParts DEF PageParts
    <3>2. QED
      BY <1>2, <2>2, <2>3, <2>4, <3>1, Repaged
  <2>6. CASE w.shown = 0
    <3>1. PageTrue(q, defs, x)
      <4>1. TargetQuirks(x.page, q, defs, x.shown) = TargetQuirks(w.page, us, defs, w.shown)
        BY <2>5, <2>6 DEF TargetQuirks
      <4>2. QED
        BY <1>2, <2>2, <2>5, <2>6, <4>1 DEF PageTrue, FormTrue, EditorTrue, RowsTrue
    <3>2. QED
      BY <1>1, <1>3, <2>1, <2>5, <3>1 DEF Good, q, o, x
  <2>7. CASE w.shown # 0
    <3>1. PICK k \in 1 .. Len(us) : w.shown = us[k].object /\ UnitOf(us, w.shown) = us[k]
      BY <1>2, <2>7, ShownThere
    <3>2. UnitOf(q, w.shown) = q[k]
      BY <1>1, <3>1, UnitAlike
    <3> DEFINE old == UnitOf(us, w.shown)  new == UnitOf(q, w.shown)
    <3>3. /\ new.fields = old.fields /\ new.scopes = old.scopes
          /\ Len(new.names) = Len(old.names)
          /\ k # r => new.quirks = old.quirks
      <4>1. us[r] \in Units
        BY UnitParts
      <4>2. LET n == Requirked(us[r], table)
            IN n.fields = us[r].fields /\ n.scopes = us[r].scopes /\ Len(n.names) = Len(us[r].names)
        BY <4>1, RequirkedUnit
      <4>3. CASE k = r
        BY <1>1, <3>1, <3>2, <4>2, <4>3
      <4>4. CASE k # r
        BY <1>1, <3>1, <3>2, <4>4
      <4>5. QED
        BY <4>3, <4>4
    <3>4. m \/ new.names = old.names
      BY <2>1, <2>2, <2>7
    <3>5. tab = "quirks" => TargetQuirks(x.page, q, defs, x.shown) = TargetQuirks(w.page, us, defs, w.shown)
      <4>1. SUFFICES ASSUME tab = "quirks"
                     PROVE  TargetQuirks(w.page, q, defs, w.shown) = TargetQuirks(w.page, us, defs, w.shown)
        BY <2>5
      <4>2. w.page.target = "global" \/ k # r
        <5>1. w.page \in Switches
          BY <1>2, <4>1, WindowParts DEF PageOk
        <5>2. QED
          BY <1>5, <3>1, <4>1, <5>1 DEF Switches
      <4>3. QED
        BY <2>7, <3>3, <4>2 DEF TargetQuirks
    <3> HIDE DEF old, new
    <3>6. FormTrue(q, x)
      BY <1>2, <2>2, <2>5, <3>3 DEF PageTrue, FormTrue, old, new
    <3>7. EditorTrue(q, x)
      BY <1>2, <2>2, <2>5, <3>3, <3>4 DEF PageTrue, EditorTrue, old, new
    <3>8. RowsTrue(q, defs, x)
      BY <1>2, <2>2, <2>5, <3>5 DEF PageTrue, RowsTrue
    <3>9. QED
      BY <1>1, <1>3, <2>1, <2>5, <3>6, <3>7, <3>8 DEF PageTrue, Good, q, o, x
  <2>8. QED
    BY <2>6, <2>7
<1>6. QED
  BY <1>4, <1>5

\* setGlobalQuirks(): nobody in the window is told.
LEMMA DefaultedRight ==
  ASSUME NEW us, defaults \in QuirkTables, NEW table \in QuirkTables, NEW w, Good(us, defaults, w)
  PROVE  Good(us, table, Defaulted(w, table))
<1> DEFINE m == w.missed \/ (tab = "quirks" /\ w.page.target = "global" /\ table # defaults)
           v == [w EXCEPT !.missed = m]
<1>1. v = Defaulted(w, table)
  BY DEF Defaulted
<1>2. m \in BOOLEAN /\ (w.missed => m)
  BY WindowParts DEF Good
<1>3. tab = "quirks" => m \/ w.page.target # "global" \/ table = defaults
  OBVIOUS
<1> HIDE DEF m, v
<1>4. Good(us, defaults, v) /\ v.page = w.page /\ v.shown = w.shown /\ v.missed = m
  BY <1>2, Missed DEF v
<1>5. tab = "quirks" /\ ~m =>
        TargetQuirks(v.page, us, table, v.shown) = TargetQuirks(v.page, us, defaults, v.shown)
  BY <1>3, <1>4 DEF TargetQuirks
<1>6. PageTrue(us, table, v)
  BY <1>4, <1>5 DEF Good, PageTrue, RowsTrue
<1>7. QED
  BY <1>1, <1>4, <1>6 DEF Good

-----------------------------------------------------------------------------
\* There is an object for a camera whose id is free: none that is alive, nor the one a
\* pointer kept somewhere may be to.
LEMMA ObjectThere ==
  ASSUME NEW us, UnitsOk(us), NEW i \in Range(CameraIds), \A r \in 1 .. Len(us) : us[r].id # i,
         NEW w
  PROVE  NewObject(us, w) \in Objects /\ NewObject(us, w) \notin Alive(us)
<1> DEFINE R == Range(CameraIds)  L == Len(CameraIds)  n == Len(us)
           A == Alive(us) \cup Pointed(w)
<1>1. CameraIds \in Seq(R) /\ L \in Nat /\ DOMAIN CameraIds = 1 .. L
  BY DesktopAssumption
<1>2. n \in Nat /\ DOMAIN us = 1 .. n /\ \A r \in 1 .. n : us[r] \in Units
  BY UnitParts
<1>3. /\ IsFiniteSet(1 .. L) /\ Cardinality(1 .. L) = L
      /\ IsFiniteSet(1 .. n) /\ Cardinality(1 .. n) = n
  <2>1. IsFiniteSet(1 .. L) /\ Cardinality(1 .. L) = IF 1 > L THEN 0 ELSE L - 1 + 1
    BY <1>1, FS_Interval
  <2>2. IsFiniteSet(1 .. n) /\ Cardinality(1 .. n) = IF 1 > n THEN 0 ELSE n - 1 + 1
    BY <1>2, FS_Interval
  <2> HIDE DEF L, n
  <2>3. QED
    BY <1>1, <1>2, <2>1, <2>2
<1>4. IsFiniteSet(R) /\ Cardinality(R) <= L
  <2>1. CameraIds \in Surjection(1 .. L, R)
    BY <1>1 DEF Surjection, Range
  <2>2. QED
    BY <1>3, <2>1, FS_Surjection
<1>5. n <= Cardinality(R) - 1
  <2> DEFINE f == [r \in 1 .. n |-> us[r].id]
             S == R \ {i}
  <2>1. \A r \in 1 .. n : us[r].id \in S
    BY <1>2, UnitFields
  <2>2. f \in Injection(1 .. n, S)
    <3>1. f \in [1 .. n -> S]
      BY <2>1
    <3>2. \A r, s \in 1 .. n : f[r] = f[s] => r = s
      BY UnitParts
    <3> HIDE DEF f, S, n
    <3>3. QED
      BY <3>1, <3>2 DEF Injection, IsInjective
  <2>3. IsFiniteSet(S) /\ Cardinality(S) = Cardinality(R) - 1
    BY <1>4, FS_RemoveElement
  <2> HIDE DEF f, S, n
  <2>4. Cardinality(1 .. n) <= Cardinality(S)
    BY <2>2, <2>3, FS_Injection
  <2>5. QED
    BY <1>3, <2>3, <2>4
<1>6. IsFiniteSet(Alive(us)) /\ Cardinality(Alive(us)) <= n
  <2> DEFINE g == [r \in 1 .. n |-> us[r].object]
  <2>1. Alive(us) = {us[r].object : r \in 1 .. n}
    BY <1>2 DEF Alive, Range
  <2>2. g \in Surjection(1 .. n, Alive(us))
    BY <2>1 DEF Surjection
  <2> HIDE DEF g, n
  <2>3. QED
    BY <1>3, <2>2, FS_Surjection
<1>7. IsFiniteSet(A) /\ Cardinality(A) <= n + 1
  <2>1. Cardinality(Alive(us)) \in Nat
    BY <1>6, FS_CardinalityType
  <2>2. CASE Pointed(w) = {}
    <3>1. A = Alive(us)
      BY <2>2
    <3> HIDE DEF A, n
    <3>2. n \in Nat
      BY <1>2 DEF n
    <3>3. QED
      BY <1>6, <2>1, <3>1, <3>2
  <2>3. CASE Pointed(w) # {}
    <3>1. A = Alive(us) \cup {w.dialog.object}
      BY <2>3 DEF Pointed
    <3>2. /\ IsFiniteSet(Alive(us) \cup {w.dialog.object})
          /\ \/ Cardinality(Alive(us) \cup {w.dialog.object}) = Cardinality(Alive(us))
             \/ Cardinality(Alive(us) \cup {w.dialog.object}) = Cardinality(Alive(us)) + 1
      BY <1>6, FS_AddElement
    <3> HIDE DEF A, n
    <3>3. n \in Nat
      BY <1>2 DEF n
    <3>4. QED
      BY <1>6, <2>1, <3>1, <3>2, <3>3
  <2>4. QED
    BY <2>2, <2>3
<1>8. Objects \ A # {}
  <2>1. SUFFICES ASSUME Objects \subseteq A PROVE FALSE
    OBVIOUS
  <2>2. Cardinality(Objects) <= Cardinality(A)
    BY <1>7, <2>1, FS_Subset
  <2>3. /\ Cardinality(Objects) \in Nat /\ Cardinality(A) \in Nat /\ Cardinality(R) \in Nat
        /\ Cardinality(Objects) > L
    BY <1>4, <1>7, DesktopAssumption, FS_CardinalityType
  <2> HIDE DEF A, n, L, R
  <2>4. n \in Nat /\ L \in Nat
    BY <1>1, <1>2 DEF n, L
  <2>5. QED
    BY <1>4, <1>5, <1>7, <2>2, <2>3, <2>4
<1>9. NewObject(us, w) \in Objects \ A
  <2>1. (CHOOSE o \in Objects \ A : TRUE) \in Objects \ A
    BY <1>8, Zenon
  <2>2. QED
    BY <2>1 DEF NewObject
<1>10. QED
  BY <1>9

\* The first id nobody has.
LEMMA FirstFreeFree == ASSUME FreeIds # {} PROVE FirstFree \in FreeIds
<1> DEFINE L == Len(CameraIds)
           Least(n) == CameraIds[n] \in FreeIds /\ \A m \in 1 .. n - 1 : CameraIds[m] \notin FreeIds
           P == {n \in 0 .. L : \A m \in 1 .. n : CameraIds[m] \notin FreeIds}
<1>1. CameraIds \in Seq(Range(CameraIds)) /\ L \in Nat /\ DOMAIN CameraIds = 1 .. L
  BY DesktopAssumption
<1>2. \E n \in DOMAIN CameraIds : Least(n)
  <2>1. SUFFICES ASSUME \A n \in 1 .. L : ~Least(n) PROVE FALSE
    BY <1>1
  <2>2. 0 \in P
    BY <1>1
  <2>3. ASSUME NEW n \in 1 .. L, n - 1 \in P PROVE n \in P
    <3>1. \A m \in 1 .. n - 1 : CameraIds[m] \notin FreeIds
      BY <2>3
    <3>2. CameraIds[n] \notin FreeIds
      BY <2>1, <3>1
    <3>3. n \in 0 .. L
      BY <1>1
    <3>4. \A m \in 1 .. n : CameraIds[m] \notin FreeIds
      BY <1>1, <3>1, <3>2
    <3>5. QED
      BY <3>3, <3>4
  <2> HIDE DEF P
  <2>4. \A n \in 0 .. L : n \in P
    BY <1>1, <2>2, <2>3, Climb
  <2>5. L \in P
    BY <1>1, <2>4
  <2>6. \A m \in 1 .. L : CameraIds[m] \notin FreeIds
    BY <2>5 DEF P
  <2>7. PICK i \in FreeIds : TRUE
    OBVIOUS
  <2>8. i \in Range(CameraIds)
    BY <2>7 DEF FreeIds
  <2>9. PICK m \in 1 .. L : CameraIds[m] = i
    BY <1>1, <2>8 DEF Range
  <2>10. QED
    BY <2>6, <2>7, <2>9
<1>3. Least(CHOOSE n \in DOMAIN CameraIds : Least(n))
  <2> HIDE DEF Least
  <2>1. QED
    BY <1>2
<1>4. QED
  BY <1>3 DEF FirstFree

LEMMA FreshUnit ==
  ASSUME NEW defs \in QuirkTables, NEW i \in Range(CameraIds), NEW o \in Objects
  PROVE  LET u == Fresh(defs, i, o) IN u \in Units /\ u.id = i /\ u.object = o
<1> DEFINE q == Overlaid(Untouched, defs)
<1>1. q \in QuirkTables
  BY UntouchedTable, OverlaidTable
<1>2. "made" \in Writings /\ <<>> \in Seq(Writings) /\ <<"plain">> \in Seq(Writings)
  BY DEF Writings
<1> HIDE DEF q
<1>3. LET u == [id |-> i, object |-> o, fields |-> "made", scopes |-> <<>>,
                names |-> <<"plain">>, quirks |-> q]
      IN u \in Units /\ u.id = i /\ u.object = o
  BY <1>1, <1>2 DEF Units
<1>4. QED
  BY <1>3 DEF Fresh, q

-----------------------------------------------------------------------------
LEMMA InvParts ==
  ASSUME DesktopInv
  PROVE  /\ UnitsOk(units) /\ defaults \in QuirkTables /\ Good(units, defaults, win)
         /\ WindowOk(win) /\ ListFits(units, win) /\ PageTrue(units, defaults, win)
BY DEF DesktopInv, Good

LEMMA InvNext ==
  ASSUME tab' = tab, UnitsOk(units'), defaults' \in QuirkTables, Good(units', defaults', win')
  PROVE  DesktopInv'
BY DEF DesktopInv, Good, WindowOk, PageOk, ListFits, PageTrue, FormTrue, EditorTrue, RowsTrue

LEMMA AddUnitKeeps ==
  ASSUME DesktopInv, NEW w, Good(units, defaults, w), NEW o \in Objects, o \notin Alive(units),
         AddUnit(w, o)
  PROVE  DesktopInv'
<1> DEFINE u == Fresh(defaults, FirstFree, o)
<1>1. /\ FreeIds # {} /\ units' = Append(units, u) /\ win' = RowAdded(w, units', defaults)
      /\ tab' = tab /\ defaults' = defaults
  BY DEF AddUnit
<1>2. FirstFree \in Range(CameraIds) /\ \A r \in 1 .. Len(units) : units[r].id # FirstFree
  <2>1. FirstFree \in FreeIds
    BY <1>1, FirstFreeFree
  <2>2. DOMAIN units = 1 .. Len(units)
    BY InvParts, UnitParts
  <2> DEFINE f == FirstFree
  <2> HIDE DEF f
  <2>3. f \in Range(CameraIds) /\ \A r \in 1 .. Len(units) : units[r].id # f
    BY <2>1, <2>2 DEF FreeIds, Range, f
  <2>4. QED
    BY <2>3 DEF f
<1>3. u \in Units /\ u.id = FirstFree /\ u.object = o
  BY <1>2, InvParts, FreshUnit
<1>4. \A r \in 1 .. Len(units) : units[r].object # o
  BY InvParts, UnitFound
<1> HIDE DEF u
<1>5. /\ UnitsOk(Append(units, u))
      /\ Good(Append(units, u), defaults, RowAdded(w, Append(units, u), defaults))
  BY <1>2, <1>3, <1>4, InvParts, AddedRight
<1>6. QED
  BY <1>1, <1>5, InvParts, InvNext

LEMMA AddCameraKeeps == ASSUME DesktopInv, AddCamera \/ AddedElsewhere PROVE DesktopInv'
<1> DEFINE o == NewObject(units, win)
           d == [kind |-> "warning", object |-> o]
           v == [win EXCEPT !.dialog = d]
<1>1. AddUnit(win, o) \/ AddUnit(v, o)
  BY DEF AddCamera, AddedElsewhere
<1>2. FreeIds # {}
  BY <1>1 DEF AddUnit
<1>3. o \in Objects /\ o \notin Alive(units)
  <2>1. PICK i \in FreeIds : TRUE
    BY <1>2
  <2>2. DOMAIN units = 1 .. Len(units)
    BY InvParts, UnitParts
  <2>3. i \in Range(CameraIds) /\ \A r \in 1 .. Len(units) : units[r].id # i
    BY <2>1, <2>2 DEF FreeIds, Range
  <2>4. QED
    BY <2>3, InvParts, ObjectThere
<1> HIDE DEF o
<1>4. Good(units, defaults, v)
  <2>1. d \in Dialogs /\ d.kind = "warning"
    BY <1>3 DEF Dialogs
  <2> HIDE DEF d
  <2>2. QED
    BY <2>1, InvParts, Asked
<1> HIDE DEF v
<1>5. QED
  BY <1>1, <1>3, <1>4, InvParts, AddUnitKeeps

LEMMA RemoveUnitKeeps ==
  ASSUME DesktopInv, NEW w, Good(units, defaults, w), NEW row \in DOMAIN units, RemoveUnit(w, row)
  PROVE  DesktopInv'
<1>1. /\ units' = RemoveAt(units, row) /\ win' = RowRemoved(w, units, defaults, row)
      /\ tab' = tab /\ defaults' = defaults
  BY DEF RemoveUnit
<1>2. row \in 1 .. Len(units)
  BY InvParts, UnitParts
<1>3. UnitsOk(RemoveAt(units, row))
  BY <1>2, InvParts, RemovedUnits
<1>4. Good(RemoveAt(units, row), defaults, RowRemoved(w, units, defaults, row))
  BY <1>2, InvParts, RemovedRight
<1>5. QED
  BY <1>1, <1>3, <1>4, InvParts, InvNext

LEMMA ChangeUnitKeeps ==
  ASSUME DesktopInv, NEW w, Good(units, defaults, w), NEW o \in Alive(units), NEW u \in Units,
         u.id = UnitOf(units, o).id, u.object = o, u.quirks = UnitOf(units, o).quirks,
         ChangeUnit(w, o, u)
  PROVE  DesktopInv'
<1>1. PICK r \in 1 .. Len(units) : units[r].object = o
  BY InvParts, AliveRow
<1>2. UnitOf(units, o) = units[r] /\ RowOf(units, o) = r
  BY <1>1, InvParts, UnitFound
<1>3. /\ units' = [units EXCEPT ![r] = u] /\ win' = ModelChanged(w, units', defaults, o)
      /\ tab' = tab /\ defaults' = defaults
  BY <1>2 DEF ChangeUnit
<1> DEFINE q == Changed(units, r, u)
<1>4. UnitsOk(q) /\ Good(q, defaults, ModelChanged(w, q, defaults, units[r].object))
  BY <1>1, <1>2, InvParts, ModelFollowed
<1>5. q = [units EXCEPT ![r] = u]
  BY DEF Changed
<1> HIDE DEF q
<1>6. QED
  BY <1>1, <1>3, <1>4, <1>5, InvParts, InvNext

LEMMA SetUnitQuirksKeeps ==
  ASSUME DesktopInv, NEW w, Good(units, defaults, w), NEW o \in Alive(units),
         NEW table \in QuirkTables, SetUnitQuirks(w, o, table)
  PROVE  DesktopInv'
<1>1. PICK r \in 1 .. Len(units) : units[r].object = o
  BY InvParts, AliveRow
<1> DEFINE q == QuirksSet(units, o, table)
<1>2. /\ units' = q /\ win' = Unannounced(QuirksChanged(w, units', defaults, o), units, units')
      /\ tab' = tab /\ defaults' = defaults
  BY DEF SetUnitQuirks
<1>3. /\ UnitsOk(q)
      /\ Good(q, defaults, Unannounced(QuirksChanged(w, q, defaults, o), units, q))
  BY <1>1, InvParts, QuirksFollowed
<1> HIDE DEF q
<1>4. QED
  BY <1>2, <1>3, InvParts, InvNext

-----------------------------------------------------------------------------
\* Nothing but the window changes.
LEMMA WindowOnly ==
  ASSUME DesktopInv, UNCHANGED <<tab, units, defaults>>, Good(units, defaults, win')
  PROVE  DesktopInv'
BY InvParts, InvNext

LEMMA GoneGood ==
  ASSUME DesktopInv
  PROVE  /\ Good(units, defaults, DialogGone) /\ DialogGone.shown = win.shown
         /\ DialogGone.page = win.page
<1>1. NoDialog \in Dialogs /\ (NoDialog.kind \in {"add", "edit"} => tab = "identity")
  BY NoDialogFits
<1> DEFINE v == [win EXCEPT !.dialog = NoDialog]
<1>2. v = DialogGone
  BY DEF DialogGone
<1> HIDE DEF v
<1>3. Good(units, defaults, v) /\ v.page = win.page /\ v.shown = win.shown
  BY <1>1, InvParts, Asked DEF v
<1>4. QED
  BY <1>2, <1>3

LEMMA SelectKeeps ==
  ASSUME DesktopInv, NEW w, Good(units, defaults, w), NEW row \in DOMAIN units,
         win' = Select(w, units, defaults, row), UNCHANGED <<tab, units, defaults>>
  PROVE  DesktopInv'
<1>1. DOMAIN units = 1 .. Len(units) /\ (units = <<>> <=> Len(units) = 0) /\ Len(units) \in Nat
  BY InvParts, UnitParts
<1>2. row \in (IF units = <<>> THEN {0} ELSE DOMAIN units)
  BY <1>1
<1>3. WindowOk(w) /\ w.rows = IdsOf(units)
  BY DEF Good, ListFits
<1>4. Good(units, defaults, Select(w, units, defaults, row))
  BY <1>2, <1>3, InvParts, SelectRight
<1>5. QED
  BY <1>4, WindowOnly

LEMMA OpenedKeeps ==
  ASSUME DesktopInv, NEW d \in Dialogs, d.kind \in {"add", "edit"} => tab = "identity", Opened(d)
  PROVE  DesktopInv'
<1> DEFINE v == [win EXCEPT !.dialog = d]
<1>1. win' = v /\ UNCHANGED <<tab, units, defaults>>
  BY DEF Opened
<1>2. Good(units, defaults, v)
  <2>1. v = [win EXCEPT !.dialog = d]
    OBVIOUS
  <2> HIDE DEF v
  <2>2. QED
    BY <2>1, InvParts, Asked
<1>3. QED
  BY <1>1, <1>2, WindowOnly

\* The list and its menu.
LEMMA RowsKeep ==
  ASSUME DesktopInv, NEW row \in DOMAIN units,
         PickRow(row) \/ OpenMenu(row) \/ RemovedElsewhere(row)
  PROVE  DesktopInv'
<1>1. CASE PickRow(row)
  BY <1>1, InvParts, SelectKeeps DEF PickRow
<1>2. CASE OpenMenu(row)
  <2> DEFINE d == [kind |-> "menu", object |-> units[row].object]
  <2>1. units[row].object \in Objects
    BY InvParts, UnitParts, UnitFields
  <2>2. d \in Dialogs /\ d.kind = "menu"
    BY <2>1 DEF Dialogs
  <2>3. Opened(d)
    BY <1>2 DEF OpenMenu
  <2> HIDE DEF d
  <2>4. QED
    BY <2>2, <2>3, OpenedKeeps
<1>3. CASE RemovedElsewhere(row)
  BY <1>3, InvParts, RemoveUnitKeeps DEF RemovedElsewhere
<1>4. QED
  BY <1>1, <1>2, <1>3

LEMMA WarningReadKeeps == ASSUME DesktopInv, WarningRead PROVE DesktopInv'
<1> DEFINE o == win.dialog.object
<1>1. /\ o \in Alive(units) /\ win' = Select(DialogGone, units, defaults, RowOf(units, o))
      /\ UNCHANGED <<tab, units, defaults>>
  BY DEF WarningRead
<1> HIDE DEF o
<1>2. RowOf(units, o) \in DOMAIN units
  <2>1. PICK r \in 1 .. Len(units) : units[r].object = o
    BY <1>1, InvParts, AliveRow
  <2>2. RowOf(units, o) = r /\ DOMAIN units = 1 .. Len(units)
    BY <2>1, InvParts, UnitFound, UnitParts
  <2>3. QED
    BY <2>2
<1>3. QED
  BY <1>1, <1>2, GoneGood, SelectKeeps

\* The questions.
LEMMA QuestionsKeep ==
  ASSUME DesktopInv,
         AskRemove \/ ConfirmRemove \/ MenuRemove \/ Dismiss \/ AskScope
         \/ (tab = "identity" /\ \E line \in DOMAIN win.page.scopes : AskEdit(line))
  PROVE  DesktopInv'
<1>1. CASE AskRemove
  <2> DEFINE d == [kind |-> "remove", id |-> units[win.at].id]
  <2>1. win.at \in DOMAIN units
    BY <1>1, InvParts DEF AskRemove, ListFits
  <2>2. units[win.at].id \in Range(CameraIds)
    BY <2>1, InvParts, UnitParts, UnitFields
  <2>3. d \in Dialogs /\ d.kind = "remove"
    BY <2>2 DEF Dialogs
  <2>4. Opened(d)
    BY <1>1 DEF AskRemove
  <2> HIDE DEF d
  <2>5. QED
    BY <2>3, <2>4, OpenedKeeps
<1>2. CASE ConfirmRemove
  <2>1. PICK row \in DOMAIN units : RemoveUnit(DialogGone, row)
    BY <1>2 DEF ConfirmRemove
  <2>2. QED
    BY <2>1, GoneGood, RemoveUnitKeeps
<1>3. CASE MenuRemove
  <2> DEFINE u == UnitOf(units, win.dialog.object)
             d == [kind |-> "remove", id |-> u.id]
  <2>1. win.dialog.object \in Alive(units) /\ Opened(d)
    BY <1>3 DEF MenuRemove, PointerKept
  <2>2. u \in Units
    BY <2>1, InvParts, AliveRow, UnitFound, UnitParts
  <2> HIDE DEF u
  <2>3. u.id \in Range(CameraIds)
    BY <2>2, UnitFields
  <2>4. d \in Dialogs /\ d.kind = "remove"
    BY <2>3 DEF Dialogs
  <2> HIDE DEF d
  <2>5. QED
    BY <2>1, <2>4, OpenedKeeps
<1>4. CASE Dismiss
  <2>1. Opened(NoDialog)
    BY <1>4 DEF Dismiss
  <2>2. NoDialog.kind \in {"add", "edit"} => tab = "identity"
    BY NoDialogFits
  <2>3. QED
    BY <2>1, <2>2, NoDialogFits, OpenedKeeps
<1>5. CASE AskScope
  <2> DEFINE d == [kind |-> "add"]
  <2>1. tab = "identity" /\ Opened(d)
    BY <1>5 DEF AskScope, FormFree, OnIdentity
  <2>2. d \in Dialogs
    BY DEF Dialogs
  <2> HIDE DEF d
  <2>3. QED
    BY <2>1, <2>2, OpenedKeeps
<1>6. ASSUME tab = "identity", NEW line \in DOMAIN win.page.scopes, AskEdit(line) PROVE DesktopInv'
  <2> DEFINE d == [kind |-> "edit", line |-> line]
  <2>1. Opened(d)
    BY <1>6 DEF AskEdit
  <2>2. win.page.scopes \in Seq(Writings)
    BY <1>6, InvParts, WindowParts DEF PageOk, Forms
  <2>3. line \in Nat
    BY <2>2
  <2>4. d \in Dialogs
    BY <2>3 DEF Dialogs
  <2> HIDE DEF d
  <2>5. QED
    BY <1>6, <2>1, <2>4, OpenedKeeps
<1>7. QED
  BY <1>1, <1>2, <1>3, <1>4, <1>5, <1>6

-----------------------------------------------------------------------------
\* What may be written into a camera's model.
LEMMA Refielded ==
  ASSUME NEW u \in Units, NEW text \in Writings
  PROVE  LET v == [u EXCEPT !.fields = text]
         IN v \in Units /\ v.id = u.id /\ v.object = u.object /\ v.quirks = u.quirks
BY DEF Units

LEMMA Renamed ==
  ASSUME NEW u \in Units, NEW names \in Seq(Writings)
  PROVE  LET v == [u EXCEPT !.names = names]
         IN v \in Units /\ v.id = u.id /\ v.object = u.object /\ v.quirks = u.quirks
BY DEF Units

LEMMA AliveUnit ==
  ASSUME DesktopInv, NEW o \in Alive(units)
  PROVE  UnitOf(units, o) \in Units /\ UnitOf(units, o).object = o
<1>1. PICK r \in 1 .. Len(units) : units[r].object = o
  BY InvParts, AliveRow
<1>2. UnitOf(units, o) = units[r] /\ units[r] \in Units
  BY <1>1, InvParts, UnitFound, UnitParts
<1>3. QED
  BY <1>1, <1>2

LEMMA CurrentUnit ==
  ASSUME DesktopInv, win.shown # 0
  PROVE  win.shown \in Alive(units) /\ Current \in Units /\ Current.object = win.shown
<1>1. win.shown \in Alive(units)
  BY InvParts, ShownThere DEF Shown
<1>2. QED
  BY <1>1, AliveUnit DEF Current

LEMMA FieldsChange ==
  ASSUME DesktopInv, NEW w, Good(units, defaults, w), NEW o \in Alive(units), NEW text \in Writings,
         ChangeUnit(w, o, [UnitOf(units, o) EXCEPT !.fields = text])
  PROVE  DesktopInv'
<1> DEFINE u == UnitOf(units, o)  v == [u EXCEPT !.fields = text]
<1>1. u \in Units /\ u.object = o
  BY AliveUnit
<1>2. ChangeUnit(w, o, v)
  OBVIOUS
<1>3. v \in Units /\ v.id = u.id /\ v.object = u.object /\ v.quirks = u.quirks
  <2> HIDE DEF u
  <2>1. QED
    BY <1>1, Refielded
<1> HIDE DEF v
<1>4. QED
  BY <1>1, <1>2, <1>3, ChangeUnitKeeps

LEMMA NamesChange ==
  ASSUME DesktopInv, NEW w, Good(units, defaults, w), NEW o \in Alive(units),
         NEW names \in Seq(Writings), ChangeUnit(w, o, [UnitOf(units, o) EXCEPT !.names = names])
  PROVE  DesktopInv'
<1> DEFINE u == UnitOf(units, o)  v == [u EXCEPT !.names = names]
<1>1. u \in Units /\ u.object = o
  BY AliveUnit
<1>2. ChangeUnit(w, o, v)
  OBVIOUS
<1>3. v \in Units /\ v.id = u.id /\ v.object = u.object /\ v.quirks = u.quirks
  <2> HIDE DEF u
  <2>1. QED
    BY <1>1, Renamed
<1> HIDE DEF v
<1>4. QED
  BY <1>1, <1>2, <1>3, ChangeUnitKeeps

\* Lists of words that grow, shrink or change in a place.
LEMMA WordLists ==
  ASSUME NEW s \in Seq(Writings)
  PROVE  /\ \A x \in Writings : Append(s, x) \in Seq(Writings)
         /\ s # <<>> => Tail(s) \in Seq(Writings)
         /\ \A i \in DOMAIN s : RemoveAt(s, i) \in Seq(Writings)
         /\ \A i, x : x \in Writings => [s EXCEPT ![i] = x] \in Seq(Writings)
         /\ DOMAIN s = 1 .. Len(s) /\ Len(s) \in Nat
<1>1. DOMAIN s = 1 .. Len(s) /\ Len(s) \in Nat
  OBVIOUS
<1>2. \A i \in DOMAIN s : RemoveAt(s, i) \in Seq(Writings)
  BY <1>1, ListWithout
<1>3. ASSUME NEW i, NEW x \in Writings PROVE [s EXCEPT ![i] = x] \in Seq(Writings)
  <2>1. CASE i \in DOMAIN s
    BY <2>1
  <2>2. CASE i \notin DOMAIN s
    <3>1. s = [k \in DOMAIN s |-> s[k]]
      OBVIOUS
    <3>2. [s EXCEPT ![i] = x] = [k \in DOMAIN s |-> s[k]]
      BY <2>2
    <3>3. QED
      BY <3>1, <3>2
  <2>3. QED
    BY <2>1, <2>2
<1>4. QED
  BY <1>1, <1>2, <1>3

\* Changes of a model that everybody in the window hears of.
LEMMA ModelsKeep ==
  ASSUME DesktopInv,
         \/ \E text \in Texts : MenuRename(text) \/ ApplyPersona(text)
         \/ ApplyEditor \/ AddProfile \/ RemoveProfile
         \/ \E object \in Alive(units) : ChangedElsewhere(object)
  PROVE  DesktopInv'
<1>1. ASSUME NEW text \in Texts, MenuRename(text) PROVE DesktopInv'
  <2>1. text \in Writings /\ win.dialog.object \in Alive(units)
    BY <1>1 DEF MenuRename, PointerKept, Writings
  <2>2. QED
    BY <1>1, <2>1, GoneGood, FieldsChange DEF MenuRename
<1>2. ASSUME NEW text \in Texts, ApplyPersona(text) PROVE DesktopInv'
  <2>1. text \in Writings /\ win.shown \in Alive(units)
    BY <1>2, CurrentUnit DEF ApplyPersona, FormFree, OnIdentity, Writings
  <2>2. QED
    BY <1>2, <2>1, InvParts, FieldsChange DEF ApplyPersona, Current
<1>3. CASE ApplyEditor
  <2> DEFINE n == [Current.names EXCEPT ![win.page.line] = win.page.text]
  <2>1. win.shown # 0 /\ tab = "streams"
    BY <1>3 DEF ApplyEditor, OnStreamTab
  <2>2. Current \in Units /\ win.shown \in Alive(units)
    BY <2>1, CurrentUnit
  <2>3. win.page.text \in Writings
    BY <2>1, InvParts, WindowParts DEF PageOk, Editors
  <2>4. Current.names \in Seq(Writings)
    BY <2>2, UnitFields
  <2>5. n \in Seq(Writings)
    BY <2>3, <2>4, WordLists
  <2>6. ChangeUnit(win, win.shown, [UnitOf(units, win.shown) EXCEPT !.names = n])
    BY <1>3 DEF ApplyEditor, Current
  <2> HIDE DEF n
  <2>7. QED
    BY <2>2, <2>5, <2>6, InvParts, NamesChange
<1>4. CASE AddProfile
  <2> DEFINE n == Append(Current.names, "made")
  <2>1. Current \in Units /\ win.shown \in Alive(units)
    BY <1>4, CurrentUnit DEF AddProfile, OnStreamTab
  <2>2. n \in Seq(Writings)
    BY <2>1, UnitFields, WordLists DEF Writings
  <2>3. ChangeUnit(win, win.shown, [UnitOf(units, win.shown) EXCEPT !.names = n])
    BY <1>4 DEF AddProfile, Current
  <2> HIDE DEF n
  <2>4. QED
    BY <2>1, <2>2, <2>3, InvParts, NamesChange
<1>5. CASE RemoveProfile
  <2> DEFINE n == RemoveAt(Current.names, win.page.line)
  <2>1. win.shown # 0 /\ tab = "streams" /\ win.page.line # 0
    BY <1>5 DEF RemoveProfile, OnStreamTab
  <2>2. Current \in Units /\ win.shown \in Alive(units)
    BY <2>1, CurrentUnit
  <2>3. Current.names \in Seq(Writings)
    BY <2>2, UnitFields
  <2>4. win.page.line \in DOMAIN Current.names
    <3>1. win.page.lines = Len(Current.names) /\ win.page.line \in 0 .. win.page.lines
      BY <2>1, InvParts DEF PageTrue, EditorTrue, Current
    <3>2. QED
      BY <2>1, <2>3, <3>1
  <2>5. n \in Seq(Writings)
    BY <2>3, <2>4, WordLists
  <2>6. ChangeUnit(win, win.shown, [UnitOf(units, win.shown) EXCEPT !.names = n])
    BY <1>5 DEF RemoveProfile, Current
  <2> HIDE DEF n
  <2>7. QED
    BY <2>2, <2>5, <2>6, InvParts, NamesChange
<1>6. ASSUME NEW o \in Alive(units), ChangedElsewhere(o) PROVE DesktopInv'
  <2> DEFINE s == UnitOf(units, o).names
  <2>1. s \in Seq(Writings)
    BY AliveUnit, UnitFields
  <2>2. CASE \E text \in Texts : ChangeUnit(win, o, [UnitOf(units, o) EXCEPT !.fields = text])
    <3>1. PICK text \in Texts : ChangeUnit(win, o, [UnitOf(units, o) EXCEPT !.fields = text])
      BY <2>2
    <3>2. text \in Writings
      BY DEF Writings
    <3>3. QED
      BY <3>1, <3>2, InvParts, FieldsChange
  <2>3. CASE ChangeUnit(win, o, [UnitOf(units, o) EXCEPT !.names = Append(s, "made")])
    <3> DEFINE n == Append(s, "made")
    <3>1. n \in Seq(Writings)
      BY <2>1, WordLists DEF Writings
    <3>2. ChangeUnit(win, o, [UnitOf(units, o) EXCEPT !.names = n])
      BY <2>3
    <3> HIDE DEF n
    <3>3. QED
      BY <3>1, <3>2, InvParts, NamesChange
  <2>4. CASE s # <<>> /\ ChangeUnit(win, o, [UnitOf(units, o) EXCEPT !.names = Tail(s)])
    <3> DEFINE n == Tail(s)
    <3>1. n \in Seq(Writings)
      BY <2>1, <2>4, WordLists
    <3>2. ChangeUnit(win, o, [UnitOf(units, o) EXCEPT !.names = n])
      BY <2>4
    <3> HIDE DEF n
    <3>3. QED
      BY <3>1, <3>2, InvParts, NamesChange
  <2>5. QED
    BY <1>6, <2>2, <2>3, <2>4 DEF ChangedElsewhere
<1>7. QED
  BY <1>1, <1>2, <1>3, <1>4, <1>5, <1>6

-----------------------------------------------------------------------------
\* applyToModel(): what the form has is what the camera gets.
LEMMA FormApplied ==
  ASSUME DesktopInv, tab = "identity", NEW w, Good(units, defaults, w), w.shown = win.shown,
         NEW page \in Forms, Apply(w, page)
  PROVE  DesktopInv'
<1> DEFINE p == [page EXCEPT !.typed = FALSE]
           m == w.missed /\ w.shown = 0
           u == [Current EXCEPT !.fields = page.fields, !.scopes = page.scopes]
           v == [w EXCEPT !.page = p, !.missed = m]
<1>1. /\ win' = v /\ tab' = tab /\ defaults' = defaults
      /\ units' = IF w.shown = 0 THEN units ELSE [units EXCEPT ![RowOf(units, w.shown)] = u]
  BY DEF Apply
<1>2. p \in Forms /\ p.fields = page.fields /\ p.scopes = page.scopes /\ p.typed = FALSE
  BY DEF Forms
<1>3. PageOk(p)
  BY <1>2 DEF PageOk, Pages
<1>4. WindowOk(w) /\ ListFits(units, w) /\ PageTrue(units, defaults, w)
  BY DEF Good
<1>5. m \in BOOLEAN /\ (w.shown # 0 => ~m)
  OBVIOUS
<1> HIDE DEF p, m
<1>6. v = Paged(w, m, p, w.dialog)
  BY <1>4, WindowParts DEF Windows, Paged
<1> HIDE DEF v, u
<1>7. ASSUME NEW us, ListFits(us, w),
             w.shown # 0 => UnitOf(us, w.shown).scopes = p.scopes /\ UnitOf(us, w.shown).fields = p.fields
      PROVE  Good(us, defaults, v)
  <2>1. /\ WindowOk(v) /\ ListFits(us, v) /\ v.shown = w.shown /\ v.page = p /\ v.missed = m
    <3>1. PageParts(m, p, w.dialog)
      BY <1>3, <1>4, <1>5, <1>6, <1>7, WindowParts DEF PageParts
    <3>2. QED
      BY <1>3, <1>4, <1>5, <1>6, <1>7, <3>1, Repaged
  <2>2. PageTrue(us, defaults, v)
    BY <1>5, <1>7, <2>1 DEF PageTrue, FormTrue, EditorTrue, RowsTrue
  <2>3. QED
    BY <2>1, <2>2 DEF Good
<1>8. CASE w.shown = 0
  <2>1. Good(units, defaults, v)
    BY <1>4, <1>7, <1>8
  <2>2. QED
    BY <1>1, <1>8, <2>1, InvParts, InvNext
<1>9. CASE w.shown # 0
  <2>1. PICK r \in 1 .. Len(units) : w.shown = units[r].object /\ UnitOf(units, w.shown) = units[r]
    BY <1>4, <1>9, InvParts, ShownThere
  <2>2. RowOf(units, w.shown) = r /\ Current = units[r] /\ units[r] \in Units
    BY <2>1, InvParts, UnitFound, UnitParts DEF Current
  <2>3. /\ u \in Units /\ u.id = units[r].id /\ u.object = units[r].object
        /\ u.fields = page.fields /\ u.scopes = page.scopes
    <3>1. page.fields \in Writings /\ page.scopes \in Seq(Writings)
      BY DEF Forms
    <3>2. QED
      BY <2>2, <3>1 DEF Units, u
  <2> DEFINE q == Changed(units, r, u)
  <2>4. units' = q
    BY <1>1, <1>9, <2>2 DEF Changed
  <2>5. UnitsOk(q) /\ Alike(units, q) /\ q[r] = u
    BY <2>3, InvParts, ChangedUnits
  <2> HIDE DEF q
  <2>6. Alike(units, q)
    BY <2>5
  <2>7. UnitOf(q, w.shown) = u
    BY <2>1, <2>5, <2>6, InvParts, UnitAlike
  <2>8. ListFits(q, w)
    BY <1>4, <2>5, <2>6, InvParts, FitsAlike
  <2>9. Good(q, defaults, v)
    BY <1>2, <1>7, <2>3, <2>7, <2>8
  <2>10. QED
    BY <1>1, <2>4, <2>5, <2>9, InvParts, InvNext
<1>10. QED
  BY <1>8, <1>9

LEMMA Rescoped ==
  ASSUME NEW page \in Forms, NEW scopes \in Seq(Writings)
  PROVE  [page EXCEPT !.scopes = scopes] \in Forms
BY DEF Forms

\* The identity form writes to the camera that is shown.
LEMMA FormsKeep ==
  ASSUME DesktopInv,
         \/ FinishTyping \/ AddUser
         \/ \E text \in Texts : AddScope(text) \/ EditScope(text)
         \/ tab = "identity" /\ \E line \in DOMAIN win.page.scopes : RemoveLine(line)
         \/ win.dialog.kind = "edit" /\ Apply(DialogGone, win.page)
  PROVE  DesktopInv'
<1> DEFINE s == win.page.scopes
<1>1. tab = "identity"
  BY InvParts, WindowParts DEF FinishTyping, AddUser, FormFree, OnIdentity, AddScope, EditScope
<1>2. win.page \in Forms /\ s \in Seq(Writings)
  BY <1>1, InvParts, WindowParts DEF PageOk, Forms
<1>3. Good(units, defaults, DialogGone) /\ DialogGone.shown = win.shown
  BY GoneGood
<1>4. ASSUME NEW w, w = win \/ w = DialogGone, NEW scopes \in Seq(Writings),
             Apply(w, [win.page EXCEPT !.scopes = scopes])
      PROVE  DesktopInv'
  <2> DEFINE p == [win.page EXCEPT !.scopes = scopes]
  <2>1. p \in Forms
    BY <1>2, Rescoped
  <2>2. Good(units, defaults, w) /\ w.shown = win.shown
    BY <1>3, <1>4, InvParts
  <2>3. Apply(w, p)
    BY <1>4
  <2> HIDE DEF p
  <2>4. QED
    BY <1>1, <2>1, <2>2, <2>3, FormApplied
<1>5. CASE FinishTyping
  <2>1. Apply(win, win.page)
    BY <1>5 DEF FinishTyping
  <2>2. QED
    BY <1>1, <1>2, <2>1, InvParts, FormApplied
<1>6. CASE AddUser
  <2> DEFINE n == Append(s, "made")
  <2>1. Apply(win, [win.page EXCEPT !.scopes = n])
    BY <1>6 DEF AddUser
  <2>2. n \in Seq(Writings)
    BY <1>2, WordLists DEF Writings
  <2> HIDE DEF n
  <2>3. QED
    BY <1>4, <2>1, <2>2
<1>7. ASSUME NEW text \in Texts, AddScope(text) PROVE DesktopInv'
  <2> DEFINE n == Append(s, text)
  <2>1. Apply(DialogGone, [win.page EXCEPT !.scopes = n])
    BY <1>7 DEF AddScope
  <2>2. n \in Seq(Writings)
    BY <1>2, WordLists DEF Writings
  <2> HIDE DEF n
  <2>3. QED
    BY <1>4, <2>1, <2>2
<1>8. ASSUME NEW text \in Texts, EditScope(text) PROVE DesktopInv'
  <2> DEFINE n == [s EXCEPT ![win.dialog.line] = text]
  <2>1. Apply(DialogGone, [win.page EXCEPT !.scopes = n])
    BY <1>8 DEF EditScope
  <2>2. n \in Seq(Writings)
    BY <1>2, WordLists DEF Writings
  <2> HIDE DEF n
  <2>3. QED
    BY <1>4, <2>1, <2>2
<1>9. ASSUME NEW line \in DOMAIN s, RemoveLine(line) PROVE DesktopInv'
  <2> DEFINE n == RemoveAt(s, line)
  <2>1. Apply(win, [win.page EXCEPT !.scopes = n])
    BY <1>9 DEF RemoveLine
  <2>2. n \in Seq(Writings)
    BY <1>2, WordLists
  <2> HIDE DEF n
  <2>3. QED
    BY <1>4, <2>1, <2>2
<1>10. CASE Apply(DialogGone, win.page)
  BY <1>1, <1>2, <1>3, <1>10, FormApplied
<1>11. QED
  BY <1>5, <1>6, <1>7, <1>8, <1>9, <1>10

-----------------------------------------------------------------------------
\* Another page of the window is true as soon as the page itself is.
LEMMA PageChange ==
  ASSUME DesktopInv, NEW p, PageOk(p), NEW m \in BOOLEAN, UNCHANGED <<tab, units, defaults>>,
         win' = [win EXCEPT !.missed = m, !.page = p],
         \A v : v.page = p /\ v.missed = m /\ v.shown = win.shown => PageTrue(units, defaults, v)
  PROVE  DesktopInv'
<1> DEFINE v == Paged(win, m, p, win.dialog)
<1>1. win' = v
  BY InvParts, WindowParts DEF Windows, Paged
<1>2. v = Paged(win, m, p, win.dialog)
  OBVIOUS
<1> HIDE DEF v
<1>3. WindowOk(v) /\ ListFits(units, v) /\ v.shown = win.shown /\ v.page = p /\ v.missed = m
  <2>1. PageParts(m, p, win.dialog)
    BY <1>2, InvParts, WindowParts DEF PageParts
  <2>2. QED
    BY <1>2, InvParts, <2>1, Repaged
<1>4. Good(units, defaults, v)
  BY <1>3 DEF Good
<1>5. QED
  BY <1>1, <1>4, WindowOnly

\* The user types, or picks a line or a target.
LEMMA TypeKeeps == ASSUME DesktopInv, NEW text \in Texts, Type(text) PROVE DesktopInv'
<1> DEFINE p == [win.page EXCEPT !.fields = text, !.typed = TRUE]
<1>1. tab = "identity" /\ UNCHANGED <<tab, units, defaults>>
      /\ win' = [win EXCEPT !.page.fields = text, !.page.typed = TRUE]
  BY DEF Type, OnIdentity
<1>2. win.page \in Forms /\ win \in Windows
  BY <1>1, InvParts, WindowParts DEF PageOk
<1>3. text \in Writings
  BY DEF Writings
<1>4. p \in Forms /\ p.scopes = win.page.scopes /\ p.typed = TRUE
  BY <1>2, <1>3 DEF Forms
<1>5. win' = [win EXCEPT !.missed = win.missed, !.page = p]
  BY <1>1, <1>2 DEF Windows
<1> HIDE DEF p
<1>6. PageOk(p)
  BY <1>1, <1>4 DEF PageOk, Pages
<1>7. \A v : v.page = p /\ v.missed = win.missed /\ v.shown = win.shown => PageTrue(units, defaults, v)
  BY <1>1, <1>4, InvParts DEF PageTrue, FormTrue, EditorTrue, RowsTrue
<1>8. win.missed \in BOOLEAN
  BY InvParts, WindowParts
<1>9. QED
  BY <1>1, <1>5, <1>6, <1>7, <1>8, PageChange

LEMMA TypeNameKeeps == ASSUME DesktopInv, NEW text \in Texts, TypeName(text) PROVE DesktopInv'
<1> DEFINE p == [win.page EXCEPT !.text = text, !.typed = TRUE]
<1>1. tab = "streams" /\ UNCHANGED <<tab, units, defaults>> /\ win' = [win EXCEPT !.page = p]
  BY DEF TypeName, OnStreamTab, EditorShows
<1>2. win.page \in Editors /\ win \in Windows
  BY <1>1, InvParts, WindowParts DEF PageOk
<1>3. text \in Writings
  BY DEF Writings
<1>4. p \in Editors /\ p.line = win.page.line /\ p.lines = win.page.lines /\ p.typed = TRUE
  BY <1>2, <1>3 DEF Editors
<1> HIDE DEF p
<1>5. win' = [win EXCEPT !.missed = win.missed, !.page = p]
  BY <1>1, <1>2 DEF Windows
<1>6. PageOk(p)
  BY <1>1, <1>4 DEF PageOk, Pages
<1>7. \A v : v.page = p /\ v.missed = win.missed /\ v.shown = win.shown => PageTrue(units, defaults, v)
  BY <1>1, <1>4, InvParts DEF PageTrue, FormTrue, EditorTrue, RowsTrue
<1>8. win.missed \in BOOLEAN
  BY InvParts, WindowParts
<1>9. QED
  BY <1>1, <1>5, <1>6, <1>7, <1>8, PageChange

LEMMA PickLineKeeps ==
  ASSUME DesktopInv, NEW line \in 1 .. win.page.lines, tab = "streams", PickLine(line)
  PROVE  DesktopInv'
<1> DEFINE p == Edited(units, win.shown, line)
<1>1. win.shown # 0 /\ UNCHANGED <<tab, units, defaults>> /\ win' = [win EXCEPT !.page = p]
  BY DEF PickLine, OnStreamTab, EditorShows
<1>2. win.page.lines = Len(UnitOf(units, win.shown).names) /\ win.page.lines \in Nat
  BY <1>1, InvParts, WindowParts DEF PageTrue, EditorTrue, Current, PageOk, Editors
<1>3. line \in 0 .. Len(UnitOf(units, win.shown).names) /\ line # 0
  BY <1>2
<1>4. Shown(units, win.shown)
  BY InvParts, ShownThere
<1>5. /\ p \in Editors /\ p.line = line /\ ~p.typed
      /\ p.lines = Len(UnitOf(units, win.shown).names)
      /\ p.text = UnitOf(units, win.shown).names[line]
  <2> HIDE DEF p
  <2>1. p = Edited(units, win.shown, line)
    BY DEF p
  <2>2. QED
    BY <1>1, <1>3, <1>4, <2>1, InvParts, EditedRight
<1> HIDE DEF p
<1>6. win' = [win EXCEPT !.missed = win.missed, !.page = p]
  BY <1>1, InvParts, WindowParts DEF Windows
<1>7. PageOk(p)
  BY <1>5 DEF PageOk, Pages
<1>8. \A v : v.page = p /\ v.missed = win.missed /\ v.shown = win.shown => PageTrue(units, defaults, v)
  BY <1>3, <1>5 DEF PageTrue, FormTrue, EditorTrue, RowsTrue
<1>9. win.missed \in BOOLEAN
  BY InvParts, WindowParts
<1>10. QED
  BY <1>1, <1>6, <1>7, <1>8, <1>9, PageChange

LEMMA PickTargetKeeps ==
  ASSUME DesktopInv, NEW target \in {"camera", "global"}, PickTarget(target)
  PROVE  DesktopInv'
<1> DEFINE c == [win.page EXCEPT !.target = target]
           p == ReadQuirks(c, units, defaults, win.shown)
<1>1. tab = "quirks" /\ UNCHANGED <<tab, units, defaults>>
      /\ win' = [win EXCEPT !.page = p, !.missed = FALSE]
  BY DEF PickTarget
<1>2. win.page \in Switches /\ win \in Windows
  BY <1>1, InvParts, WindowParts DEF PageOk
<1>3. c \in Switches
  BY <1>2 DEF Switches
<1>4. PageOk(c) /\ Shown(units, win.shown)
  <2> HIDE DEF c
  <2>1. QED
    BY <1>1, <1>3, InvParts, ShownThere DEF PageOk, Pages
<1> HIDE DEF c
<1>5. p = Reads(c, units, defaults, win.shown)
  BY <1>1 DEF Reads
<1> HIDE DEF p
<1>6. PageOk(p) /\ ReadRight(units, defaults, win.shown, p)
  BY <1>4, <1>5, InvParts, ReadsRight
<1>7. \A v : v.page = p /\ v.missed = FALSE /\ v.shown = win.shown => PageTrue(units, defaults, v)
  BY <1>1, <1>6 DEF PageTrue, FormTrue, EditorTrue, RowsTrue, ReadRight
<1>8. win' = [win EXCEPT !.missed = FALSE, !.page = p]
  BY <1>1, <1>2 DEF Windows
<1>9. FALSE \in BOOLEAN
  OBVIOUS
<1>10. QED
  BY <1>1, <1>6, <1>7, <1>8, <1>9, PageChange

-----------------------------------------------------------------------------
\* A switch more or less.
LEMMA SwitchWritten ==
  ASSUME NEW table \in QuirkTables, NEW q \in QuirkLines
  PROVE  /\ [table EXCEPT ![q] = "on"] \in QuirkTables
         /\ [table EXCEPT ![q] = "off"] \in QuirkTables
         /\ SwitchedOn([table EXCEPT ![q] = "on"]) = SwitchedOn(table) \cup {q}
         /\ SwitchedOn([table EXCEPT ![q] = "off"]) = SwitchedOn(table) \ {q}
BY DEF QuirkTables, SwitchedOn

\* What the switches are of, and that the row the user wrote is in it.
LEMMA TargetTable ==
  ASSUME DesktopInv
  PROVE  TargetQuirks(win.page, units, defaults, win.shown) \in QuirkTables
<1>1. Shown(units, win.shown)
  BY InvParts, ShownThere
<1>2. win.shown # 0 => UnitOf(units, win.shown).quirks \in QuirkTables
  BY <1>1, InvParts, ShownUnit, UnitFields
<1>3. QED
  BY <1>2, InvParts, UntouchedTable DEF TargetQuirks

\* A table is given to what the quirk tab shows, and the switches are set as the tab
\* sets them.
LEMMA TargetKeeps ==
  ASSUME DesktopInv, OnQuirkTab, NEW table \in QuirkTables, SetTarget(table), tab' = tab,
         NEW on \in SUBSET QuirkLines, NEW m \in BOOLEAN, ~m => on = SwitchedOn(table),
         win' = [win EXCEPT !.missed = m, !.page = [win.page EXCEPT !.on = on]]
  PROVE  DesktopInv'
<1> DEFINE p == [win.page EXCEPT !.on = on]
           v == Paged(win, m, p, win.dialog)
<1>1. tab = "quirks" /\ (win.page.target = "global" \/ win.shown # 0)
  BY DEF OnQuirkTab
<1>2. win.page \in Switches /\ win \in Windows
  BY <1>1, InvParts, WindowParts DEF PageOk
<1>3. p \in Switches /\ p.target = win.page.target /\ p.on = on
  BY <1>2 DEF Switches
<1>4. win' = v
  BY <1>2 DEF Windows, Paged
<1>5. v = Paged(win, m, p, win.dialog)
  OBVIOUS
<1> HIDE DEF v, p
<1>6. PageOk(p)
  BY <1>1, <1>3 DEF PageOk, Pages
<1>7. ASSUME NEW us, NEW defs, ListFits(us, win), TargetQuirks(p, us, defs, win.shown) = table
      PROVE  Good(us, defs, v)
  <2>1. WindowOk(v) /\ ListFits(us, v) /\ v.shown = win.shown /\ v.page = p /\ v.missed = m
    <3>1. PageParts(m, p, win.dialog)
      BY <1>5, <1>6, <1>7, InvParts, WindowParts DEF PageParts
    <3>2. QED
      BY <1>5, <1>6, <1>7, InvParts, <3>1, Repaged
  <2>2. PageTrue(us, defs, v)
    BY <1>1, <1>3, <1>7, <2>1 DEF PageTrue, FormTrue, EditorTrue, RowsTrue
  <2>3. QED
    BY <2>1, <2>2 DEF Good
<1>8. CASE win.page.target = "global"
  <2>1. defaults' = table /\ units' = units
    BY <1>8 DEF SetTarget
  <2>2. TargetQuirks(p, units, table, win.shown) = table
    BY <1>3, <1>8 DEF TargetQuirks
  <2>3. Good(units, table, v)
    BY <1>7, <2>2, InvParts
  <2>4. QED
    BY <1>4, <2>1, <2>3, InvParts, InvNext
<1>9. CASE win.page.target # "global"
  <2> DEFINE q == QuirksSet(units, win.shown, table)
  <2>1. units' = q /\ defaults' = defaults
    BY <1>9 DEF SetTarget
  <2>2. PICK r \in 1 .. Len(units) : win.shown = units[r].object /\ UnitOf(units, win.shown) = units[r]
    BY <1>1, <1>9, InvParts, ShownThere
  <2>3. UnitsOk(q) /\ Alike(units, q) /\ q[r] = Requirked(units[r], table)
    BY <2>2, InvParts, QuirksAlike
  <2> HIDE DEF q
  <2>4. ListFits(q, win)
    BY <2>3, InvParts, FitsAlike
  <2>5. UnitOf(q, win.shown).quirks = table
    <3>1. units[r] \in Units
      BY InvParts, UnitParts
    <3>2. Requirked(units[r], table).quirks = table
      BY <3>1, RequirkedUnit
    <3>3. UnitOf(q, win.shown) = q[r]
      BY <2>2, <2>3, InvParts, UnitAlike
    <3>4. QED
      BY <2>3, <3>2, <3>3
  <2>6. TargetQuirks(p, q, defaults, win.shown) = table
    BY <1>1, <1>3, <1>9, <2>5 DEF TargetQuirks
  <2>7. Good(q, defaults, v)
    BY <1>7, <2>4, <2>6
  <2>8. QED
    BY <1>4, <2>1, <2>3, <2>7, InvParts, InvNext
<1>10. QED
  BY <1>8, <1>9

LEMMA SwitchesKeep ==
  ASSUME DesktopInv, ClearAll \/ \E q \in QuirkLines : WriteRow(q)
  PROVE  DesktopInv'
<1>1. CASE ClearAll
  <2>1. /\ OnQuirkTab /\ SetTarget(Untouched) /\ tab' = tab
        /\ win' = [win EXCEPT !.page.on = {}, !.missed = FALSE]
    BY <1>1 DEF ClearAll
  <2>2. win' = [win EXCEPT !.missed = FALSE, !.page = [win.page EXCEPT !.on = {}]]
    BY <2>1, InvParts, WindowParts DEF Windows
  <2>3. FALSE \in BOOLEAN /\ {} \in SUBSET QuirkLines
    OBVIOUS
  <2>4. QED
    BY <2>1, <2>2, <2>3, UntouchedTable, TargetKeeps
<1>2. ASSUME NEW q \in QuirkLines, WriteRow(q) PROVE DesktopInv'
  <2> DEFINE old == TargetQuirks(win.page, units, defaults, win.shown)
             more == q \notin win.page.on
             table == [old EXCEPT ![q] = IF more THEN "on" ELSE "off"]
             on == IF more THEN win.page.on \cup {q} ELSE win.page.on \ {q}
  <2>1. OnQuirkTab /\ SetTarget(table) /\ tab' = tab /\ win' = [win EXCEPT !.page.on = on]
    BY <1>2 DEF WriteRow
  <2>2. old \in QuirkTables
    BY TargetTable
  <2>3. /\ tab = "quirks" /\ win.page \in Switches /\ win \in Windows
    BY <2>1, InvParts, WindowParts DEF OnQuirkTab, PageOk
  <2>4. ~win.missed => win.page.on = SwitchedOn(old)
    BY <2>3, InvParts DEF PageTrue, RowsTrue
  <2> HIDE DEF old
  <2>5. table \in QuirkTables /\ (~win.missed => on = SwitchedOn(table))
    BY <2>2, <2>4, SwitchWritten
  <2>6. on \in SUBSET QuirkLines
    BY <2>3 DEF Switches
  <2> HIDE DEF table, on
  <2>7. win' = [win EXCEPT !.missed = win.missed, !.page = [win.page EXCEPT !.on = on]]
    BY <2>1, <2>3 DEF Windows
  <2>8. win.missed \in BOOLEAN
    BY InvParts, WindowParts
  <2>9. QED
    BY <2>1, <2>5, <2>6, <2>7, <2>8, TargetKeeps
<1>3. QED
  BY <1>1, <1>2

\* applyGlobalQuirksToAll(): every camera keeps its id and its object.
LEMMA ApplyGlobalKeeps == ASSUME DesktopInv, ApplyGlobal PROVE DesktopInv'
<1> DEFINE t(r) == Overlaid(units[r].quirks, defaults)
           q == [r \in DOMAIN units |-> Requirked(units[r], t(r))]
           n == Len(units)
           p == [win.page EXCEPT !.on = SwitchedOn(defaults)]
           no == FALSE
           v == Paged(win, no, p, win.dialog)
<1>1. /\ tab = "quirks" /\ win.page.target = "global" /\ tab' = tab /\ defaults' = defaults
      /\ units' = q /\ win' = [win EXCEPT !.page.on = SwitchedOn(defaults), !.missed = FALSE]
  BY DEF ApplyGlobal, OnQuirkTab
<1>2. n \in Nat /\ DOMAIN units = 1 .. n /\ \A r \in 1 .. n : units[r] \in Units
  BY InvParts, UnitParts
<1>3. \A r \in 1 .. n : /\ Requirked(units[r], t(r)) \in Units
                        /\ Requirked(units[r], t(r)).id = units[r].id
                        /\ Requirked(units[r], t(r)).object = units[r].object
  <2>1. TAKE r \in 1 .. n
  <2>2. t(r) \in QuirkTables
    BY <1>2, InvParts, UnitFields, OverlaidTable
  <2> HIDE DEF t
  <2>3. QED
    BY <1>2, <2>2, RequirkedUnit
<1>4. q \in Seq(Units) /\ Len(q) = n /\ \A r \in 1 .. n : q[r] = Requirked(units[r], t(r))
  BY <1>2, <1>3
<1> HIDE DEF q, t
<1>5. \A r \in 1 .. n : q[r].id = units[r].id /\ q[r].object = units[r].object
  BY <1>3, <1>4
<1>6. Alike(units, q)
  BY <1>4, <1>5 DEF Alike
<1>7. UnitsOk(q)
  <2>1. \A i, j \in 1 .. n : units[i].id = units[j].id \/ units[i].object = units[j].object => i = j
    BY InvParts, UnitParts
  <2>2. \A i, j \in 1 .. n : q[i].id = q[j].id \/ q[i].object = q[j].object => i = j
    BY <1>5, <2>1
  <2>3. QED
    BY <1>4, <2>2 DEF UnitsOk
<1>8. win.page \in Switches /\ win \in Windows
  BY <1>1, InvParts, WindowParts DEF PageOk
<1>9. SwitchedOn(defaults) \in SUBSET QuirkLines
  BY InvParts, SwitchesLines
<1>10. p \in Switches /\ p.target = "global" /\ p.on = SwitchedOn(defaults)
  BY <1>1, <1>8, <1>9 DEF Switches
<1>11. win' = v
  BY <1>1, <1>8 DEF Windows, Paged
<1>12. v = Paged(win, no, p, win.dialog)
  OBVIOUS
<1> HIDE DEF v, p
<1>13. PageOk(p)
  BY <1>1, <1>10 DEF PageOk, Pages
<1>14. ListFits(q, win)
  BY <1>6, <1>7, InvParts, FitsAlike
<1>15. WindowOk(v) /\ ListFits(q, v) /\ v.shown = win.shown /\ v.page = p /\ v.missed = no
  <2>1. no \in BOOLEAN
    OBVIOUS
  <2> HIDE DEF no
  <2>2. QED
    <3>1. PageParts(no, p, win.dialog)
      BY <1>12, <1>13, <1>14, <2>1, InvParts, WindowParts DEF PageParts
    <3>2. QED
      BY <1>12, <1>13, <1>14, <2>1, InvParts, <3>1, Repaged
<1>16. PageTrue(q, defaults, v)
  <2>1. TargetQuirks(p, q, defaults, win.shown) = defaults
    BY <1>10 DEF TargetQuirks
  <2>2. QED
    BY <1>1, <1>10, <1>15, <2>1 DEF PageTrue, FormTrue, EditorTrue, RowsTrue
<1>17. Good(q, defaults, v)
  BY <1>15, <1>16 DEF Good
<1>18. QED
  BY <1>1, <1>7, <1>11, <1>17, InvParts, InvNext

\* RemoveScopes or CreateUsers fails half way, and nobody is told.
LEMMA FailedHalfWayKeeps ==
  ASSUME DesktopInv, NEW o \in Alive(units), FailedHalfWay(o)
  PROVE  DesktopInv'
<1>1. PICK r \in 1 .. Len(units) : units[r].object = o
  BY InvParts, AliveRow
<1>2. UnitOf(units, o) = units[r] /\ RowOf(units, o) = r /\ units[r] \in Units /\ r \in DOMAIN units
  BY <1>1, InvParts, UnitFound, UnitParts
<1> DEFINE s == units[r].scopes
           u == [units[r] EXCEPT !.scopes = Tail(s)]
           q == Changed(units, r, u)
           m == win.missed \/ win.shown = o
           v == [win EXCEPT !.missed = m]
<1>3. /\ tab = "identity" /\ s # <<>> /\ units' = q /\ win' = v
      /\ tab' = tab /\ defaults' = defaults
  BY <1>2 DEF FailedHalfWay, Changed
<1>4. u \in Units /\ u.id = units[r].id /\ u.object = units[r].object
  <2>1. Tail(s) \in Seq(Writings)
    BY <1>2, <1>3, UnitFields, WordLists
  <2> HIDE DEF s
  <2>2. QED
    BY <1>2, <2>1 DEF Units
<1> HIDE DEF u
<1>5. /\ UnitsOk(q) /\ Alike(units, q)
      /\ \A k \in 1 .. Len(units) : k # r => q[k] = units[k]
  BY <1>4, InvParts, ChangedUnits
<1> HIDE DEF q
<1>6. Alike(units, q)
  BY <1>5
<1>7. m \in BOOLEAN /\ (win.missed => m) /\ (win.shown = o => m)
  BY InvParts, WindowParts
<1>8. v = Paged(win, m, win.page, win.dialog)
  BY InvParts, WindowParts DEF Windows, Paged
<1> HIDE DEF m, v
<1>9. ListFits(q, win)
  BY <1>5, <1>6, InvParts, FitsAlike
<1>10. WindowOk(v) /\ ListFits(q, v) /\ v.shown = win.shown /\ v.page = win.page /\ v.missed = m
  <2>1. PageParts(m, win.page, win.dialog)
    BY <1>7, <1>8, <1>9, InvParts, WindowParts DEF PageParts
  <2>2. QED
    BY <1>7, <1>8, <1>9, InvParts, <2>1, Repaged
<1>11. win.shown # 0 /\ win.shown # o => UnitOf(q, win.shown) = UnitOf(units, win.shown)
  <2>1. SUFFICES ASSUME win.shown # 0, win.shown # o
                 PROVE  UnitOf(q, win.shown) = UnitOf(units, win.shown)
    OBVIOUS
  <2>2. PICK k \in 1 .. Len(units) : win.shown = units[k].object
    BY <2>1, InvParts, ShownThere
  <2>3. k # r
    BY <1>1, <2>1, <2>2
  <2>4. QED
    BY <1>5, <1>6, <2>2, <2>3, InvParts, UnitAlike
<1>12. FormTrue(q, v)
  BY <1>7, <1>10, <1>11, InvParts DEF PageTrue, FormTrue
<1>13. PageTrue(q, defaults, v)
  BY <1>3, <1>12 DEF PageTrue, EditorTrue, RowsTrue
<1>14. Good(q, defaults, v)
  BY <1>10, <1>13 DEF Good
<1>15. QED
  BY <1>3, <1>5, <1>14, InvParts, InvNext

LEMMA TablesKeep ==
  ASSUME DesktopInv, NEW table \in SentTables,
         GlobalsElsewhere(table) \/ \E object \in Alive(units) : QuirksElsewhere(object, table)
  PROVE  DesktopInv'
<1>1. table \in QuirkTables
  BY DesktopAssumption DEF QuirkTables
<1>2. CASE GlobalsElsewhere(table)
  <2>1. /\ defaults' = table /\ win' = Defaulted(win, table) /\ tab' = tab /\ units' = units
    BY <1>2 DEF GlobalsElsewhere
  <2>2. Good(units, table, Defaulted(win, table))
    BY <1>1, InvParts, DefaultedRight
  <2>3. QED
    BY <1>1, <2>1, <2>2, InvParts, InvNext
<1>3. CASE \E object \in Alive(units) : QuirksElsewhere(object, table)
  BY <1>1, <1>3, InvParts, SetUnitQuirksKeeps DEF QuirksElsewhere
<1>4. QED
  BY <1>2, <1>3

-----------------------------------------------------------------------------
\* applyScenario(): one camera after the other.
Loaded(s, id) ==
  LET us == Append(s.us, Fresh(Untouched, id, NewObject(s.us, s.w)))
  IN  [us |-> us, w |-> RowAdded(s.w, us, Untouched)]
Cleared == [us |-> <<>>, w |-> Defaulted(Rebuilt(win, <<>>, defaults), Untouched)]

LEMMA NoUnits == UnitsOk(<<>>)
BY DEF UnitsOk

LEMMA LoadedRight ==
  ASSUME NEW s, UnitsOk(s.us), Good(s.us, Untouched, s.w), NEW id \in Range(CameraIds),
         \A r \in 1 .. Len(s.us) : s.us[r].id # id
  PROVE  LET t == Loaded(s, id)
         IN  /\ UnitsOk(t.us) /\ Good(t.us, Untouched, t.w) /\ Len(t.us) = Len(s.us) + 1
             /\ t.us[Len(s.us) + 1].id = id
             /\ \A r \in 1 .. Len(s.us) : t.us[r] = s.us[r]
<1> DEFINE o == NewObject(s.us, s.w)
           u == Fresh(Untouched, id, o)
           us == Append(s.us, u)
           t == Loaded(s, id)
<1>1. o \in Objects /\ o \notin Alive(s.us)
  BY ObjectThere
<1> HIDE DEF o
<1>2. u \in Units /\ u.id = id /\ u.object = o
  BY <1>1, UntouchedTable, FreshUnit
<1>3. \A r \in 1 .. Len(s.us) : s.us[r].object # o
  BY <1>1, UnitFound
<1>4. t.us = us /\ t.w = RowAdded(s.w, us, Untouched)
  BY DEF Loaded, o
<1> HIDE DEF u, t
<1>5. UnitsOk(us) /\ Good(us, Untouched, RowAdded(s.w, us, Untouched))
  BY <1>2, <1>3, UntouchedTable, AddedRight
<1>6. /\ Len(us) = Len(s.us) + 1 /\ us[Len(s.us) + 1] = u
      /\ \A r \in 1 .. Len(s.us) : us[r] = s.us[r]
  BY <1>2, <1>3, AppendedUnits
<1> HIDE DEF us
<1>7. /\ UnitsOk(t.us) /\ Good(t.us, Untouched, t.w) /\ Len(t.us) = Len(s.us) + 1
      /\ t.us[Len(s.us) + 1].id = id /\ \A r \in 1 .. Len(s.us) : t.us[r] = s.us[r]
  BY <1>2, <1>4, <1>5, <1>6
<1>8. QED
  BY <1>7 DEF t

\* The recursive definition defines a function.
LEMMA ScenarioLoads ==
  ASSUME NEW ids \in Seq(Range(CameraIds)), OpenScenario(ids)
  PROVE  \E G : /\ G = [n \in 0 .. Len(ids) |->
                         IF n = 0 THEN Cleared ELSE Loaded(G[n - 1], ids[n])]
                /\ units' = G[Len(ids)].us /\ win' = G[Len(ids)].w
                /\ defaults' = Untouched /\ tab' = tab
<1> DEFINE L == Len(ids)
           cleared == Defaulted(Rebuilt(win, <<>>, defaults), Untouched)
           put(s, id) == Append(s.us, Fresh(Untouched, id, NewObject(s.us, s.w)))
           B(f, k) == IF k = 0 THEN [us |-> <<>>, w |-> cleared]
                      ELSE [us |-> put(f[k - 1], ids[k]),
                            w  |-> RowAdded(f[k - 1].w, put(f[k - 1], ids[k]), Untouched)]
           G == CHOOSE g : g = [n \in 0 .. L |->
                  IF n = 0 THEN [us |-> <<>>, w |-> cleared]
                  ELSE [us |-> put(g[n - 1], ids[n]),
                        w  |-> RowAdded(g[n - 1].w, put(g[n - 1], ids[n]), Untouched)]]
<1>1. L \in Nat
  OBVIOUS
<1>2. units' = G[L].us /\ win' = G[L].w /\ defaults' = Untouched /\ tab' = tab
  BY DEF OpenScenario
<1> DEFINE P == {n \in 0 .. L : \E f : f = [k \in 0 .. n |-> B(f, k)]}
<1>3. ASSUME NEW f, NEW g, NEW k \in Nat, k # 0 => f[k - 1] = g[k - 1] PROVE B(f, k) = B(g, k)
  BY <1>3
<1>4. L \in P
  <2>1. 0 \in P
    <3> DEFINE f == [k \in 0 .. 0 |-> [us |-> <<>>, w |-> cleared]]
    <3>1. f = [k \in 0 .. 0 |-> B(f, k)]
      <4> HIDE DEF cleared, put
      <4>1. QED
        OBVIOUS
    <3>2. \E h : h = [k \in 0 .. 0 |-> B(h, k)]
      <4> HIDE DEF B
      <4>1. QED
        BY <3>1
    <3>3. QED
      BY <1>1, <3>2
  <2>2. ASSUME NEW n \in 1 .. L, n - 1 \in P PROVE n \in P
    <3>1. PICK f : f = [k \in 0 .. n - 1 |-> B(f, k)]
      BY <2>2
    <3> HIDE DEF B
    <3> DEFINE g == [k \in 0 .. n |-> IF k = n THEN B(f, n) ELSE f[k]]
    <3>2. ASSUME NEW k \in 0 .. n PROVE g[k] = B(g, k)
      <4>1. CASE k = n
        <5>1. g[k - 1] = f[k - 1]
          BY <4>1
        <5>2. g[k] = B(f, k)
          BY <4>1
        <5> HIDE DEF g
        <5>3. QED
          BY <1>3, <5>1, <5>2
      <4>2. CASE k # n
        <5>1. k \in 0 .. n - 1 /\ g[k] = f[k] /\ (k # 0 => g[k - 1] = f[k - 1])
          BY <4>2
        <5>2. f[k] = B(f, k)
          BY <3>1, <5>1
        <5> HIDE DEF g
        <5>3. QED
          BY <1>3, <5>1, <5>2
      <4>3. QED
        BY <4>1, <4>2
    <3>3. g = [k \in 0 .. n |-> B(g, k)]
      <4>1. g = [k \in 0 .. n |-> g[k]]
        OBVIOUS
      <4> HIDE DEF g
      <4>2. QED
        BY <3>2, <4>1
    <3>4. \E h : h = [k \in 0 .. n |-> B(h, k)]
      <4> HIDE DEF g
      <4>1. QED
        BY <3>3
    <3>5. n \in 0 .. L
      BY <1>1
    <3>6. QED
      BY <3>4, <3>5
  <2> HIDE DEF P, L
  <2>3. \A n \in 0 .. L : n \in P
    BY <1>1, <2>1, <2>2, Climb
  <2>4. QED
    BY <1>1, <2>3
<1>5. G = [k \in 0 .. L |-> B(G, k)]
  <2>1. G = CHOOSE g : g = [k \in 0 .. L |-> B(g, k)]
    OBVIOUS
  <2> HIDE DEF B, G
  <2>2. \E f : f = [k \in 0 .. L |-> B(f, k)]
    BY <1>4
  <2>3. QED
    BY <2>1, <2>2
<1> HIDE DEF G
<1>6. \A k : B(G, k) = IF k = 0 THEN Cleared ELSE Loaded(G[k - 1], ids[k])
  BY DEF Cleared, Loaded
<1> HIDE DEF B
<1>7. G = [k \in 0 .. L |-> IF k = 0 THEN Cleared ELSE Loaded(G[k - 1], ids[k])]
  BY <1>5, <1>6
<1>8. QED
  BY <1>2, <1>7

\* After each camera the window is true of the cameras so far.
LEMMA ScenarioKeeps ==
  ASSUME DesktopInv, NEW ids \in ScenarioFiles, OpenScenario(ids)
  PROVE  DesktopInv'
<1> DEFINE L == Len(ids)
<1>1. ids \in Seq(Range(CameraIds)) /\ IsInjective(ids) /\ L \in Nat /\ DOMAIN ids = 1 .. L
  BY DesktopAssumption
<1>2. PICK G : /\ G = [n \in 0 .. Len(ids) |-> IF n = 0 THEN Cleared ELSE Loaded(G[n - 1], ids[n])]
               /\ units' = G[Len(ids)].us /\ win' = G[Len(ids)].w
               /\ defaults' = Untouched /\ tab' = tab
  BY <1>1, ScenarioLoads
<1>3. G[0] = Cleared /\ \A n \in 1 .. L : G[n] = Loaded(G[n - 1], ids[n])
  <2> HIDE DEF L
  <2>1. G = [n \in 0 .. L |-> IF n = 0 THEN Cleared ELSE Loaded(G[n - 1], ids[n])]
    BY <1>2 DEF L
  <2>2. 0 \in 0 .. L /\ \A n \in 1 .. L : n \in 0 .. L /\ n # 0
    BY <1>1
  <2>3. QED
    BY <2>1, <2>2, Zenon
<1>4. \A i, j \in 1 .. L : ids[i] = ids[j] => i = j
  BY <1>1 DEF IsInjective
<1> DEFINE Fits(s, n) == /\ UnitsOk(s.us) /\ Good(s.us, Untouched, s.w) /\ Len(s.us) = n
                         /\ \A r \in 1 .. n : s.us[r].id = ids[r]
           P == {n \in 0 .. L : Fits(G[n], n)}
<1>5. 0 \in P
  <2> DEFINE w == Rebuilt(win, <<>>, defaults)
  <2>1. Good(<<>>, defaults, w)
    BY InvParts, NoUnits, RebuiltRight
  <2> HIDE DEF w
  <2>2. Good(<<>>, Untouched, Defaulted(w, Untouched))
    BY <2>1, InvParts, UntouchedTable, DefaultedRight
  <2>3. G[0].us = <<>> /\ G[0].w = Defaulted(w, Untouched)
    BY <1>3 DEF Cleared, w
  <2>4. UnitsOk(G[0].us) /\ Good(G[0].us, Untouched, G[0].w) /\ Len(G[0].us) = 0
    BY <2>2, <2>3, NoUnits
  <2>5. 0 \in 0 .. L /\ \A r \in 1 .. 0 : G[0].us[r].id = ids[r]
    BY <1>1
  <2>6. QED
    BY <2>4, <2>5
<1>6. ASSUME NEW n \in 1 .. L, n - 1 \in P PROVE n \in P
  <2> DEFINE s == G[n - 1]  t == G[n]
  <2>1. Fits(s, n - 1)
    BY <1>6
  <2>2. t = Loaded(s, ids[n])
    BY <1>3
  <2>3. ids[n] \in Range(CameraIds)
    BY <1>1
  <2> HIDE DEF s, t
  <2>4. \A r \in 1 .. Len(s.us) : s.us[r].id # ids[n]
    <3>1. TAKE r \in 1 .. Len(s.us)
    <3>2. r \in 1 .. n - 1 /\ r \in 1 .. L /\ r # n
      BY <1>1, <2>1
    <3>3. QED
      BY <1>4, <2>1, <3>2
  <2>5. /\ UnitsOk(t.us) /\ Good(t.us, Untouched, t.w) /\ Len(t.us) = Len(s.us) + 1
        /\ t.us[Len(s.us) + 1].id = ids[n]
        /\ \A r \in 1 .. Len(s.us) : t.us[r] = s.us[r]
    BY <2>1, <2>2, <2>3, <2>4, LoadedRight
  <2>6. Len(s.us) = n - 1
    BY <2>1
  <2>7. Len(t.us) = n /\ \A r \in 1 .. n : t.us[r].id = ids[r]
    BY <2>1, <2>5, <2>6
  <2>8. Fits(t, n)
    BY <2>5, <2>7
  <2> HIDE DEF Fits
  <2>9. n \in 0 .. L
    BY <1>1
  <2>10. QED
    BY <2>8, <2>9 DEF t
<1> HIDE DEF P
<1>7. \A n \in 0 .. L : n \in P
  <2> HIDE DEF L
  <2>1. QED
    BY <1>1, <1>5, <1>6, Climb
<1>8. L \in P
  BY <1>1, <1>7
<1>9. UnitsOk(units') /\ Good(units', Untouched, win')
  BY <1>2, <1>8 DEF P
<1>10. QED
  BY <1>2, <1>9, UntouchedTable, InvNext

-----------------------------------------------------------------------------
\* The first window.
LEMMA FirstRight ==
  ASSUME tab \in {"identity", "streams", "quirks"}
  PROVE  UnitsOk(FirstUnits) /\ Good(FirstUnits, Untouched, FirstWindow)
<1> DEFINE o == CHOOSE o \in Objects : TRUE
           u == Fresh(Untouched, CameraIds[1], o)
           w == [rows |-> <<>>, at |-> 0, shown |-> 0, missed |-> FALSE, page |-> FirstPage,
                 dialog |-> NoDialog]
<1>1. o \in Objects
  <2>1. Objects # {}
    <3>1. Cardinality(Objects) \in Nat /\ Len(CameraIds) \in Nat /\ Cardinality(Objects) > Len(CameraIds)
      BY DesktopAssumption, FS_CardinalityType
    <3>2. Cardinality(Objects) # 0
      BY <3>1
    <3>3. QED
      BY <3>2, FS_EmptySet
  <2>2. QED
    BY <2>1
<1>2. CameraIds[1] \in Range(CameraIds)
  BY DesktopAssumption
<1> HIDE DEF o
<1>3. u \in Units
  BY <1>1, <1>2, UntouchedTable, FreshUnit
<1>4. FirstUnits = <<u>>
  BY DEF FirstUnits, o
<1> HIDE DEF u
<1>5. UnitsOk(<<u>>)
  BY <1>3 DEF UnitsOk
<1>6. PageOk(FirstPage)
  <2>1. CASE tab = "identity"
    <3>1. FirstPage = [fields |-> "", scopes |-> <<>>, typed |-> FALSE]
      BY <2>1 DEF FirstPage, Blank
    <3>2. "" \in Writings /\ <<>> \in Seq(Writings)
      BY DEF Writings
    <3>3. FirstPage \in Forms
      BY <3>1, <3>2 DEF Forms
    <3>4. QED
      BY <2>1, <3>3 DEF PageOk, Pages
  <2>2. CASE tab = "streams"
    <3>1. FirstPage = [line |-> 0, typed |-> FALSE, text |-> "", lines |-> 0]
      BY <2>2 DEF FirstPage
    <3>2. FirstPage \in Editors
      BY <3>1 DEF Editors, Writings
    <3>3. QED
      BY <2>2, <3>2 DEF PageOk, Pages
  <2>3. CASE tab = "quirks"
    <3>1. FirstPage = [target |-> "camera", on |-> {}]
      BY <2>3 DEF FirstPage
    <3>2. FirstPage \in Switches
      BY <3>1 DEF Switches
    <3>3. QED
      BY <2>3, <3>2 DEF PageOk, Pages
  <2>4. QED
    BY <2>1, <2>2, <2>3
<1>7. WindowOk(w)
  <2>1. NoDialog \in Dialogs /\ NoDialog.kind = "none"
    BY NoDialogFits
  <2>2. FirstPage \in Pages /\ <<>> \in Seq(Range(CameraIds))
    BY <1>6 DEF PageOk
  <2>3. w \in Windows
    BY <2>1, <2>2 DEF Windows
  <2>4. QED
    BY <1>6, <2>1, <2>3 DEF WindowOk
<1>8. FirstWindow = Rebuilt(w, FirstUnits, Untouched)
  BY DEF FirstWindow
<1> HIDE DEF w
<1>9. QED
  BY <1>4, <1>5, <1>7, <1>8, UntouchedTable, RebuiltRight

\* The process ends on a pointer to what is gone, or not.
LEMMA PointerUsedKeeps == ASSUME DesktopInv, PointerUsed PROVE DesktopInv'
<1>1. CASE units' = FirstUnits /\ defaults' = Untouched /\ win' = FirstWindow /\ UNCHANGED tab
  <2>1. tab \in {"identity", "streams", "quirks"}
    BY InvParts, WindowParts DEF PageOk
  <2>2. QED
    BY <1>1, <2>1, FirstRight, UntouchedTable, InvNext
<1>2. CASE Opened(NoDialog)
  BY <1>2, NoDialogFits, OpenedKeeps
<1>3. CASE /\ \E row \in DOMAIN units : win' = Select(DialogGone, units, defaults, row)
           /\ UNCHANGED <<tab, units, defaults>>
  BY <1>3, GoneGood, SelectKeeps
<1>4. CASE win.dialog.kind = "edit" /\ Apply(DialogGone, win.page)
  BY <1>4, FormsKeep
<1>5. QED
  BY <1>1, <1>2, <1>3, <1>4 DEF PointerUsed

LEMMA ReconfigureKeeps == ASSUME DesktopInv, Reconfigure PROVE DesktopInv'
<1>1. win' = Rebuilt(win, units, defaults) /\ UNCHANGED <<tab, units, defaults>>
  BY DEF Reconfigure
<1>2. Good(units, defaults, Rebuilt(win, units, defaults))
  BY InvParts, RebuiltRight
<1>3. QED
  BY <1>1, <1>2, WindowOnly

LEMMA DesktopStepKeeps == ASSUME DesktopInv, DesktopStep PROVE DesktopInv'
<1>1. CASE AddCamera \/ AddedElsewhere
  BY <1>1, AddCameraKeeps
<1>2. CASE WarningRead
  BY <1>2, WarningReadKeeps
<1>3. CASE \/ AskRemove \/ ConfirmRemove \/ MenuRemove \/ Dismiss \/ AskScope
           \/ tab = "identity" /\ \E line \in DOMAIN win.page.scopes : AskEdit(line)
  BY <1>3, QuestionsKeep
<1>4. CASE Reconfigure
  BY <1>4, ReconfigureKeeps
<1>5. CASE \E row \in DOMAIN units : PickRow(row) \/ OpenMenu(row) \/ RemovedElsewhere(row)
  BY <1>5, RowsKeep
<1>6. CASE \/ \E text \in Texts : MenuRename(text) \/ ApplyPersona(text)
           \/ ApplyEditor \/ AddProfile \/ RemoveProfile
           \/ \E object \in Alive(units) : ChangedElsewhere(object)
  BY <1>6, ModelsKeep
<1>7. CASE \E text \in Texts : Type(text) \/ TypeName(text)
  BY <1>7, TypeKeeps, TypeNameKeeps
<1>8. CASE \/ FinishTyping \/ AddUser
           \/ \E text \in Texts : AddScope(text) \/ EditScope(text)
           \/ tab = "identity" /\ \E line \in DOMAIN win.page.scopes : RemoveLine(line)
  BY <1>8, FormsKeep
<1>9. CASE tab = "streams" /\ \E line \in 1 .. win.page.lines : PickLine(line)
  BY <1>9, PickLineKeeps
<1>10. CASE \E target \in {"camera", "global"} : PickTarget(target)
  BY <1>10, PickTargetKeeps
<1>11. CASE ClearAll \/ \E q \in QuirkLines : WriteRow(q)
  BY <1>11, SwitchesKeep
<1>12. CASE ApplyGlobal
  BY <1>12, ApplyGlobalKeeps
<1>13. CASE \E object \in Alive(units) : FailedHalfWay(object)
  BY <1>13, FailedHalfWayKeeps
<1>14. CASE \E table \in SentTables :
              \/ GlobalsElsewhere(table)
              \/ \E object \in Alive(units) : QuirksElsewhere(object, table)
  BY <1>14, TablesKeep
<1>15. CASE \E ids \in ScenarioFiles : OpenScenario(ids)
  BY <1>15, ScenarioKeeps
<1>16. CASE PointerUsed
  BY <1>16, PointerUsedKeeps
<1>17. QED
  BY <1>1, <1>2, <1>3, <1>4, <1>5, <1>6, <1>7, <1>8, <1>9, <1>10, <1>11, <1>12, <1>13,
     <1>14, <1>15, <1>16 DEF DesktopStep

LEMMA DesktopIdle == ASSUME DesktopInv, UNCHANGED desktopVars PROVE DesktopInv'
<1>1. tab' = tab /\ units' = units /\ defaults' = defaults /\ win' = win
  BY DEF desktopVars
<1>2. QED
  BY <1>1, InvParts, InvNext

LEMMA DesktopStarts == ASSUME DesktopInit PROVE DesktopInv
<1>1. /\ tab \in {"identity", "streams", "quirks"} /\ units = FirstUnits
      /\ defaults = Untouched /\ win = FirstWindow
  BY DEF DesktopInit
<1>2. QED
  BY <1>1, FirstRight, UntouchedTable DEF DesktopInv

\* WindowTrue is what the invariant says of the window there is.
LEMMA WindowFollows == ASSUME DesktopInv PROVE WindowTrue
<1>1. ListTrue
  BY InvParts DEF ListFits, ListTrue, IdsOf
<1>2. IdentityTrue
  BY InvParts DEF PageTrue, FormTrue, IdentityTrue, OnIdentity, Current
<1>3. StreamsTrue
  BY InvParts DEF PageTrue, EditorTrue, StreamsTrue, Current
<1>4. SwitchesTrue
  BY InvParts DEF PageTrue, RowsTrue, SwitchesTrue
<1>5. QED
  BY <1>1, <1>2, <1>3, <1>4 DEF WindowTrue

\* Whoever adds, removes or changes cameras, in the window or over the network, while it
\* is open, with or without a dialog: the list has the cameras there are, the camera shown
\* is the one its current row names, and what a tab shows of it is what it has
\* (MainWindow, CameraListWidget, CameraTab).
THEOREM WindowStaysTrue == DesktopSpec => []WindowTrue
<1>1. DesktopInit => DesktopInv
  BY DesktopStarts
<1>2. DesktopInv /\ [DesktopNext]_desktopVars => DesktopInv'
  BY DesktopStepKeeps, DesktopIdle DEF DesktopNext
<1>3. DesktopInv => WindowTrue
  BY WindowFollows
<1>4. QED
  BY <1>1, <1>2, <1>3, PTL DEF DesktopSpec
=============================================================================
