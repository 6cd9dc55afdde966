---------------------------- MODULE VendorSessions ---------------------------
(***************************************************************************)
(* Logging in to the vendor APIs that hand out a token: Reolink            *)
(* (src/src/vendor/reolink/ReolinkStub.cpp), TP-Link                       *)
(* (src/src/vendor/tplink/TplinkDsStub.cpp) and VIGI                       *)
(* (src/src/vendor/vigi/VigiStub.cpp), with the eight detection switches   *)
(* the VIGI token opens.  Each keeps one token for all its clients.        *)
(*                                                                         *)
(* Tokens and nonces are numbers never handed out twice (they are random   *)
(* and long in the code); 0 is none.  Time moves in steps, and a token     *)
(* lasts Lease of them.                                                    *)
(***************************************************************************)
EXTENDS Integers, Sequences, FiniteSets, SequencesExt

CONSTANTS
  Apis,        \* among "reolink", "tplink", "vigi"
  Clients,
  Detections,  \* detectionTypes()
  Batches,     \* command arrays of the Reolink and the multipleRequest API
  Lease,       \* kTokenLeaseSeconds, kStokLeaseSeconds
  MaxIssued,   \* bound: tokens and nonces handed out in a behaviour
  MaxNow       \* bound: steps of time

ASSUME VendorSessionsAssumption ==
  Lease \in Nat /\ MaxIssued \in Nat /\ MaxNow \in Nat

VARIABLES
  api,       \* which of the three this camera has
  token,     \* m_token / m_stok
  expiry,    \* m_tokenExpiry / m_stokExpiry
  nonce,     \* VigiStub::m_nonce
  enabled,   \* detections switched on
  now,
  issued,    \* tokens and nonces handed out so far
  held,      \* the token each client was last given
  challenge, \* the nonce each client was last given
  answers,   \* history: the answers of the last request, one per command
  bought,    \* history: nonces that bought a token
  foul       \* history: a command was done on a token that was not current

sessionVars == <<api, token, expiry, nonce, enabled, now, issued, held, challenge,
                 answers, bought, foul>>

\* tokenAccepted(), stokAccepted()
Accepted(t) == t # 0 /\ t = token /\ now < expiry

IssueToken(c) ==
  /\ issued < MaxIssued /\ issued' = issued + 1
  /\ token' = issued' /\ expiry' = now + Lease
  /\ held' = [held EXCEPT ![c] = issued']

\* A command array is worked off in order against the token in the request's
\* query, so a Login in it makes strangers of the commands that follow.
Renewed(cmds, i) == \E j \in 1 .. i - 1 : cmds[j] = "login"
Answer(t, cmds, i) ==
  CASE cmds[i] = "missing" -> -1
    [] cmds[i] = "login" -> 0
    [] cmds[i] = "bad login" -> -7
    [] ~Accepted(t) \/ Renewed(cmds, i) -> -6
    [] OTHER -> IF cmds[i] = "unknown" THEN -9 ELSE 0

Logins(cmds) == {i \in DOMAIN cmds : cmds[i] = "login"}

\* ReolinkStub::handle(); a Snap in front decides the whole request.
ReolinkRequest(c, cmds) ==
  /\ api = "reolink"
  /\ IF cmds[1] = "snap"
     THEN /\ answers' = <<IF Accepted(held[c]) THEN 0 ELSE -6>>
          /\ UNCHANGED <<token, expiry, issued, held, foul>>
     ELSE /\ answers' = [i \in DOMAIN cmds |-> Answer(held[c], cmds, i)]
          /\ IF Logins(cmds) # {} THEN IssueToken(c)
             ELSE UNCHANGED <<token, expiry, issued, held>>
          /\ foul' = (foul \/ \E i \in DOMAIN cmds :
                        /\ cmds[i] = "work" /\ answers'[i] = 0
                        /\ held[c] # IF Renewed(cmds, i) THEN issued' ELSE token)
  /\ UNCHANGED <<api, nonce, enabled, now, challenge, bought>>

\* TplinkDsStub::handle(): the root path logs in, any other needs the token in
\* its path, and then serves a single request or a list of them.
TplinkLogin(c, good) ==
  /\ api = "tplink"
  /\ IF good THEN IssueToken(c) /\ answers' = <<0>>
     ELSE answers' = <<-40401>> /\ UNCHANGED <<token, expiry, issued, held>>
  /\ UNCHANGED <<api, nonce, enabled, now, challenge, bought, foul>>
TplinkRequest(c, cmds) ==
  /\ api = "tplink"
  /\ answers' = IF ~Accepted(held[c]) THEN <<-40401>>
                ELSE [i \in DOMAIN cmds |-> IF cmds[i] = "work" THEN 0 ELSE -40210]
  /\ UNCHANGED <<api, token, expiry, nonce, enabled, now, issued, held, challenge, bought, foul>>

\* methodDoAuth() without a digest: a new challenge for everybody.
Challenge(c) ==
  /\ api = "vigi"
  /\ issued < MaxIssued /\ issued' = issued + 1
  /\ nonce' = issued'
  /\ challenge' = [challenge EXCEPT ![c] = issued']
  /\ answers' = <<0>>
  /\ UNCHANGED <<api, token, expiry, enabled, now, held, bought, foul>>

\* methodDoAuth() with the digest of the nonce the client has: the challenge is
\* spent whatever comes of it.
\* Mutant: a challenge that was met stays good.
DoAuth_NonceKept(c, good) ==
  /\ api = "vigi"
  /\ nonce' = IF good /\ challenge[c] = nonce THEN nonce ELSE 0
  /\ IF nonce # 0 /\ good /\ challenge[c] = nonce
     THEN IssueToken(c) /\ answers' = <<0>> /\ bought' = Append(bought, nonce)
     ELSE answers' = <<-40401>> /\ UNCHANGED <<token, expiry, issued, held, bought>>
  /\ UNCHANGED <<api, enabled, now, challenge, foul>>
DoAuth(c, good) ==
  /\ api = "vigi"
  /\ nonce' = 0
  /\ IF nonce # 0 /\ good /\ challenge[c] = nonce
     THEN IssueToken(c) /\ answers' = <<0>> /\ bought' = Append(bought, nonce)
     ELSE answers' = <<-40401>> /\ UNCHANGED <<token, expiry, issued, held, bought>>
  /\ UNCHANGED <<api, enabled, now, challenge, foul>>

\* dispatch(): every other method needs the token.  A detection is switched by
\* set, or read; names outside the list and a set without "enabled" are refused.
Serve(method) ==
  \/ method = "set" /\ answers' = <<0>>
     /\ \E d \in Detections : enabled' \in {enabled \cup {d}, enabled \ {d}}
  \/ method = "subscribe" /\ answers' = <<Cardinality(Detections \ enabled)>> /\ UNCHANGED enabled
  \/ method = "set nothing" /\ answers' = <<-40209>> /\ UNCHANGED enabled
  \/ method = "set other" /\ answers' = <<-10030>> /\ UNCHANGED enabled
  \/ method = "unknown" /\ answers' = <<-40210>> /\ UNCHANGED enabled
VigiCall(c, method) ==
  /\ api = "vigi"
  /\ IF Accepted(held[c]) THEN Serve(method)
     ELSE answers' = <<-40401>> /\ UNCHANGED enabled
  /\ UNCHANGED <<api, token, expiry, nonce, now, issued, held, challenge, bought, foul>>

Methods == {"set", "subscribe", "set nothing", "set other", "unknown"}

SessionElapse ==
  /\ now < MaxNow /\ now' = now + 1
  /\ UNCHANGED <<api, token, expiry, nonce, enabled, issued, held, challenge, answers, bought, foul>>
\* expireToken(), expireStok(): fault injection.
Expire ==
  /\ token # 0 /\ expiry > now /\ expiry' = now
  /\ UNCHANGED <<api, token, nonce, enabled, now, issued, held, challenge, answers, bought, foul>>

SessionInit ==
  /\ api \in Apis
  /\ token = 0 /\ expiry = 0 /\ nonce = 0 /\ enabled = {} /\ now = 0 /\ issued = 0
  /\ held = [c \in Clients |-> 0] /\ challenge = [c \in Clients |-> 0]
  /\ answers = <<>> /\ bought = <<>> /\ foul = FALSE

SessionNext ==
  \/ \E c \in Clients :
       \/ \E cmds \in Batches : ReolinkRequest(c, cmds)
       \/ \E good \in BOOLEAN : TplinkLogin(c, good)
       \/ \E cmds \in Batches : TplinkRequest(c, cmds)
       \/ Challenge(c)
       \/ \E good \in BOOLEAN : DoAuth(c, good)
       \/ \E method \in Methods : VigiCall(c, method)
  \/ SessionElapse
  \/ Expire

SessionSpec == SessionInit /\ [][SessionNext]_sessionVars

\* One client at a time has a session, the one that logged in last; no session
\* outlives its lease; a VIGI challenge buys one session at most, and only the
\* newest challenge is open; and no command is done on a token that has been
\* replaced, be it by a Login earlier in the same array (ReolinkStub::handle).
SessionsTrue ==
  /\ \A c, d \in Clients : Accepted(held[c]) /\ Accepted(held[d]) => c = d
  /\ expiry <= now + Lease /\ token \in 0 .. issued
  /\ IsInjective(bought) /\ nonce \notin ToSet(bought)
  /\ \A c \in Clients : challenge[c] <= nonce \/ nonce = 0
  /\ ~foul
=============================================================================
