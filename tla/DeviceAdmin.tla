---------------------------- MODULE DeviceAdmin ----------------------------
(***************************************************************************)
(* What DeviceService administers: the users and the scopes of the camera, *)
(* which live in its model, and the discovery mode, which lives in the     *)
(* service object.  A request carries a list; its entries are carried out  *)
(* one by one, and a fault leaves the earlier ones done.  Every request    *)
(* that ends well calls applyModelChanges, which replaces all services     *)
(* with new ones (VirtualCamera::setupServices).                           *)
(***************************************************************************)
EXTENDS Naturals, Sequences, FiniteSets, SequencesExt

CONSTANTS
  MaxUsers,     \* kMaxUsers
  FirstUsers,   \* the users of makeDefault, a sequence of [name, level]
  NewNames,     \* names of users a client adds
  Nameless,     \* the empty user name
  UserLevels,       \* the levels, "Administrator" among them
  BadLevel,     \* a level nobody knows
  SameLevel,    \* a SetUser that leaves the level alone
  FixedScopes,  \* scopes of type, hardware and profile
  FreeScopes    \* scopes a client may set

\* makeDefault's users differ in name, fit in, and have levels there are.
ASSUME AdminAssumption ==
  /\ MaxUsers \in Nat
  /\ {"Administrator", "User"} \subseteq UserLevels
  /\ FirstUsers \in Seq([name : STRING, level : UserLevels])
  /\ Len(FirstUsers) \in 1 .. MaxUsers
  /\ \A i, j \in DOMAIN FirstUsers : FirstUsers[i].name = FirstUsers[j].name => i = j

VARIABLES
  users,         \* model.users
  scopes,        \* model.scopes, without duplicates
  discoveryMode  \* m_discoveryMode of the service object in use

adminVars == <<users, scopes, discoveryMode>>

DefaultMode == "Discoverable"
Modes == {DefaultMode, "NonDiscoverable"}

Names(us) == {u.name : u \in Range(us)}
Admins(us) == {u \in Range(us) : u.level = "Administrator"}
PlaceOf(us, name) == CHOOSE i \in DOMAIN us : us[i].name = name
KnownNames == {u.name : u \in Range(FirstUsers)} \cup NewNames
Lists(S) == {<<a>> : a \in S} \cup {<<a, b>> : a, b \in S}

-----------------------------------------------------------------------------
(* applyModelChanges(): new services, with the state new services have;    *)
(* the mode a client set is forgotten.                                     *)
ServicesReplaced == discoveryMode' = DefaultMode

(* The handler of a list: one entry after the other until one is refused.  *)
(* Only a list without a refusal reaches applyModelChanges.                *)
Carried(One(_, _), value, list) ==
  LET first == One(value, list[1])
  IN  IF first.refused \/ Len(list) = 1 THEN first ELSE One(first.value, list[2])

Done(value) == [value |-> value, refused |-> FALSE]
Refused(value) == [value |-> value, refused |-> TRUE]

AfterList(outcome) ==
  IF outcome.refused THEN UNCHANGED discoveryMode ELSE ServicesReplaced

CreateOne(us, new) ==
  IF /\ Len(us) < MaxUsers
     /\ new.name # Nameless
     /\ new.name \notin Names(us)
     /\ new.level # BadLevel
  THEN Done(Append(us, new)) ELSE Refused(us)

CreateUsers ==
  \E list \in Lists([name : NewNames \cup {Nameless, FirstUsers[1].name},
                     level : {"Administrator", "User", BadLevel}]) :
    LET outcome == Carried(CreateOne, users, list)
    IN  /\ users' = outcome.value
        /\ AfterList(outcome)
        /\ UNCHANGED scopes

(* An administrator goes only while another stays. *)
(* Mutant: the administrators are counted by the request, not by the entry. *)
DeleteOne_CountedOnce(us, name) ==
  IF name \notin Names(us) THEN Refused(us)
  ELSE LET i == PlaceOf(us, name)
       IN  IF us[i].level = "Administrator" /\ Cardinality(Admins(users)) <= 1
           THEN Refused(us)
           ELSE Done(RemoveAt(us, i))

DeleteOne(us, name) ==
  IF name \notin Names(us) THEN Refused(us)
  ELSE LET i == PlaceOf(us, name)
       IN  IF us[i].level = "Administrator" /\ Cardinality(Admins(us)) <= 1
           THEN Refused(us)
           ELSE Done(RemoveAt(us, i))

DeleteUsers ==
  \E list \in Lists(KnownNames) :
    LET outcome == Carried(DeleteOne, users, list)
    IN  /\ users' = outcome.value
        /\ AfterList(outcome)
        /\ UNCHANGED scopes

SetOne(us, change) ==
  IF change.name \notin Names(us) \/ change.level = BadLevel THEN Refused(us)
  ELSE Done([i \in DOMAIN us |->
               IF us[i].name = change.name /\ change.level # SameLevel
               THEN [us[i] EXCEPT !.level = change.level] ELSE us[i]])

SetUser ==
  \E list \in Lists([name : KnownNames,
                     level : {"Administrator", "User", SameLevel, BadLevel}]) :
    LET outcome == Carried(SetOne, users, list)
    IN  /\ users' = outcome.value
        /\ AfterList(outcome)
        /\ UNCHANGED scopes

-----------------------------------------------------------------------------
(* SetScopes replaces what is free and keeps what is fixed. *)
(* Mutant: everything is replaced. *)
SetScopes_All ==
  \E requested \in SUBSET FreeScopes :
    /\ scopes' = requested
    /\ ServicesReplaced
    /\ UNCHANGED users

SetScopes ==
  \E requested \in SUBSET FreeScopes :
    /\ scopes' = (scopes \cap FixedScopes) \cup requested
    /\ ServicesReplaced
    /\ UNCHANGED users

AddScopes ==
  \E requested \in SUBSET FreeScopes \ {{}} :
    /\ scopes' = scopes \cup requested
    /\ ServicesReplaced
    /\ UNCHANGED users

RemoveOne(ss, scope) == IF scope \in FixedScopes THEN Refused(ss) ELSE Done(ss \ {scope})

RemoveScopes ==
  \E list \in Lists(FixedScopes \cup FreeScopes) :
    LET outcome == Carried(RemoveOne, scopes, list)
    IN  /\ scopes' = outcome.value
        /\ AfterList(outcome)
        /\ UNCHANGED users

-----------------------------------------------------------------------------
SetDiscoveryMode ==
  \E mode \in Modes :
    /\ discoveryMode' = mode
    /\ UNCHANGED <<users, scopes>>

(* SetHostname, a media configuration, a PATCH: any other change of the    *)
(* model.                                                                  *)
OtherChange == ServicesReplaced /\ UNCHANGED <<users, scopes>>

AdminInit ==
  /\ users = FirstUsers
  /\ scopes = FixedScopes \cup FreeScopes
  /\ discoveryMode = DefaultMode

AdminNext ==
  \/ CreateUsers \/ DeleteUsers \/ SetUser
  \/ SetScopes \/ AddScopes \/ RemoveScopes
  \/ SetDiscoveryMode \/ OtherChange

AdminSpec == AdminInit /\ [][AdminNext]_adminVars

-----------------------------------------------------------------------------
(* Properties.                                                             *)

(* Whatever lists were carried out in part: user names are unique and not  *)
(* empty, there are no more users than GetServiceCapabilities announces,   *)
(* every level is a known one, and no fixed scope is ever lost.            *)
AdminConsistent ==
  /\ Cardinality(Names(users)) = Len(users)
  /\ Len(users) <= MaxUsers
  /\ \A u \in Range(users) : u.name \in KnownNames /\ u.level \in UserLevels
  /\ FixedScopes \subseteq scopes
  /\ discoveryMode \in Modes

(* No deletion, not even one list that names every administrator, leaves a *)
(* camera nobody can administer; what can is a SetUser that lowers the     *)
(* last administrator, which keeps all the names.                          *)
NeverDeletesLastAdmin ==
  [][Admins(users) # {} /\ Admins(users') = {} => Names(users') = Names(users)]_users
=============================================================================
