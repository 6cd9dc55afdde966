------------------------------- MODULE IpAlias -------------------------------
(***************************************************************************)
(* The addresses the program puts on a network interface and takes back    *)
(* (src/src/net/IpAlias.cpp), and the dialog that gives them to the        *)
(* cameras (src/src/gui/NetworkDialog.cpp).                                *)
(*                                                                         *)
(* The commands for a batch run one by one; at the first that fails, those *)
(* that are left are joined with && into one script and run once more with *)
(* elevated rights, and the script may stop in the middle.  The system     *)
(* refuses to add an address twice or to delete one that is not there.     *)
(***************************************************************************)
EXTENDS Integers, Sequences, FiniteSets, Functions, SequencesExt

CONSTANTS
  Addresses,   \* addresses of the interface's network, as numbers
  MaxRange,    \* largest range: 254 in the code
  CameraCount, \* cameras of the simulator
  MaxOwned     \* bound: length of the list of owned aliases

ASSUME IpAliasAssumption ==
  /\ Addresses \subseteq Nat \ {0} /\ IsFiniteSet(Addresses)
  /\ MaxRange \in Nat /\ CameraCount \in Nat /\ MaxOwned \in Nat

VARIABLES
  there,     \* addresses the interface has
  ours,      \* Private::owned
  given,     \* bindAddress the dialog gave to each camera, 0 before
  theirs,    \* history: addresses the user put there
  orphans,   \* history: addresses a script that stopped in the middle left there
  muddled,   \* history: owned addresses that went without the program's knowing it
  withdrawn  \* history: addresses that have been taken away

aliasVars == <<there, ours, given, theirs, orphans, muddled, withdrawn>>

\* applyCommands(): what may come of the commands for addresses batch, when the system
\* agrees for those in fit only and once: how many took effect, and how many of
\* them the program knows of.  The first that is refused is the end of it.
Possible(batch, fit) ==
  {o \in [applied : 0 .. Len(batch), done : 0 .. Len(batch)] :
     /\ o.done <= o.applied
     /\ \A i \in 1 .. o.applied :
          batch[i] \in fit /\ \A j \in 1 .. i - 1 : batch[j] # batch[i]}
Missing == Addresses \ there
AllDone(o, batch) == o.done = Len(batch)

PutThere(batch, o) ==
  LET new == ToSet(SubSeq(batch, 1, o.applied)) IN
  /\ there' = there \cup new
  /\ orphans' = orphans \cup ToSet(SubSeq(batch, o.done + 1, o.applied))
  /\ withdrawn' = withdrawn \ new
TakeAway(batch, o) ==
  LET gone == ToSet(SubSeq(batch, 1, o.applied)) IN
  /\ there' = there \ gone
  /\ orphans' = orphans \ gone /\ theirs' = theirs \ gone
  /\ muddled' = muddled \cup (ToSet(SubSeq(batch, o.done + 1, o.applied)) \cap Range(ours))
  /\ withdrawn' = withdrawn \cup gone

-----------------------------------------------------------------------------
\* add(): an address that is there already is used but not owned.
AddAlias(a) ==
  /\ Len(ours) < MaxOwned
  /\ IF a \in there THEN UNCHANGED <<there, ours, orphans, withdrawn>>
     ELSE \E o \in Possible(<<a>>, Missing) :
            /\ PutThere(<<a>>, o)
            /\ ours' = IF AllDone(o, <<a>>) THEN Append(ours, a) ELSE ours
  /\ UNCHANGED <<given, theirs, muddled>>

\* remove(): it does not ask whose the address is.
Disown(a) ==
  IF a \notin Range(ours) THEN UNCHANGED ours
  ELSE \E i \in DOMAIN ours :
         /\ ours[i] = a /\ \A j \in 1 .. i - 1 : ours[j] # a
         /\ ours' = RemoveAt(ours, i)
RemoveAlias(a) ==
  /\ \E o \in Possible(<<a>>, there) :
       /\ TakeAway(<<a>>, o)
       /\ IF AllDone(o, <<a>>) THEN Disown(a) ELSE UNCHANGED ours
  /\ UNCHANGED given

\* addRange(): the addresses batch, which are not there yet, in one batch; those that
\* are known to be done are owned even when it fails.
\* Mutant: a range that fails halfway is not owned at all.
AddRange_OwnsOnSuccess(batch, o) ==
  /\ PutThere(batch, o)
  /\ ours' = IF AllDone(o, batch) THEN ours \o batch ELSE ours
AddRange(batch, o) ==
  /\ PutThere(batch, o)
  /\ ours' = ours \o SubSeq(batch, 1, o.done)

\* assignAddressRange(): cameras get their addresses only when all of it is done.
AssignAddressRange(start, count) ==
  LET range == start .. start + count - 1
      absent == range \cap Missing
  IN
  /\ count \in 1 .. MaxRange /\ range \subseteq Addresses
  /\ Len(ours) + Cardinality(absent) <= MaxOwned
  /\ \E batch \in [1 .. Cardinality(absent) -> absent] :
       /\ \A i, j \in DOMAIN batch : i < j => batch[i] < batch[j]
       /\ \E o \in Possible(batch, Missing) :
            /\ AddRange(batch, o)
            /\ given' = [c \in DOMAIN given |->
                           IF AllDone(o, batch) /\ c <= count THEN start + c - 1 ELSE given[c]]
  /\ UNCHANGED <<theirs, muddled>>

\* releaseAddresses() and removeAllOwned(): the addresses go in the order they
\* came; the cameras are not asked.
RemoveAllOwned ==
  /\ ours # <<>>
  /\ \E o \in Possible(ours, there) :
       /\ TakeAway(ours, o)
       /\ ours' = SubSeq(ours, o.done + 1, Len(ours))
  /\ UNCHANGED given

\* The user at a shell.
UserAdds(a) ==
  /\ a \notin there
  /\ there' = there \cup {a} /\ theirs' = theirs \cup {a}
  /\ muddled' = IF a \in Range(ours) THEN muddled \cup {a} ELSE muddled
  /\ withdrawn' = withdrawn \ {a}
  /\ UNCHANGED <<ours, given, orphans>>
UserRemoves(a) ==
  /\ a \in there
  /\ there' = there \ {a} /\ theirs' = theirs \ {a} /\ orphans' = orphans \ {a}
  /\ muddled' = IF a \in Range(ours) THEN muddled \cup {a} ELSE muddled
  /\ withdrawn' = withdrawn \cup {a}
  /\ UNCHANGED <<ours, given>>

AliasInit ==
  /\ theirs \in SUBSET Addresses /\ there = theirs
  /\ ours = <<>> /\ given = [c \in 1 .. CameraCount |-> 0]
  /\ orphans = {} /\ muddled = {} /\ withdrawn = {}

AliasNext ==
  \/ \E a \in Addresses : AddAlias(a) \/ RemoveAlias(a) \/ UserAdds(a) \/ UserRemoves(a)
  \/ \E start \in Addresses, count \in 1 .. MaxRange : AssignAddressRange(start, count)
  \/ RemoveAllOwned

AliasSpec == AliasInit /\ [][AliasNext]_aliasVars

\* Every address on the interface is accounted for: the user's own, one the
\* program owns and will take back, or one a script left when it stopped in the
\* middle; whatever failed halfway, and in whichever order ranges were added and
\* released.  None is both the program's and another's unless it had gone without
\* the program's knowing it, so that releasing never takes the user's own.
\* And a camera's address was on the interface when it was given (the comments
\* in add() and assignAddressRange()).
AliasesAccounted ==
  /\ there \subseteq theirs \cup orphans \cup Range(ours)
  /\ theirs \cup orphans \subseteq there
  /\ theirs \cap orphans = {}
  /\ (theirs \cup orphans) \cap Range(ours) \subseteq muddled
  /\ \A c \in DOMAIN given : given[c] \in there \cup withdrawn \cup {0}
=============================================================================
