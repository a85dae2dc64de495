----------------------------- MODULE KidAccount -----------------------------
(***************************************************************************)
(* Whose key a kid's money is behind.  A kid's account is derived from the *)
(* server's seed at an index of the family's branch (src/repo-wallet.ts,   *)
(* src/wallet/kid-wallet.ts), picked by birth order or by the kid          *)
(* (src/kid-character.ts); a parent may move the kid to an address of      *)
(* their own wallet (src/kid-address.ts, src/kid-address-connect.ts), and  *)
(* an operator may forget a derived account the chain shows empty          *)
(* (src/kid-repick.ts, src/scripts/migrate-to-parent-custody.ts) or delete *)
(* the seed (src/custody-boot.ts).                                         *)
(*                                                                         *)
(* A derived account is its index, a parent's address a member of Own; one *)
(* household, whose branch is fixed.  Every await of a handler ends a      *)
(* step.  The scripts run while the server is idle.                        *)
(***************************************************************************)
EXTENDS FiniteSetsExt, FiniteSets, Integers

CONSTANTS
  Kids,
  Own,        \* addresses of the parent's own wallet
  Challenges, \* ids of challenges that name a child and an address
  Connects,   \* ids of challenges that name the family
  Calls,      \* requests that may be under way at once
  SetSize,    \* characters in a set (CHOICES_PER_SET)
  MaxSets,    \* sets a kid may ask for (MAX_SETS_PER_CHILD)
  MaxIndex,   \* bound: no index this high is handed out
  MaxFunded,  \* bound: derived accounts with money at one time
  None

Indices == 0 .. MaxIndex - 1

ASSUME KidAccountAssumption ==
  /\ SetSize \in Nat \ {0} /\ MaxSets \in Nat /\ MaxIndex \in Nat /\ MaxFunded \in Nat
  /\ None \notin Indices \cup Own
  /\ None \notin {"derived", "parent"}
  /\ Own \cap Indices = {}
  /\ Challenges \cap Connects = {}

VARIABLES
  index,      \* children.account_index
  address,    \* children.address
  source,     \* children.address_source
  derived,    \* children.derived_address
  mark,       \* the family's high-water mark, plus one
  sets,       \* kid_character_sets: a kid's rows, told apart by where they start
  challenges, \* kid_address_challenges and family_connect_challenges
  calls,      \* requests between two of their awaits
  custody,    \* HATCH_CUSTODY; under "parent" the seed is gone
  inflight,   \* derived accounts a payment is on its way to
  funded      \* derived accounts that hold money on the chain

row == <<index, address, source, derived>>
chain == <<inflight, funded>>
vars == <<row, mark, sets, challenges, calls, custody, chain>>

----------------------------------------------------------------------------
(* The rows. *)

\* An index no kid holds and, by the mark, none ever held.
NextFree == Max({mark} \cup {index[k] + 1 : k \in {j \in Kids : index[j] # None}})

\* The account a kid leaves behind: the derived one, whatever the row shows now.
OldAccount(k) ==
  IF derived[k] # None THEN derived[k]
  ELSE IF source[k] = "derived" THEN address[k] ELSE None

Settled(k) == index[k] # None \/ address[k] # None

Holders(w, k) == {j \in Kids \ {k} : address[j] = w}

\* Slip: the mark follows the last index handed out.
HandOutAsLast(k, i) ==
  /\ index' = [index EXCEPT ![k] = i]
  /\ mark' = i + 1

HandOut(k, i) ==
  /\ index' = [index EXCEPT ![k] = i]
  /\ mark' = Max({mark, i + 1})

Free(c) == calls[c] = None
At(c, place) == calls[c] # None /\ calls[c].at = place
Checking(c) == At(c, "verifying") \/ At(c, "moving")
Becomes(c, call) == calls' = [calls EXCEPT ![c] = call]
Ends(c) == Becomes(c, None)
Deriving(k, i, from) == [at |-> "deriving", kid |-> k, index |-> i, set |-> from]

----------------------------------------------------------------------------
(* Money paths give a kid an account on first touch. *)

Provision(c, k) ==
  /\ Free(c)
  /\ source[k] # "parent"
  /\ address[k] = None \/ index[k] = None
  /\ custody = "server"
  /\ \E i \in {IF index[k] # None THEN index[k] ELSE NextFree} :
       /\ i \in Indices
       /\ HandOut(k, i)
       /\ Becomes(c, Deriving(k, i, None))
  /\ UNCHANGED <<address, source, derived, sets, challenges, custody, chain>>

\* The key is derived: the address is written, whatever the row says by now.
SetChildAddress(c) ==
  /\ At(c, "deriving")
  /\ LET call == calls[c] IN
       /\ address' = [address EXCEPT ![call.kid] = call.index]
       /\ source' = [source EXCEPT ![call.kid] = "derived"]
       /\ derived' = [derived EXCEPT ![call.kid] = call.index]
       /\ sets' = [sets EXCEPT ![call.kid] =
                      {[s EXCEPT !.used = @ \/ s.from = call.set] : s \in @}]
  /\ Ends(c)
  /\ UNCHANGED <<index, mark, challenges, custody, chain>>

\* A payout goes to the address on the row it reads, whatever the row says when
\* it is broadcast and when it lands.
PayKid(k) ==
  /\ address[k] \in Indices
  /\ custody = "parent" \/ index[k] # None
  /\ Cardinality({address[k]} \cup inflight \cup funded) <= MaxFunded
  /\ inflight' = inflight \cup {address[k]}
  /\ UNCHANGED <<row, mark, sets, challenges, calls, custody, funded>>

Lands(i) ==
  /\ i \in inflight
  /\ inflight' = inflight \ {i}
  /\ funded' = funded \cup {i}
  /\ UNCHANGED <<row, mark, sets, challenges, calls, custody>>

Bounces(i) ==
  /\ i \in inflight
  /\ inflight' = inflight \ {i}
  /\ UNCHANGED <<row, mark, sets, challenges, calls, custody, funded>>

\* The kid spends all there is; kidKey signs only for the address it derives.
SpendAll(k) ==
  /\ custody = "server"
  /\ source[k] # "parent"
  /\ index[k] # None /\ address[k] = index[k]
  /\ index[k] \in funded
  /\ funded' = funded \ {index[k]}
  /\ UNCHANGED <<row, mark, sets, challenges, calls, custody, inflight>>

----------------------------------------------------------------------------
(* The kid picks a character: an index among those the server offered. *)

\* The nine keys are derived between the count and the insert; an offer written
\* late is one written early and taken up late.
IssueSet(k) ==
  /\ custody = "server"
  /\ ~ Settled(k)
  /\ LET issued == Cardinality(sets[k])
         base == NextFree + issued * SetSize
     IN /\ issued < MaxSets
        /\ base + SetSize <= MaxIndex
        /\ sets' = [sets EXCEPT ![k] = @ \cup {[from |-> base, used |-> FALSE]}]
  /\ UNCHANGED <<row, mark, challenges, calls, custody, chain>>

\* The gate reads the child; the body is parsed before the row it read is tested.
Choose(c, k) ==
  /\ Free(c)
  /\ custody = "server"
  /\ ~ Settled(k)
  /\ Becomes(c, [at |-> "choosing", kid |-> k])
  /\ UNCHANGED <<row, mark, sets, challenges, custody, chain>>

\* Slip: only the kid's own row is looked at.
MayClaimOwnRow(k, i) == index[k] = None

\* claimKidAccountIndex
MayClaim(k, i) ==
  /\ index[k] = None
  /\ \A j \in Kids : index[j] # i

ClaimCharacter(c, i) ==
  /\ At(c, "choosing")
  /\ LET k == calls[c].kid IN
       \E s \in sets[k] :
         /\ ~ s.used
         /\ i \in s.from .. s.from + SetSize - 1
         /\ MayClaim(k, i)
         /\ HandOut(k, i)
         /\ Becomes(c, Deriving(k, i, s.from))
  /\ UNCHANGED <<address, source, derived, sets, challenges, custody, chain>>

ClaimRefused(c) ==
  /\ At(c, "choosing")
  /\ Ends(c)
  /\ UNCHANGED <<row, mark, sets, challenges, custody, chain>>

----------------------------------------------------------------------------
(* A parent registers addresses of their own: one child by a challenge that *)
(* names it and the address, or several by one that names the family.  A    *)
(* challenge that expires only refuses, as a set does: expiry is left out.  *)

Used == [of |-> "nothing"]

IssueChallenge(h, k, w) ==
  /\ challenges[h] = None
  /\ Holders(w, k) = {}
  /\ challenges' = [challenges EXCEPT ![h] = [of |-> "child", to |-> [j \in {k} |-> w]]]
  /\ UNCHANGED <<row, mark, sets, calls, custody, chain>>

IssueConnectChallenge(h) ==
  /\ challenges[h] = None
  /\ challenges' = [challenges EXCEPT ![h] = [of |-> "family"]]
  /\ UNCHANGED <<row, mark, sets, calls, custody, chain>>

Verifying(h, to) ==
  [at |-> "verifying", challenge |-> h, of |-> challenges[h].of, to |-> to,
   old |-> {OldAccount(k) : k \in DOMAIN to} \ {None}]

\* The rows are read before the body is parsed and the signature verified.
Register(c, h) ==
  /\ Free(c)
  /\ challenges[h] # None /\ challenges[h].of = "child"
  /\ Becomes(c, Verifying(h, challenges[h].to))
  /\ UNCHANGED <<row, mark, sets, challenges, custody, chain>>

Assignments ==
  UNION {{to \in [S -> Own] : \A j, k \in S : to[j] = to[k] => j = k} :
           S \in (SUBSET Kids) \ {{}}}

Connect(c, h) ==
  /\ Free(c)
  /\ challenges[h] # None /\ challenges[h].of = "family"
  /\ \E to \in Assignments :
       /\ \A k \in DOMAIN to : Holders(to[k], k) = {}
       /\ Becomes(c, Verifying(h, to))
  /\ UNCHANGED <<row, mark, sets, challenges, custody, chain>>

\* One child's address is asked after again once its proof is verified.
StillFree(call) ==
  call.of = "child" => \A k \in DOMAIN call.to : Holders(call.to[k], k) = {}

Empty(account) == account \notin funded

\* The old accounts are read one after the other; one with money refuses the lot.
ReadOldBalance(c) ==
  /\ Checking(c)
  /\ At(c, "verifying") => StillFree(calls[c])
  /\ \E a \in calls[c].old :
       /\ Empty(a)
       /\ Becomes(c, [calls[c] EXCEPT !.at = "moving", !.old = @ \ {a}])
  /\ UNCHANGED <<row, mark, sets, challenges, custody, chain>>

Refused(c) ==
  /\ Checking(c)
  /\ At(c, "moving") => calls[c].old # {}
  /\ Ends(c)
  /\ UNCHANGED <<row, mark, sets, challenges, custody, chain>>

\* The unique index over parent-owned addresses.
Clashes(to, others) ==
  \E k \in DOMAIN to : \E j \in others \ {k} : source[j] = "parent" /\ address[j] = to[k]

\* Slip: the coordinates go with the old address.
SetAddressOnly(to) ==
  /\ address' = [k \in Kids |-> IF k \in DOMAIN to THEN to[k] ELSE address[k]]
  /\ source' = [k \in Kids |-> IF k \in DOMAIN to THEN "parent" ELSE source[k]]
  /\ index' = [k \in Kids |-> IF k \in DOMAIN to THEN None ELSE index[k]]
  /\ UNCHANGED derived

SetParentOwnedAddress(to) ==
  /\ address' = [k \in Kids |-> IF k \in DOMAIN to THEN to[k] ELSE address[k]]
  /\ source' = [k \in Kids |-> IF k \in DOMAIN to THEN "parent" ELSE source[k]]
  /\ UNCHANGED <<index, derived>>

ReadyToMove(c) ==
  /\ Checking(c)
  /\ calls[c].old = {}
  /\ At(c, "verifying") => StillFree(calls[c])

UseChallenge(c) ==
  challenges' = [challenges EXCEPT ![calls[c].challenge] = Used]

Move(c) ==
  /\ ReadyToMove(c)
  /\ challenges[calls[c].challenge] # Used
  /\ ~ Clashes(calls[c].to, Kids \ DOMAIN calls[c].to)
  /\ UseChallenge(c)
  /\ SetParentOwnedAddress(calls[c].to)
  /\ Ends(c)
  /\ UNCHANGED <<mark, sets, custody, chain>>

MoveFails(c) ==
  /\ ReadyToMove(c)
  /\ challenges[calls[c].challenge] = Used \/ Clashes(calls[c].to, Kids)
  /\ UseChallenge(c)
  /\ Ends(c)
  /\ UNCHANGED <<row, mark, sets, custody, chain>>

----------------------------------------------------------------------------
(* The operator, with the server idle and nothing under way to the chain. *)

Quiet == (\A c \in Calls : Free(c)) /\ inflight = {}

\* classifyForRepick and applyRepick
ResetForPick(k) ==
  /\ Quiet
  /\ source[k] # "parent"
  /\ OldAccount(k) # None /\ Empty(OldAccount(k))
  /\ Settled(k)
  /\ index' = [index EXCEPT ![k] = None]
  /\ address' = [address EXCEPT ![k] = None]
  /\ source' = [source EXCEPT ![k] = None]
  /\ UNCHANGED <<derived, mark, sets, challenges, calls, custody, chain>>

ClearCoordinates(k) ==
  /\ Quiet
  /\ source[k] = "parent"
  /\ index[k] # None /\ derived[k] # None
  /\ Empty(derived[k])
  /\ index' = [index EXCEPT ![k] = None]
  /\ UNCHANGED <<address, source, derived, mark, sets, challenges, calls, custody, chain>>

\* The seed is deleted and the server started with HATCH_CUSTODY=parent.
GoParental ==
  /\ custody = "server"
  /\ inflight = {}
  /\ \A k \in Kids : index[k] # None =>
       LET a == IF derived[k] # None THEN derived[k] ELSE address[k]
       IN a # None /\ Empty(a)
  /\ custody' = "parent"
  /\ calls' = [c \in Calls |-> None]
  /\ UNCHANGED <<row, mark, sets, challenges, chain>>

Restart ==
  /\ \E c \in Calls : ~ Free(c)
  /\ calls' = [c \in Calls |-> None]
  /\ UNCHANGED <<row, mark, sets, challenges, custody, chain>>

----------------------------------------------------------------------------
Init ==
  /\ index = [k \in Kids |-> None]
  /\ address = [k \in Kids |-> None]
  /\ source = [k \in Kids |-> None]
  /\ derived = [k \in Kids |-> None]
  /\ mark = 0
  /\ sets = [k \in Kids |-> {}]
  /\ challenges = [h \in Challenges \cup Connects |-> None]
  /\ calls = [c \in Calls |-> None]
  /\ custody = "server"
  /\ inflight = {} /\ funded = {}

Next ==
  \/ \E c \in Calls, k \in Kids :
       Provision(c, k) \/ Choose(c, k)
  \/ \E c \in Calls :
       \/ SetChildAddress(c) \/ ClaimRefused(c)
       \/ ReadOldBalance(c) \/ Refused(c) \/ Move(c) \/ MoveFails(c)
  \/ \E c \in Calls, i \in Indices : ClaimCharacter(c, i)
  \/ \E c \in Calls :
       \/ \E h \in Challenges : Register(c, h)
       \/ \E h \in Connects : Connect(c, h)
  \/ \E i \in Indices : Lands(i) \/ Bounces(i)
  \/ \E h \in Challenges, k \in Kids, w \in Own : IssueChallenge(h, k, w)
  \/ \E h \in Connects : IssueConnectChallenge(h)
  \/ \E k \in Kids :
       \/ IssueSet(k) \/ PayKid(k) \/ SpendAll(k)
       \/ ResetForPick(k) \/ ClearCoordinates(k)
  \/ GoParental
  \/ Restart

Spec == Init /\ [][Next]_vars

----------------------------------------------------------------------------
Accounts == Indices \cup Own

ChallengeRecords == {Used} \cup [of : {"family"}] \cup [of : {"child"}, to : Assignments]

CallRecords ==
  [at : {"deriving"}, kid : Kids, index : Indices, set : Indices \cup {None}]
    \cup [at : {"choosing"}, kid : Kids]
    \cup [at : {"verifying", "moving"}, challenge : Challenges \cup Connects,
          of : {"child", "family"}, to : Assignments, old : SUBSET Indices]

\* Rows and requests have their shape, and the mark is above every index a row
\* holds or ever held: the index the next kid is given is a fresh one.
TypeOK ==
  /\ index \in [Kids -> Indices \cup {None}]
  /\ address \in [Kids -> Accounts \cup {None}]
  /\ source \in [Kids -> {"derived", "parent", None}]
  /\ derived \in [Kids -> Indices \cup {None}]
  /\ mark \in 0 .. MaxIndex
  /\ \A k \in Kids : {index[k], derived[k]} \subseteq 0 .. mark - 1 \cup {None}
  /\ sets \in [Kids -> SUBSET [from : Indices, used : BOOLEAN]]
  /\ challenges \in [Challenges \cup Connects -> ChallengeRecords \cup {None}]
  /\ calls \in [Calls -> CallRecords \cup {None}]
  /\ custody \in {"server", "parent"}
  /\ inflight \subseteq Indices /\ funded \subseteq Indices

\* An account is one kid's, and the key to it is the one the kid's row derives:
\* however picks, payouts and registrations race, money for one never shows at
\* another, and kidKey never refuses to sign (kid_key_address_mismatch).
OneKidPerAccount ==
  \A k \in Kids :
    /\ source[k] = "derived" => address[k] = index[k]
    /\ \A j \in Kids \ {k} :
         /\ address[j] # None => address[j] # address[k]
         /\ index[j] # None => index[j] # index[k]

\* The index of an account that holds money, or is being paid, stays on a row: a
\* pick, a registration, a reset and a migration never forget the way to its key.
MoneyIsReachable == \A i \in inflight \cup funded : \E k \in Kids : index[k] = i
=============================================================================
