---------------------------- MODULE PeopleProofs ----------------------------
(***************************************************************************)
(* What is proved of Membership, Accounts and Keys, for any number of      *)
(* users, rows, addresses, links, keys and overlapping requests.           *)
(*                                                                         *)
(* Membership: where every commit rested on current reads, an organization *)
(* has an owner and no member twice, and owners are made and unmade only by*)
(* those who may.  A commit makes every other open request on its          *)
(* organization stale, and touches no row of another.  So what a request   *)
(* that is still fresh has read holds at its commit.                       *)
(*                                                                         *)
(* Accounts: an address has one account, one live link, and only its owner *)
(* signs in to it.  The same argument, with an address for an organization.*)
(*                                                                         *)
(* Keys: the limit holds in every window, and a secret has one meaning or  *)
(* none.  What a sweep drops is older than any window that can still count *)
(* it, and every secret is minted after all those that were replaced.      *)
(***************************************************************************)
EXTENDS MCPeople, FiniteSetTheorems, TLAPS

-----------------------------------------------------------------------------
(* Membership.                                                             *)

(* The inductive invariant.                                                *)

(* Rows and invites are of organizations that exist.                       *)
Housed ==
    /\ \A r \in Rows : row[r] # None => row[r].org \in made
    /\ \A i \in Invites : invite[i] # None => invite[i].org \in made

(* The rows that a unit of work updates and deletes.                       *)
Touched(w) == w.drop \cup {p[1] : p \in w.set}

(* Whatever has happened since it was read, a unit of work is of one       *)
(* organization: an id it mentions has not gone to a row of another.       *)
Within(o, w) ==
    /\ o \in made
    /\ \A a \in w.add \cup w.offer : a.org = o
    /\ \A r \in Touched(w) : row[r] # None => row[r].org = o
    /\ \A i \in w.accept \cup w.withdraw : invite[i] # None => invite[i].org = o

(* What the checks of a request leave true, and its commit needs: those it *)
(* adds are no members, an owner remains, and it was entitled to do it.    *)
AddsNew(o, w) == \A a \in w.add : Of(o, a.user) = {}
KeepsOwner(o, w) == \E r \in RowsOf(o) \ w.drop : Written(w, r).role = "owner"
Entitled(u, o, w) ==
    \/ u \in Owners(o) \cup Superadmins
    \/ /\ w.set = {} /\ \A r \in w.drop : r \notin OwnerRows(o)
       /\ \A a \in w.add : a.role = "owner" =>
             \E i \in w.accept : invite[i] # None /\ invite[i].role = "owner"
       /\ \A f \in w.offer : f.role # "owner"
Sound(u, o, w) == AddsNew(o, w) /\ KeepsOwner(o, w) /\ Entitled(u, o, w)

RequestOK(e) ==
    /\ Within(e.org, e.write)
    /\ e.fresh /\ e.org \notin outdated => Sound(e.by, e.org, e.write)
OpenOK == \A q \in Requests : \A e \in {open[q]} \ {None} : RequestOK(e)

(* An organization has an owner, and each of its users one row.            *)
InOrder(o) ==
    /\ OwnerRows(o) # {}
    /\ \A r, s \in RowsOf(o) : row[r].user = row[s].user => r = s

Inv ==
    /\ TypeOK /\ Housed /\ OpenOK
    /\ \A o \in made \ outdated : InOrder(o)

LEMMA InitInv == Init => Inv
BY MembershipAssumption
   DEF Init, Inv, TypeOK, Housed, OpenOK, InOrder

-----------------------------------------------------------------------------
(* Reading.                                                                *)

LEMMA Types ==
    ASSUME Inv
    PROVE  /\ known \subseteq Users /\ made \subseteq Orgs /\ outdated \subseteq made
           /\ \A r \in Rows : row[r] # None =>
                 /\ row[r] \in Membership /\ row[r].org \in made
                 /\ row[r].user \in Users /\ row[r].role \in Roles
           /\ \A i \in Invites : invite[i] # None =>
                 /\ invite[i] \in Invite /\ invite[i].org \in made
                 /\ invite[i].user \in Users /\ invite[i].role \in Roles
           /\ \A q \in Requests : open[q] # None =>
                 /\ open[q] \in Request /\ open[q].org \in made /\ open[q].by \in Users
                 /\ open[q].write \in Write
           /\ now \in Nat
BY MembershipAssumption DEF Inv, TypeOK, Housed, OpenOK, RequestOK, Within, Membership, Invite, Request

\* Two owners at least are needed for one not to be the sole one.
LEMMA AnotherOwner ==
    ASSUME NEW o, NEW r \in OwnerRows(o), ~SoleOwner(o)
    PROVE  \E s \in OwnerRows(o) : s # r
<1> SUFFICES ASSUME \A s \in OwnerRows(o) : s = r PROVE FALSE
  OBVIOUS
<1>1. OwnerRows(o) = {r}
  OBVIOUS
<1>2. Cardinality({r}) = 1
  BY FS_Singleton
<1> QED BY <1>1, <1>2 DEF SoleOwner

LEMMA OneAtMost ==
    ASSUME NEW S, \A x, y \in S : x = y
    PROVE  Cardinality(S) <= 1
<1>1. CASE S = {}
  <2>1. Cardinality({}) = 0
    BY FS_EmptySet
  <2> QED BY <1>1, <2>1
<1>2. CASE S # {}
  <2>1. PICK x \in S : S = {x}
    BY <1>2
  <2>2. Cardinality({x}) = 1
    BY FS_Singleton
  <2> QED BY <2>1, <2>2
<1> QED BY <1>1, <1>2

\* Someone who passes as an owner is one, or a superadmin.
LEMMA OwnerPasses ==
    ASSUME NEW u, NEW o, Passes(u, o, {"owner"})
    PROVE  u \in Owners(o) \cup Superadmins
BY DEF Passes, Of, Owners, OwnerRows

-----------------------------------------------------------------------------
(* Steps that leave an organization's rows alone leave what is known of it.*)

\* The rows of the organization, and the invites it still has, are as they were.
Untouched(o) ==
    /\ RowsOf(o)' = RowsOf(o)
    /\ \A r \in RowsOf(o) : row'[r] = row[r]
    /\ \A i \in Invites : invite[i] # None /\ invite[i].org = o =>
          invite'[i] # None /\ invite'[i].role = invite[i].role

LEMMA InOrderKept ==
    ASSUME NEW o, Untouched(o), InOrder(o)
    PROVE  InOrder(o)'
<1>1. OwnerRows(o)' = OwnerRows(o)
  BY DEF Untouched, OwnerRows
<1> QED BY <1>1 DEF Untouched, InOrder

LEMMA SoundKept ==
    ASSUME NEW u, NEW o, NEW w \in Write, Untouched(o), Sound(u, o, w),
           \A i \in w.accept : invite[i] # None => invite[i].org = o
    PROVE  Sound(u, o, w)'
<1>1. OwnerRows(o)' = OwnerRows(o) /\ Owners(o)' = Owners(o)
  BY DEF Untouched, OwnerRows, Owners
<1>2. \A v : Of(o, v)' = Of(o, v)
  BY DEF Untouched, Of
<1>3. \A r \in RowsOf(o) : Written(w, r)' = Written(w, r)
  BY DEF Untouched, Written
<1>4. AddsNew(o, w)'
  BY <1>2 DEF Sound, AddsNew
<1>5. KeepsOwner(o, w)'
  BY <1>3 DEF Sound, KeepsOwner, Untouched
<1>6. w.accept \subseteq Invites
  BY DEF Write
<1>7. Entitled(u, o, w)'
  <2>1. CASE u \in Owners(o) \cup Superadmins
    BY <1>1, <2>1 DEF Entitled
  <2>2. CASE u \notin Owners(o) \cup Superadmins
    <3>1. /\ w.set = {} /\ \A r \in w.drop : r \notin OwnerRows(o)
          /\ \A a \in w.add : a.role = "owner" =>
                \E i \in w.accept : invite[i] # None /\ invite[i].role = "owner"
          /\ \A f \in w.offer : f.role # "owner"
      BY <2>2 DEF Sound, Entitled
    <3>2. \A i \in w.accept : invite[i] # None /\ invite[i].role = "owner"
             => invite'[i] # None /\ invite'[i].role = "owner"
      BY <1>6 DEF Untouched
    <3> QED BY <1>1, <3>1, <3>2 DEF Entitled
  <2> QED BY <2>1, <2>2
<1> QED BY <1>4, <1>5, <1>7 DEF Sound

LEMMA WithinKept ==
    ASSUME NEW o, NEW w, Within(o, w), made \subseteq made',
           \A r \in Touched(w) : row'[r] # None => row[r] # None /\ row'[r].org = row[r].org,
           \A i \in w.accept \cup w.withdraw :
               invite'[i] # None => invite[i] # None /\ invite'[i].org = invite[i].org
    PROVE  Within(o, w)'
BY DEF Within, Touched

-----------------------------------------------------------------------------
(* A request begins: its checks have just been made.                       *)

LEMMA BeginInv ==
    ASSUME Inv, NEW u \in Users, NEW o \in made, NEW w \in Write, Begin(u, o, w),
           Within(o, w), o \notin outdated => Sound(u, o, w)
    PROVE  Inv'
<1> DEFINE rec == [by |-> u, org |-> o, fresh |-> TRUE, write |-> w]
<1>1. PICK q \in Requests : open' = [open EXCEPT ![q] = rec]
  BY DEF Begin
<1>2. UNCHANGED <<known, made, row, invite, now, outdated>>
  BY DEF Begin
<1>3. rec \in Request
  BY DEF Inv, TypeOK, Request
<1>4. TypeOK'
  BY <1>1, <1>2, <1>3 DEF Inv, TypeOK
<1>5. Housed'
  BY <1>2 DEF Inv, Housed
<1>6. \A p \in Requests : open'[p] = IF p = q THEN rec ELSE open[p]
  BY <1>1 DEF Inv, TypeOK
<1>7. \A x : Untouched(x)
  BY <1>2 DEF Untouched, RowsOf
<1>8. \A x \in made' \ outdated' : InOrder(x)'
  BY <1>2, <1>7, InOrderKept DEF Inv
<1>9. ASSUME NEW v, NEW x, NEW y \in Write, Within(x, y)
      PROVE  Within(x, y)' /\ (Sound(v, x, y) => Sound(v, x, y)')
  <2>1. Within(x, y)'
    BY <1>2, <1>9, WithinKept
  <2>2. \A i \in y.accept : invite[i] # None => invite[i].org = x
    BY <1>9 DEF Within
  <2> QED BY <1>7, <2>1, <2>2, SoundKept
<1>10. OpenOK'
  <2> SUFFICES ASSUME NEW p \in Requests, NEW e \in {open'[p]} \ {None} PROVE RequestOK(e)'
    BY DEF OpenOK
  <2>1. CASE e = rec
    <3>1. rec.by = u /\ rec.org = o /\ rec.write = w
      OBVIOUS
    <3> HIDE DEF rec
    <3>2. Within(o, w)' /\ (Sound(u, o, w) => Sound(u, o, w)')
      BY <1>9
    <3> QED BY <1>2, <2>1, <3>1, <3>2 DEF RequestOK
  <2>2. CASE e = open[p]
    <3>1. RequestOK(e) /\ e.write \in Write
      BY <2>2, Types DEF Inv, OpenOK
    <3>2. /\ Within(e.org, e.write)'
          /\ Sound(e.by, e.org, e.write) => Sound(e.by, e.org, e.write)'
      BY <1>9, <3>1 DEF RequestOK
    <3> QED BY <1>2, <3>1, <3>2 DEF RequestOK
  <2> QED BY <1>6, <2>1, <2>2
<1> QED BY <1>4, <1>5, <1>8, <1>10 DEF Inv

-----------------------------------------------------------------------------
(* The handlers.                                                           *)

\* A unit of work that neither updates nor deletes rows leaves the owners.
LEMMA OwnersStay ==
    ASSUME Inv, NEW o \in made \ outdated, NEW w, w.set = {}, w.drop \cap OwnerRows(o) = {}
    PROVE  KeepsOwner(o, w)
<1>1. PICK r \in OwnerRows(o) : TRUE
  BY DEF Inv, InOrder
<1>2. r \in RowsOf(o) \ w.drop /\ Written(w, r) = row[r] /\ row[r].role = "owner"
  BY <1>1 DEF OwnerRows, Written
<1> QED BY <1>2 DEF KeepsOwner

LEMMA InviteMemberInv ==
    ASSUME Inv, NEW u \in Users, NEW o \in made, NEW v \in Users, NEW role \in Asked,
           InviteMember(u, o, v, role)
    PROVE  Inv'
<1>1. role \in Roles /\ MayConfer(u, o, role) /\ o \in Orgs
  BY Types DEF InviteMember, ValidRole
<1>2. role = "owner" => u \in Owners(o) \cup Superadmins
  BY <1>1, OwnerPasses DEF MayConfer
<1>3. CASE v \in known
  <2> DEFINE a == [org |-> o, user |-> v, role |-> role]
             w == [NoWrite EXCEPT !.add = {a}]
  <2>1. Of(o, v) = {} /\ Begin(u, o, w)
    BY <1>3 DEF InviteMember
  <2>2. a \in Membership /\ a.org = o /\ a.user = v /\ a.role = role
    BY <1>1 DEF Membership
  <2> HIDE DEF a
  <2>3. /\ w.add = {a} /\ w.set = {} /\ w.drop = {} /\ w.offer = {} /\ w.accept = {}
        /\ w.withdraw = {} /\ w \in Write
    BY <2>2 DEF NoWrite, Write
  <2> HIDE DEF w
  <2>4. Within(o, w)
    BY <2>2, <2>3 DEF Within, Touched
  <2>5. AddsNew(o, w)
    BY <2>1, <2>2, <2>3 DEF AddsNew
  <2>6. Entitled(u, o, w)
    BY <1>2, <2>2, <2>3 DEF Entitled
  <2>7. o \notin outdated => Sound(u, o, w)
    BY <2>3, <2>5, <2>6, OwnersStay DEF Sound
  <2> QED BY <2>1, <2>3, <2>4, <2>7, BeginInv
<1>4. CASE v \notin known
  <2> DEFINE f == [org |-> o, user |-> v, role |-> role, expires |-> now + Expiry, accepted |-> FALSE]
             w == [NoWrite EXCEPT !.offer = {f}]
  <2>1. Begin(u, o, w)
    BY <1>4 DEF InviteMember
  <2>2. f \in Invite /\ f.org = o /\ f.role = role
    BY <1>1, Types, MembershipAssumption DEF Invite
  <2> HIDE DEF f
  <2>3. /\ w.add = {} /\ w.set = {} /\ w.drop = {} /\ w.offer = {f} /\ w.accept = {}
        /\ w.withdraw = {} /\ w \in Write
    BY <2>2 DEF NoWrite, Write
  <2> HIDE DEF w
  <2>4. Within(o, w)
    BY <2>2, <2>3 DEF Within, Touched
  <2>5. AddsNew(o, w) /\ Entitled(u, o, w)
    BY <1>2, <2>2, <2>3 DEF AddsNew, Entitled
  <2>6. o \notin outdated => Sound(u, o, w)
    BY <2>3, <2>5, OwnersStay DEF Sound
  <2> QED BY <2>1, <2>3, <2>4, <2>6, BeginInv
<1> QED BY <1>3, <1>4

LEMMA RevokeInviteInv ==
    ASSUME Inv, NEW u \in Users, NEW i \in Invites, RevokeInvite(u, i)
    PROVE  Inv'
<1> DEFINE o == invite[i].org
           w == [NoWrite EXCEPT !.withdraw = {i}]
<1>1. Begin(u, o, w) /\ invite[i] # None
  BY DEF RevokeInvite, Pending
<1>2. o \in made
  BY <1>1, Types
<1>3. /\ w.add = {} /\ w.set = {} /\ w.drop = {} /\ w.offer = {} /\ w.accept = {}
      /\ w.withdraw = {i} /\ w \in Write
  BY DEF NoWrite, Write
<1> HIDE DEF w
<1>4. Within(o, w)
  BY <1>2, <1>3 DEF Within, Touched
<1> HIDE DEF o
<1>5. AddsNew(o, w) /\ Entitled(u, o, w)
  BY <1>3 DEF AddsNew, Entitled
<1>6. o \notin outdated => Sound(u, o, w)
  BY <1>2, <1>3, <1>5, OwnersStay DEF Sound
<1> QED BY <1>1, <1>2, <1>3, <1>4, <1>6, BeginInv

LEMMA AcceptInviteInv ==
    ASSUME Inv, NEW u \in Users, NEW i \in Invites, AcceptInvite(u, i)
    PROVE  Inv'
<1> DEFINE o == invite[i].org
           role == invite[i].role
           A == Joins(o, u, role)
           w == [NoWrite EXCEPT !.accept = {i}, !.add = A]
<1>1. Begin(u, o, w) /\ invite[i] # None
  BY DEF AcceptInvite, Pending
<1>2. o \in made /\ o \in Orgs /\ role \in Roles
  BY <1>1, Types
<1>3. /\ A \in SUBSET Membership
      /\ \A a \in A : a.org = o /\ a.user = u /\ a.role = role /\ Of(o, u) = {}
  BY <1>2 DEF Joins, Membership
<1> HIDE DEF A
<1>4. /\ w.add = A /\ w.set = {} /\ w.drop = {} /\ w.offer = {} /\ w.accept = {i}
      /\ w.withdraw = {} /\ w \in Write
  BY <1>3 DEF NoWrite, Write
<1> HIDE DEF w
<1>5. Within(o, w)
  BY <1>2, <1>3, <1>4 DEF Within, Touched
<1>6. AddsNew(o, w) /\ Entitled(u, o, w)
  BY <1>1, <1>3, <1>4 DEF AddsNew, Entitled
<1> HIDE DEF o, role
<1>7. o \notin outdated => Sound(u, o, w)
  BY <1>2, <1>4, <1>6, OwnersStay DEF Sound
<1> QED BY <1>1, <1>2, <1>4, <1>5, <1>7, BeginInv

\* A row that is deleted, unless it is the sole owner's, leaves an owner.
LEMMA DropKeepsOwner ==
    ASSUME Inv, NEW o \in made \ outdated, NEW r \in RowsOf(o), NEW w, w.set = {}, w.drop = {r},
           ~(row[r].role = "owner" /\ SoleOwner(o))
    PROVE  KeepsOwner(o, w)
<1>1. CASE r \notin OwnerRows(o)
  <2>1. w.drop \cap OwnerRows(o) = {}
    BY <1>1
  <2> QED BY <2>1, OwnersStay
<1>2. CASE r \in OwnerRows(o)
  <2>1. row[r].role = "owner" /\ ~SoleOwner(o)
    BY <1>2 DEF OwnerRows
  <2>2. PICK s \in OwnerRows(o) : s # r
    BY <1>2, <2>1, AnotherOwner
  <2>3. s \in RowsOf(o) \ w.drop /\ Written(w, s) = row[s] /\ row[s].role = "owner"
    BY <2>2 DEF OwnerRows, Written
  <2> QED BY <2>3 DEF KeepsOwner
<1> QED BY <1>1, <1>2

LEMMA DropInv ==
    ASSUME Inv, NEW u \in Users, NEW o \in made, NEW r \in RowsOf(o),
           ~(row[r].role = "owner" /\ SoleOwner(o)),
           o \notin outdated /\ row[r].role = "owner" => u \in Owners(o) \cup Superadmins,
           Begin(u, o, [NoWrite EXCEPT !.drop = {r}])
    PROVE  Inv'
<1> DEFINE w == [NoWrite EXCEPT !.drop = {r}]
<1>1. r \in Rows /\ row[r].org = o
  BY DEF RowsOf
<1>2. /\ w.add = {} /\ w.set = {} /\ w.drop = {r} /\ w.offer = {} /\ w.accept = {}
      /\ w.withdraw = {} /\ w \in Write
  BY <1>1 DEF NoWrite, Write
<1>3. Begin(u, o, w)
  OBVIOUS
<1> HIDE DEF w
<1>4. Within(o, w)
  BY <1>1, <1>2 DEF Within, Touched
<1>5. ASSUME o \notin outdated PROVE Sound(u, o, w)
  <2>1. KeepsOwner(o, w)
    BY <1>2, <1>5, DropKeepsOwner
  <2>2. AddsNew(o, w)
    BY <1>2 DEF AddsNew
  <2>3. Entitled(u, o, w)
    BY <1>2, <1>5 DEF Entitled, OwnerRows
  <2> QED BY <2>1, <2>2, <2>3 DEF Sound
<1> QED BY <1>2, <1>3, <1>4, <1>5, BeginInv

LEMMA LeaveOrganizationInv ==
    ASSUME Inv, NEW u \in Users, NEW o \in made, LeaveOrganization(u, o)
    PROVE  Inv'
<1>1. PICK r \in Of(o, u) : /\ ~(row[r].role = "owner" /\ SoleOwner(o))
                            /\ Begin(u, o, [NoWrite EXCEPT !.drop = {r}])
  BY DEF LeaveOrganization
<1>2. r \in RowsOf(o) /\ (row[r].role = "owner" => u \in Owners(o))
  BY DEF Of, Owners, OwnerRows
<1> QED BY <1>1, <1>2, DropInv

\* An admin of an organization in order has no other row there that is not one.
LEMMA RemoveMemberInv ==
    ASSUME Inv, NEW u \in Users, NEW o \in made, NEW v \in Users, RemoveMember(u, o, v)
    PROVE  Inv'
<1>1. PICK r \in Of(o, v) : /\ MayRemove(u, o, r)
                            /\ Begin(u, o, [NoWrite EXCEPT !.drop = {r}])
  BY DEF RemoveMember
<1>2. r \in RowsOf(o)
  BY DEF Of
<1>3. ASSUME o \notin outdated, row[r].role = "owner", u \notin Superadmins
      PROVE  u \in Owners(o)
  <2>1. PICK c \in Of(o, u) : row[c].role \in {"owner", "admin"}
    BY <1>1, <1>3 DEF MayRemove, Passes
  <2>2. PICK d \in Of(o, u) : row[d].role # "admin"
    BY <1>1, <1>3, <2>1 DEF MayRemove
  <2>3. c = d
    BY <1>3 DEF Inv, InOrder, Of
  <2>4. row[c].role = "owner"
    BY <2>1, <2>2, <2>3
  <2> QED BY <2>4 DEF Owners, OwnerRows, Of
<1> QED BY <1>1, <1>2, <1>3, DropInv DEF MayRemove

\* An updated row has its new role, and nothing else of it changes.
LEMMA UpdatedRow ==
    ASSUME NEW w, NEW r \in Rows, NEW role, <<r, role>> \in w.set,
           \A p \in w.set : p[1] = r => p = <<r, role>>, row[r] \in Membership
    PROVE  /\ Written(w, r).role = role
           /\ Written(w, r).org = row[r].org /\ Written(w, r).user = row[r].user
<1> DEFINE p == CHOOSE p \in w.set : p[1] = r
<1>1. \E q \in w.set : q[1] = r
  <2>1. <<r, role>>[1] = r
    OBVIOUS
  <2> QED BY <2>1
<1>2. p \in w.set /\ p[1] = r
  BY <1>1
<1>3. p = <<r, role>>
  BY <1>2
<1>4. Written(w, r) = [row[r] EXCEPT !.role = p[2]]
  BY <1>1 DEF Written
<1> HIDE DEF p
<1>5. Written(w, r) = [row[r] EXCEPT !.role = role]
  BY <1>3, <1>4
<1> QED BY <1>5 DEF Membership

\* The units of work that only update.
LEMMA SetInv ==
    ASSUME Inv, NEW u \in Users, NEW o \in made, NEW S \in SUBSET (RowsOf(o) \X Roles),
           Begin(u, o, [NoWrite EXCEPT !.set = S]),
           o \notin outdated => u \in Owners(o) \cup Superadmins,
           o \notin outdated =>
               \E r \in RowsOf(o) : IF \E p \in S : p[1] = r
                                    THEN <<r, "owner">> \in S /\ \A p \in S : p[1] = r => p = <<r, "owner">>
                                    ELSE row[r].role = "owner"
    PROVE  Inv'
<1> DEFINE w == [NoWrite EXCEPT !.set = S]
<1>1. \A r \in RowsOf(o) : r \in Rows /\ row[r] # None /\ row[r].org = o
  BY DEF RowsOf
<1>2. \A p \in S : p[1] \in RowsOf(o)
  OBVIOUS
<1>3. /\ w.add = {} /\ w.set = S /\ w.drop = {} /\ w.offer = {} /\ w.accept = {}
      /\ w.withdraw = {} /\ w \in Write
  <2>1. S \in SUBSET (Rows \X Roles)
    BY <1>1
  <2> QED BY <2>1 DEF NoWrite, Write
<1>4. Begin(u, o, w)
  OBVIOUS
<1> HIDE DEF w
<1>5. Within(o, w)
  BY <1>1, <1>2, <1>3 DEF Within, Touched
<1>6. ASSUME o \notin outdated PROVE Sound(u, o, w)
  <2>1. PICK r \in RowsOf(o) : IF \E p \in S : p[1] = r
                               THEN <<r, "owner">> \in S /\ \A p \in S : p[1] = r => p = <<r, "owner">>
                               ELSE row[r].role = "owner"
    BY <1>6
  <2>2. row[r] \in Membership /\ r \in Rows
    BY <1>1, Types
  <2>3. Written(w, r).role = "owner"
    <3>1. CASE \E p \in S : p[1] = r
      BY <1>3, <2>1, <2>2, <3>1, UpdatedRow
    <3>2. CASE ~\E p \in S : p[1] = r
      <4>1. Written(w, r) = row[r]
        BY <1>3, <3>2 DEF Written
      <4> QED BY <2>1, <3>2, <4>1
    <3> QED BY <3>1, <3>2
  <2>4. KeepsOwner(o, w)
    BY <1>3, <2>3 DEF KeepsOwner
  <2>5. AddsNew(o, w) /\ Entitled(u, o, w)
    BY <1>3, <1>6 DEF AddsNew, Entitled
  <2> QED BY <2>4, <2>5 DEF Sound
<1> QED BY <1>3, <1>4, <1>5, <1>6, BeginInv

LEMMA UpdateMemberRoleInv ==
    ASSUME Inv, NEW u \in Users, NEW o \in made, NEW v \in Users, NEW role \in Asked,
           UpdateMemberRole(u, o, v, role)
    PROVE  Inv'
<1>1. PICK r \in Of(o, v) : /\ row[r].role # role /\ ~(row[r].role = "owner" /\ SoleOwner(o))
                            /\ Begin(u, o, [NoWrite EXCEPT !.set = {<<r, role>>}])
  BY DEF UpdateMemberRole
<1>2. r \in RowsOf(o) /\ role \in Roles
  BY DEF UpdateMemberRole, ValidRole, Of
<1>3. u \in Owners(o) \cup Superadmins
  BY OwnerPasses DEF UpdateMemberRole
<1> DEFINE S == {<<r, role>>}
<1>4. S \in SUBSET (RowsOf(o) \X Roles)
  BY <1>2
<1>5. ASSUME o \notin outdated
      PROVE  \E s \in RowsOf(o) : IF \E p \in S : p[1] = s
                                  THEN <<s, "owner">> \in S /\ \A p \in S : p[1] = s => p = <<s, "owner">>
                                  ELSE row[s].role = "owner"
  <2>1. CASE role = "owner"
    BY <1>2, <2>1
  <2>2. CASE role # "owner"
    <3>1. PICK s \in OwnerRows(o) : s # r
      <4>1. PICK x \in OwnerRows(o) : TRUE
        BY <1>5 DEF Inv, InOrder
      <4>2. CASE x # r
        BY <4>2
      <4>3. CASE x = r
        BY <1>1, <4>1, <4>3, AnotherOwner DEF OwnerRows
      <4> QED BY <4>2, <4>3
    <3>2. s \in RowsOf(o) /\ row[s].role = "owner" /\ ~\E p \in S : p[1] = s
      BY <3>1 DEF OwnerRows
    <3> QED BY <3>2
  <2> QED BY <2>1, <2>2
<1> QED BY <1>1, <1>3, <1>4, <1>5, SetInv

LEMMA TransferOwnershipInv ==
    ASSUME Inv, NEW u \in Users, NEW o \in made, NEW v \in Users, TransferOwnership(u, o, v)
    PROVE  Inv'
<1>1. PICK c \in Of(o, u), t \in Of(o, v) :
        /\ u # v /\ row[c].role = "owner"
        /\ Begin(u, o, [NoWrite EXCEPT !.set =
               {<<c, "admin">>} \cup {p \in {<<t, "owner">>} : row[t].role # "owner"}])
  BY DEF TransferOwnership
<1>2. c \in RowsOf(o) /\ t \in RowsOf(o) /\ c # t /\ u \in Owners(o)
  BY <1>1 DEF Of, Owners, OwnerRows
<1> DEFINE S == {<<c, "admin">>} \cup {p \in {<<t, "owner">>} : row[t].role # "owner"}
<1>3. S \in SUBSET (RowsOf(o) \X Roles)
  BY <1>2 DEF Roles
<1>4. IF \E p \in S : p[1] = t
      THEN <<t, "owner">> \in S /\ \A p \in S : p[1] = t => p = <<t, "owner">>
      ELSE row[t].role = "owner"
  <2>1. CASE row[t].role = "owner"
    <3>1. S = {<<c, "admin">>}
      BY <2>1
    <3> QED BY <1>2, <2>1, <3>1
  <2>2. CASE row[t].role # "owner"
    <3>1. S = {<<c, "admin">>, <<t, "owner">>}
      BY <2>2
    <3> HIDE DEF S
    <3>2. \A p \in S : p[1] = t => p = <<t, "owner">>
      BY <1>2, <3>1
    <3>3. <<t, "owner">> \in S /\ <<t, "owner">>[1] = t
      BY <3>1
    <3> QED BY <3>2, <3>3
  <2> QED BY <2>1, <2>2
<1>5. Begin(u, o, [NoWrite EXCEPT !.set = S])
  BY <1>1
<1> HIDE DEF S
<1> QED BY <1>2, <1>3, <1>4, <1>5, SetInv

-----------------------------------------------------------------------------
(* A new organization, and the clock.                                      *)

\* An id that is free is of no row and mentioned by no request.
LEMMA FreeIsUnknown ==
    ASSUME NEW r \in NewId(FreeRows)
    PROVE  /\ r \in Rows /\ row[r] = None
           /\ \A q \in Requests : open[q] # None => r \notin Touched(open[q].write)
<1>1. r \in FreeRows
  BY DEF NewId
<1> QED BY <1>1 DEF FreeRows, Mentioned, Touched

\* A step that writes no row and no invite, and at most ends requests.
LEMMA NothingRead ==
    ASSUME Inv, UNCHANGED <<made, row, invite, outdated>>,
           open' \in [Requests -> Request \cup {None}],
           \A q \in Requests : open'[q] \in {open[q], None},
           known' \subseteq Users, now' \in 0..MaxTime
    PROVE  Inv'
<1>1. TypeOK' /\ Housed'
  BY DEF Inv, TypeOK, Housed
<1>2. \A x : Untouched(x)
  BY DEF Untouched, RowsOf
<1>3. \A x \in made' \ outdated' : InOrder(x)'
  BY <1>2, InOrderKept DEF Inv
<1>4. OpenOK'
  <2> SUFFICES ASSUME NEW q \in Requests, NEW e \in {open'[q]} \ {None} PROVE RequestOK(e)'
    BY DEF OpenOK
  <2>1. RequestOK(e) /\ e.write \in Write
    BY Types DEF Inv, OpenOK
  <2>2. Within(e.org, e.write)'
    BY <2>1, WithinKept DEF RequestOK
  <2>3. \A i \in e.write.accept : invite[i] # None => invite[i].org = e.org
    BY <2>1 DEF RequestOK, Within
  <2>4. Sound(e.by, e.org, e.write) => Sound(e.by, e.org, e.write)'
    BY <1>2, <2>1, <2>3, SoundKept
  <2> QED BY <2>1, <2>2, <2>4 DEF RequestOK
<1> QED BY <1>1, <1>3, <1>4 DEF Inv

LEMMA FoundInv ==
    ASSUME Inv, NEW u \in Users, Found(u), known' \subseteq Users
    PROVE  Inv'
<1>1. UNCHANGED <<invite, open, now, outdated>>
  BY DEF Found
<1>2. CASE UNCHANGED <<made, row>>
  BY <1>1, <1>2, NothingRead DEF Inv, TypeOK
<1>3. ASSUME NEW o \in Orgs \ made, NEW r \in NewId(FreeRows),
             made' = made \cup {o}, row' = [row EXCEPT ![r] = [org |-> o, user |-> u, role |-> "owner"]]
      PROVE  Inv'
  <2> DEFINE new == [org |-> o, user |-> u, role |-> "owner"]
  <2>1. /\ r \in Rows /\ row[r] = None
        /\ \A q \in Requests : open[q] # None => r \notin Touched(open[q].write)
    BY FreeIsUnknown
  <2>2. new \in Membership /\ new # None /\ new.org = o /\ new.user = u /\ new.role = "owner"
    BY MembershipAssumption DEF Membership, Roles
  <2> HIDE DEF new
  <2>3. \A x \in Rows : row'[x] = IF x = r THEN new ELSE row[x]
    BY <1>3, <2>1 DEF new, Inv, TypeOK
  <2>4. TypeOK'
    BY <1>1, <1>3, <2>1, <2>2 DEF new, Inv, TypeOK
  <2>5. Housed'
    BY <1>1, <1>3, <2>2, <2>3 DEF Inv, Housed
  <2>6. RowsOf(o) = {} /\ o \notin outdated
    BY Types DEF RowsOf
  <2>7. ASSUME NEW x \in made PROVE Untouched(x)
    BY <1>1, <2>1, <2>2, <2>3, <2>7 DEF Untouched, RowsOf
  <2>8. InOrder(o)'
    <3>1. RowsOf(o)' = {r} /\ row'[r].role = "owner"
      BY <2>1, <2>2, <2>3, <2>6 DEF RowsOf
    <3> QED BY <3>1 DEF InOrder, OwnerRows
  <2>9. \A x \in made' \ outdated' : InOrder(x)'
    BY <1>1, <1>3, <2>7, <2>8, InOrderKept DEF Inv
  <2>10. OpenOK'
    <3> SUFFICES ASSUME NEW q \in Requests, NEW e \in {open[q]} \ {None} PROVE RequestOK(e)'
      BY <1>1 DEF OpenOK
    <3>1. RequestOK(e) /\ e.write \in Write /\ e.org \in made /\ r \notin Touched(e.write)
      BY <2>1, Types DEF Inv, OpenOK
    <3>2. Within(e.org, e.write)'
      <4>1. Touched(e.write) \subseteq Rows
        BY <3>1 DEF Touched, Write
      <4> QED BY <1>1, <1>3, <2>3, <3>1, <4>1, WithinKept DEF RequestOK
    <3>3. \A i \in e.write.accept : invite[i] # None => invite[i].org = e.org
      BY <3>1 DEF RequestOK, Within
    <3>4. Sound(e.by, e.org, e.write) => Sound(e.by, e.org, e.write)'
      BY <2>7, <3>1, <3>3, SoundKept
    <3> QED BY <1>1, <3>1, <3>2, <3>4 DEF RequestOK
  <2> QED BY <2>4, <2>5, <2>9, <2>10 DEF Inv
<1> QED BY <1>2, <1>3 DEF Found

-----------------------------------------------------------------------------
(* The flush of a unit of work.                                            *)

RowsWritten(w) ==
    /\ \A x \in Rows : row[x] # None =>
          IF x \in w.drop THEN row'[x] = None
          ELSE /\ row'[x] = Written(w, x) /\ row'[x] # None
               /\ row'[x].org = row[x].org /\ row'[x].user = row[x].user
    /\ \A x \in Rows : row[x] = None /\ row'[x] # None =>
          row'[x] \in w.add /\ \A q \in Requests : open[q] # None => x \notin Touched(open[q].write)
    /\ \A x, y \in Rows : row[x] = None /\ row'[x] # None /\ row[y] = None /\ row'[y] # None => x = y

InvitesWritten(w) ==
    /\ \A x \in Invites : invite[x] # None =>
          IF x \in w.withdraw THEN invite'[x] = None
          ELSE invite'[x] # None /\ invite'[x].org = invite[x].org /\ invite'[x].role = invite[x].role
    /\ \A x \in Invites : invite[x] = None /\ invite'[x] # None =>
          /\ invite'[x] \in w.offer
          /\ \A q \in Requests : open[q] # None =>
                x \notin open[q].write.accept \cup open[q].write.withdraw

\* An update changes the role of a row and nothing else.
LEMMA WrittenRow ==
    ASSUME NEW w \in Write, NEW x \in Rows, row[x] \in Membership
    PROVE  /\ Written(w, x) \in Membership /\ Written(w, x).org = row[x].org
           /\ Written(w, x).user = row[x].user
<1>1. CASE \E p \in w.set : p[1] = x
  <2> DEFINE p == CHOOSE p \in w.set : p[1] = x
  <2>1. p \in w.set
    BY <1>1
  <2>2. w.set \subseteq Rows \X Roles
    BY DEF Write
  <2>3. p[2] \in Roles
    BY <2>1, <2>2
  <2>4. Written(w, x) = [row[x] EXCEPT !.role = p[2]]
    BY <1>1 DEF Written
  <2> HIDE DEF p
  <2> QED BY <2>3, <2>4 DEF Membership
<1>2. CASE ~\E p \in w.set : p[1] = x
  BY <1>2 DEF Written
<1> QED BY <1>1, <1>2

LEMMA FlushWrites ==
    ASSUME Inv, NEW q \in Requests, NEW e, open[q] = e, e # None, Flush(e.write), ~Vanished(e.write)
    PROVE  /\ RowsWritten(e.write) /\ InvitesWritten(e.write)
           /\ row' \in [Rows -> Membership \cup {None}]
           /\ invite' \in [Invites -> Invite \cup {None}]
<1> DEFINE w == e.write
<1>1. w \in Write
  BY Types
<1>2. w.add \subseteq Membership /\ w.offer \subseteq Invite /\ w.set \subseteq Rows \X Roles
  BY <1>1 DEF Write
<1>3. Flush(w) /\ ~Vanished(w)
  OBVIOUS
<1> HIDE DEF w
<1>4. PICK r \in Place(w.add, FreeRows), i \in Place(w.offer, FreeInvites) :
        /\ row' = [x \in Rows |-> IF x \in w.drop THEN None
                                  ELSE IF x = r THEN CHOOSE m \in w.add : TRUE
                                  ELSE Written(w, x)]
        /\ invite' = [x \in Invites |->
                         IF x \in w.withdraw THEN None
                         ELSE IF x = i THEN CHOOSE m \in w.offer : TRUE
                         ELSE IF x \in w.accept /\ invite[x] # None
                              THEN [invite[x] EXCEPT !.accepted = TRUE]
                         ELSE invite[x]]
  BY <1>3 DEF Flush
<1> DEFINE a == CHOOSE m \in w.add : TRUE
           f == CHOOSE m \in w.offer : TRUE
<1>5. w.add # {} => a \in w.add /\ a # None
  <2>1. w.add # {} => a \in w.add
    OBVIOUS
  <2> QED BY <2>1, <1>2, MembershipAssumption
<1>6. w.offer # {} => f \in w.offer /\ f # None
  <2>1. w.offer # {} => f \in w.offer
    OBVIOUS
  <2> QED BY <2>1, <1>2, MembershipAssumption
<1>7. /\ row' = [x \in Rows |-> IF x \in w.drop THEN None ELSE IF x = r THEN a ELSE Written(w, x)]
      /\ invite' = [x \in Invites |->
                       IF x \in w.withdraw THEN None
                       ELSE IF x = i THEN f
                       ELSE IF x \in w.accept /\ invite[x] # None
                            THEN [invite[x] EXCEPT !.accepted = TRUE]
                       ELSE invite[x]]
  BY <1>4
<1> HIDE DEF a, f
<1>8. r \in Rows => /\ w.add # {} /\ row[r] = None
                    /\ \A p \in Requests : open[p] # None => r \notin Touched(open[p].write)
  <2> SUFFICES ASSUME r \in Rows
               PROVE  /\ w.add # {} /\ row[r] = None
                      /\ \A p \in Requests : open[p] # None => r \notin Touched(open[p].write)
    OBVIOUS
  <2>1. w.add # {} /\ r \in NewId(FreeRows)
    BY <1>4, MembershipAssumption DEF Place
  <2> QED BY <2>1, FreeIsUnknown
<1>9. i \in Invites => /\ w.offer # {} /\ invite[i] = None
                       /\ \A p \in Requests : open[p] # None =>
                             i \notin open[p].write.accept \cup open[p].write.withdraw
  <2> SUFFICES ASSUME i \in Invites
               PROVE  /\ w.offer # {} /\ invite[i] = None
                      /\ \A p \in Requests : open[p] # None =>
                             i \notin open[p].write.accept \cup open[p].write.withdraw
    OBVIOUS
  <2>1. w.offer # {} /\ i \in NewId(FreeInvites)
    BY <1>4, MembershipAssumption DEF Place
  <2>2. i \in FreeInvites
    BY <2>1 DEF NewId
  <2> QED BY <2>1, <2>2 DEF FreeInvites
<1>10. ASSUME NEW x \in Rows, row[x] # None
       PROVE  /\ x # r /\ Written(w, x) \in Membership /\ Written(w, x) # None
              /\ Written(w, x).org = row[x].org /\ Written(w, x).user = row[x].user
  <2>1. row[x] \in Membership
    BY <1>10, Types
  <2> QED BY <1>1, <1>8, <1>10, <2>1, WrittenRow, MembershipAssumption
<1>11. ASSUME NEW x \in Rows, row[x] = None, x # r PROVE row'[x] = None
  <2>1. ~\E p \in w.set : p[1] = x
    BY <1>3, <1>11 DEF Vanished
  <2> QED BY <1>7, <1>11, <2>1 DEF Written
<1>12. RowsWritten(w)
  <2>1. \A x \in Rows : row[x] # None =>
          IF x \in w.drop THEN row'[x] = None
          ELSE /\ row'[x] = Written(w, x) /\ row'[x] # None
               /\ row'[x].org = row[x].org /\ row'[x].user = row[x].user
    BY <1>7, <1>10
  <2>2. \A x \in Rows : row[x] = None /\ row'[x] # None => x = r /\ row'[x] = a
    BY <1>7, <1>11
  <2> QED BY <1>5, <1>8, <2>1, <2>2 DEF RowsWritten
<1>13. row' \in [Rows -> Membership \cup {None}]
  BY <1>2, <1>5, <1>7, <1>8, <1>10, <1>11
<1>14. ASSUME NEW x \in Invites, invite[x] # None
       PROVE  IF x \in w.withdraw THEN invite'[x] = None
              ELSE /\ invite'[x] \in Invite
                   /\ invite'[x].org = invite[x].org /\ invite'[x].role = invite[x].role
  <2>1. invite[x] \in Invite /\ x # i
    BY <1>9, <1>14, Types
  <2>2. CASE x \in w.withdraw
    BY <1>7, <2>2
  <2>3. CASE x \notin w.withdraw /\ x \in w.accept
    <3>1. invite'[x] = [invite[x] EXCEPT !.accepted = TRUE]
      BY <1>7, <1>14, <2>1, <2>3
    <3> QED BY <2>1, <2>3, <3>1 DEF Invite
  <2>4. CASE x \notin w.withdraw /\ x \notin w.accept
    BY <1>7, <2>1, <2>4
  <2> QED BY <2>2, <2>3, <2>4
<1>15. ASSUME NEW x \in Invites, invite[x] = None, invite'[x] # None
       PROVE  x = i /\ invite'[x] = f
  BY <1>7, <1>15
<1>16. InvitesWritten(w)
  BY <1>6, <1>9, <1>14, <1>15, MembershipAssumption DEF InvitesWritten
<1>17. invite' \in [Invites -> Invite \cup {None}]
  <2>1. \A x \in Invites : invite'[x] \in Invite \cup {None}
    BY <1>2, <1>6, <1>9, <1>14, <1>15
  <2>2. invite' = [x \in Invites |-> invite'[x]]
    BY <1>7
  <2> QED BY <2>1, <2>2
<1> QED BY <1>12, <1>13, <1>16, <1>17 DEF w

\* A flush is confined to the rows and the invites of its organization.
LEMMA OthersUntouched ==
    ASSUME Inv, NEW o, NEW w \in Write, Within(o, w), RowsWritten(w), InvitesWritten(w),
           NEW x, x # o
    PROVE  Untouched(x)
<1>1. ASSUME NEW y \in Rows, row[y] # None, row[y].org = x
      PROVE  row'[y] = row[y]
  <2>1. y \notin Touched(w)
    BY <1>1 DEF Within
  <2>2. y \notin w.drop /\ ~\E p \in w.set : p[1] = y
    BY <2>1 DEF Touched
  <2>3. row'[y] = Written(w, y)
    BY <1>1, <2>2 DEF RowsWritten
  <2> QED BY <2>2, <2>3 DEF Written
<1>2. ASSUME NEW y \in Rows, row'[y] # None, row'[y].org = x
      PROVE  row[y] # None /\ row[y].org = x
  <2>1. row[y] # None
    BY <1>2 DEF RowsWritten, Within
  <2> QED BY <1>2, <2>1 DEF RowsWritten
<1>3. RowsOf(x)' = RowsOf(x) /\ \A y \in RowsOf(x) : row'[y] = row[y]
  BY <1>1, <1>2 DEF RowsOf
<1>4. ASSUME NEW i \in Invites, invite[i] # None, invite[i].org = x
      PROVE  invite'[i] # None /\ invite'[i].role = invite[i].role
  <2>1. i \notin w.withdraw
    BY <1>4 DEF Within
  <2> QED BY <1>4, <2>1 DEF InvitesWritten
<1> QED BY <1>3, <1>4 DEF Untouched

\* A sound unit of work leaves its organization with an owner and no doubles.
LEMMA SoundIsInOrder ==
    ASSUME Inv, NEW u, NEW o \in made \ outdated, NEW w \in Write,
           Within(o, w), Sound(u, o, w), RowsWritten(w)
    PROVE  InOrder(o)'
<1>1. OwnerRows(o)' # {}
  <2>1. PICK r \in RowsOf(o) \ w.drop : Written(w, r).role = "owner"
    BY DEF Sound, KeepsOwner
  <2>2. r \in Rows /\ row[r] # None /\ row[r].org = o
    BY <2>1 DEF RowsOf
  <2>3. row'[r] # None /\ row'[r].org = o /\ row'[r].role = "owner"
    BY <2>1, <2>2 DEF RowsWritten
  <2> QED BY <2>2, <2>3 DEF OwnerRows, RowsOf
<1>2. ASSUME NEW r \in RowsOf(o)', row[r] # None
      PROVE  r \in RowsOf(o) /\ row'[r].user = row[r].user
  BY <1>2 DEF RowsWritten, RowsOf
<1>3. ASSUME NEW r \in RowsOf(o)', row[r] = None
      PROVE  Of(o, row'[r].user) = {} /\ r \in Rows /\ row'[r] # None
  <2>1. r \in Rows /\ row'[r] # None
    BY DEF RowsOf
  <2> QED BY <1>3, <2>1 DEF RowsWritten, Sound, AddsNew
<1>4. ASSUME NEW r \in RowsOf(o)', NEW s \in RowsOf(o)', row'[r].user = row'[s].user
      PROVE  r = s
  <2>1. CASE row[r] # None /\ row[s] # None
    BY <1>2, <1>4, <2>1 DEF Inv, InOrder
  <2>2. CASE row[r] # None /\ row[s] = None
    BY <1>2, <1>3, <1>4, <2>2 DEF Of
  <2>3. CASE row[r] = None /\ row[s] # None
    BY <1>2, <1>3, <1>4, <2>3 DEF Of
  <2>4. CASE row[r] = None /\ row[s] = None
    BY <1>3, <2>4 DEF RowsWritten
  <2> QED BY <2>1, <2>2, <2>3, <2>4
<1> QED BY <1>1, <1>4 DEF InOrder

LEMMA CommitInv ==
    ASSUME Inv, NEW q \in Requests, Commit(q)
    PROVE  Inv'
<1>1. PICK e \in Request : e = open[q]
  BY DEF Commit, Inv, TypeOK
<1>2. e # None /\ UNCHANGED <<known, made, now>>
  BY <1>1 DEF Commit
<1> DEFINE o == e.org
           w == e.write
<1>3. /\ o \in made /\ w \in Write /\ e.fresh \in BOOLEAN
      /\ Within(o, w) /\ (e.fresh /\ o \notin outdated => Sound(e.by, o, w))
  BY <1>1, <1>2, Types DEF Inv, OpenOK, RequestOK, Request
<1>4. CASE Vanished(w)
  <2>1. open' = [open EXCEPT ![q] = None] /\ UNCHANGED <<row, invite, outdated>>
    BY <1>1, <1>4 DEF Commit
  <2>2. /\ open' \in [Requests -> Request \cup {None}]
        /\ \A p \in Requests : open'[p] \in {open[p], None}
    BY <2>1 DEF Inv, TypeOK
  <2> QED BY <1>2, <2>1, <2>2, NothingRead DEF Inv, TypeOK
<1>5. CASE ~Vanished(w)
  <2>1. /\ Flush(w) /\ open' = Outdate(q)
        /\ outdated' = IF e.fresh THEN outdated ELSE outdated \cup {o}
    BY <1>1, <1>5 DEF Commit
  <2>2. /\ RowsWritten(w) /\ InvitesWritten(w)
        /\ row' \in [Rows -> Membership \cup {None}]
        /\ invite' \in [Invites -> Invite \cup {None}]
    BY <1>1, <1>2, <1>5, <2>1, FlushWrites
  <2> HIDE DEF o, w
  <2>3. \A x : x # o => Untouched(x)
    BY <1>3, <2>2, OthersUntouched
  <2>4. ASSUME NEW p \in Requests, open'[p] # None
        PROVE  /\ open[p] # None /\ open[p] \in Request /\ open'[p] \in Request
               /\ open'[p].by = open[p].by /\ open'[p].org = open[p].org
               /\ open'[p].write = open[p].write
               /\ open'[p].fresh => open[p].fresh /\ open[p].org # o
    <3>1. open'[p] = IF p = q THEN None
                     ELSE IF open[p] # None /\ open[p].org = open[q].org
                          THEN [open[p] EXCEPT !.fresh = FALSE]
                          ELSE open[p]
      BY <2>1 DEF Outdate
    <3>2. p # q /\ open[p] # None
      BY <2>4, <3>1
    <3>3. open[p] \in Request
      BY <3>2, Types
    <3>4. CASE open[p].org = open[q].org
      <4>1. open'[p] = [open[p] EXCEPT !.fresh = FALSE]
        BY <3>1, <3>2, <3>4
      <4> QED BY <3>2, <3>3, <4>1 DEF Request
    <3>5. CASE open[p].org # open[q].org
      <4>1. open'[p] = open[p]
        BY <3>1, <3>2, <3>5
      <4> QED BY <1>1, <3>2, <3>3, <3>5, <4>1 DEF o
    <3> QED BY <3>4, <3>5
  <2>5. TypeOK'
    <3>1. open' \in [Requests -> Request \cup {None}]
      <4>1. open' = [p \in Requests |-> open'[p]]
        BY <2>1 DEF Outdate
      <4>2. \A p \in Requests : open'[p] \in Request \cup {None}
        BY <2>4
      <4> QED BY <4>1, <4>2
    <3>2. outdated' \subseteq made'
      BY <1>2, <1>3, <2>1, Types
    <3> QED BY <1>2, <2>2, <3>1, <3>2 DEF Inv, TypeOK
  <2>6. Housed'
    <3>1. ASSUME NEW x \in Rows, row'[x] # None PROVE row'[x].org \in made
      <4>1. CASE row[x] = None
        BY <1>3, <2>2, <3>1, <4>1 DEF RowsWritten, Within
      <4>2. CASE row[x] # None
        <5>1. row'[x].org = row[x].org
          BY <2>2, <3>1, <4>2 DEF RowsWritten
        <5> QED BY <4>2, <5>1 DEF Inv, Housed
      <4> QED BY <4>1, <4>2
    <3>2. ASSUME NEW x \in Invites, invite'[x] # None PROVE invite'[x].org \in made
      <4>1. CASE invite[x] = None
        BY <1>3, <2>2, <3>2, <4>1 DEF InvitesWritten, Within
      <4>2. CASE invite[x] # None
        <5>1. invite'[x].org = invite[x].org
          BY <2>2, <3>2, <4>2 DEF InvitesWritten
        <5> QED BY <4>2, <5>1 DEF Inv, Housed
      <4> QED BY <4>1, <4>2
    <3> QED BY <1>2, <3>1, <3>2 DEF Housed
  <2>7. ASSUME NEW x \in made' \ outdated' PROVE InOrder(x)'
    <3>1. x \in made \ outdated
      BY <1>2, <2>1, <2>7
    <3>2. CASE x # o
      BY <2>3, <3>1, <3>2, InOrderKept DEF Inv
    <3>3. CASE x = o
      <4>1. e.fresh
        BY <2>1, <2>7, <3>3
      <4> QED BY <1>3, <2>2, <3>1, <3>3, <4>1, SoundIsInOrder
    <3> QED BY <3>2, <3>3
  <2>8. OpenOK'
    <3> SUFFICES ASSUME NEW p \in Requests, NEW g \in {open'[p]} \ {None} PROVE RequestOK(g)'
      BY DEF OpenOK
    <3>1. PICK d \in Request : d = open[p]
      BY <2>4
    <3>2. /\ d # None /\ g.by = d.by /\ g.org = d.org /\ g.write = d.write
          /\ g.fresh => d.fresh /\ d.org # o
      BY <2>4, <3>1
    <3>3. RequestOK(d) /\ d.write \in Write
      BY <3>1, <3>2 DEF Inv, OpenOK, Request
    <3>4. Within(d.org, d.write)'
      <4>1. \A r \in Touched(d.write) : row'[r] # None => row[r] # None /\ row'[r].org = row[r].org
        <5>1. Touched(d.write) \subseteq Rows
          BY <3>3 DEF Touched, Write
        <5> QED BY <2>2, <3>1, <3>2, <5>1 DEF RowsWritten
      <4>2. \A i \in d.write.accept \cup d.write.withdraw :
               invite'[i] # None => invite[i] # None /\ invite'[i].org = invite[i].org
        <5>1. d.write.accept \cup d.write.withdraw \subseteq Invites
          BY <3>3 DEF Write
        <5> QED BY <2>2, <3>1, <3>2, <5>1 DEF InvitesWritten
      <4> QED BY <1>2, <3>3, <4>1, <4>2, WithinKept DEF RequestOK
    <3>5. ASSUME g.fresh, g.org \notin outdated' PROVE Sound(g.by, g.org, g.write)'
      <4>1. d.fresh /\ d.org # o /\ d.org \notin outdated
        BY <2>1, <3>2, <3>5
      <4>2. Sound(d.by, d.org, d.write)
        BY <3>3, <4>1 DEF RequestOK
      <4>3. \A i \in d.write.accept : invite[i] # None => invite[i].org = d.org
        BY <3>3 DEF RequestOK, Within
      <4>4. Sound(d.by, d.org, d.write)'
        BY <2>3, <3>3, <4>1, <4>2, <4>3, SoundKept
      <4> QED BY <3>2, <4>4
    <3> QED BY <3>2, <3>4, <3>5 DEF RequestOK
  <2> QED BY <2>5, <2>6, <2>7, <2>8 DEF Inv
<1> QED BY <1>4, <1>5

-----------------------------------------------------------------------------
(* The theorems.                                                           *)

LEMMA HandleInv ==
    ASSUME Inv, NEW u \in Users, SignUp(u) \/ Handle(u)
    PROVE  Inv'
<1>1. CASE SignUp(u)
  <2>1. Found(u) /\ known' \subseteq Users
    BY <1>1 DEF SignUp, Inv, TypeOK
  <2> QED BY <2>1, FoundInv
<1>2. CASE CreateOrganization(u)
  <2>1. Found(u) /\ known' \subseteq Users
    BY <1>2 DEF CreateOrganization, Inv, TypeOK
  <2> QED BY <2>1, FoundInv
<1>3. ASSUME NEW o \in made, NEW v \in Users, NEW role \in Asked, InviteMember(u, o, v, role)
      PROVE  Inv'
  BY <1>3, InviteMemberInv
<1>4. ASSUME NEW o \in made, NEW v \in Users, NEW role \in Asked, UpdateMemberRole(u, o, v, role)
      PROVE  Inv'
  BY <1>4, UpdateMemberRoleInv
<1>5. ASSUME NEW i \in Invites, RevokeInvite(u, i) \/ AcceptInvite(u, i) PROVE Inv'
  BY <1>5, RevokeInviteInv, AcceptInviteInv
<1>6. ASSUME NEW o \in made, LeaveOrganization(u, o) PROVE Inv'
  BY <1>6, LeaveOrganizationInv
<1>7. ASSUME NEW o \in made, NEW v \in Users, TransferOwnership(u, o, v) \/ RemoveMember(u, o, v)
      PROVE  Inv'
  BY <1>7, TransferOwnershipInv, RemoveMemberInv
<1> QED BY <1>1, <1>2, <1>3, <1>4, <1>5, <1>6, <1>7 DEF Handle

\* What the handlers of organizations.py keep, however their commits interleave.
THEOREM MembershipInvariant == Spec => []Inv
<1>1. Init => Inv
  BY InitInv
<1>2. Inv /\ [Next]_vars => Inv'
  <2> SUFFICES ASSUME Inv, [Next]_vars PROVE Inv'
    OBVIOUS
  <2>1. ASSUME NEW u \in Users, SignUp(u) \/ Handle(u) PROVE Inv'
    BY <2>1, HandleInv
  <2>2. ASSUME NEW q \in Requests, Commit(q) PROVE Inv'
    BY <2>2, CommitInv
  <2>3. CASE Tick
    <3>1. UNCHANGED <<known, made, row, invite, open, outdated>> /\ now' \in 0..MaxTime
      BY <2>3, MembershipAssumption DEF Tick, Inv, TypeOK
    <3> QED BY <3>1, NothingRead DEF Inv, TypeOK
  <2>4. CASE UNCHANGED vars
    <3>1. UNCHANGED <<known, made, row, invite, open, now, outdated>>
      BY <2>4 DEF vars
    <3> QED BY <3>1, NothingRead DEF Inv, TypeOK
  <2> QED BY <2>1, <2>2, <2>3, <2>4 DEF Next
<1> QED BY <1>1, <1>2, PTL DEF Spec

\* Rows, invites and units of work are of their types; an organization where a
\* commit rested on outdated reads exists.
THEOREM MembershipTypeCorrect == Spec => []TypeOK
<1>1. Inv => TypeOK
  BY DEF Inv
<1> QED BY <1>1, MembershipInvariant, PTL

\* Where every commit rested on current reads, an organization has an owner and
\* no member twice: the sole-owner checks and the checks for a membership of
\* organizations.py are enough, for any number of members and requests.
THEOREM OwnersAlwaysHold == Spec => []OwnersHold
<1>1. Inv => OwnersHold
  <2> SUFFICES ASSUME Inv, NEW o \in made \ outdated
               PROVE  OwnerRows(o) # {} /\ \A u \in Users : Cardinality(Of(o, u)) <= 1
    BY DEF OwnersHold
  <2>1. InOrder(o)
    BY DEF Inv
  <2>2. ASSUME NEW u \in Users PROVE Cardinality(Of(o, u)) <= 1
    <3>1. \A r, s \in Of(o, u) : r = s
      BY <2>1 DEF InOrder, Of
    <3> QED BY <3>1, OneAtMost
  <2> QED BY <2>1, <2>2 DEF InOrder
<1> QED BY <1>1, MembershipInvariant, PTL

-----------------------------------------------------------------------------
\* Only its own commit ends a request.
LEMMA HandlerBegins ==
    ASSUME NEW u \in Users, SignUp(u) \/ Handle(u)
    PROVE  UNCHANGED open \/ \E o, w : Begin(u, o, w)
<1>1. CASE SignUp(u) \/ CreateOrganization(u)
  BY <1>1 DEF SignUp, CreateOrganization, Found
<1>2. ASSUME NEW o \in made, NEW v \in Users, NEW role \in Asked,
             InviteMember(u, o, v, role) \/ UpdateMemberRole(u, o, v, role)
      PROVE  \E x, w : Begin(u, x, w)
  BY <1>2, Zenon DEF InviteMember, UpdateMemberRole
<1>3. ASSUME NEW i \in Invites, RevokeInvite(u, i) \/ AcceptInvite(u, i)
      PROVE  \E x, w : Begin(u, x, w)
  BY <1>3, Zenon DEF RevokeInvite, AcceptInvite
<1>4. ASSUME NEW o \in made, NEW v \in Users,
             LeaveOrganization(u, o) \/ TransferOwnership(u, o, v) \/ RemoveMember(u, o, v)
      PROVE  \E x, w : Begin(u, x, w)
  BY <1>4, Zenon DEF LeaveOrganization, TransferOwnership, RemoveMember
<1>5. ASSUME NEW o \in made, LeaveOrganization(u, o) PROVE \E x, w : Begin(u, x, w)
  BY <1>5, Zenon DEF LeaveOrganization
<1> QED BY <1>1, <1>2, <1>3, <1>4, <1>5 DEF Handle

LEMMA OnlyCommitEnds ==
    ASSUME Inv, Next, NEW q \in Requests, open[q] # None, open'[q] = None
    PROVE  Commit(q)
<1>1. ASSUME NEW u \in Users, SignUp(u) \/ Handle(u) PROVE FALSE
  <2>1. PICK o, w : Begin(u, o, w)
    BY <1>1, HandlerBegins
  <2>2. PICK p \in Requests : /\ open[p] = None
                              /\ open' = [open EXCEPT ![p] = [by |-> u, org |-> o, fresh |-> TRUE, write |-> w]]
    BY <2>1 DEF Begin
  <2>3. open'[q] = open[q]
    BY <2>2 DEF Inv, TypeOK
  <2> QED BY <2>3
<1>2. ~Tick
  BY DEF Tick
<1>3. ASSUME NEW p \in Requests, Commit(p), p # q PROVE FALSE
  <2>1. open[q] \in Request
    BY Types
  <2>2. open'[q] = open[q] \/ open'[q] = [open[q] EXCEPT !.fresh = FALSE]
    BY <1>3 DEF Commit, Outdate, Inv, TypeOK
  <2>3. [open[q] EXCEPT !.fresh = FALSE] \in Request
    BY <2>1 DEF Request
  <2> QED BY <2>2, <2>3, MembershipAssumption
<1> QED BY <1>1, <1>2, <1>3 DEF Next

LEMMA NobodyByRevoked ==
    ASSUME Inv, Next
    PROVE  RevokedAdmitsNobody
<1> SUFFICES ASSUME NEW q \in Requests, open[q] # None, open'[q] = None, row' # row,
                    NEW i \in open[q].write.accept
             PROVE  invite[i] # None
  BY DEF RevokedAdmitsNobody
<1>1. Commit(q)
  BY OnlyCommitEnds
<1> QED BY <1>1 DEF Commit, Vanished

\* Of a request that was not entitled to unmake or make owners, the commit does not.
LEMMA OwnersByEntitled ==
    ASSUME Inv, Next
    PROVE  OwnersMakeOwners
<1> SUFFICES ASSUME NEW o \in made \ outdated, NEW q \in Settling(o)
             PROVE  LET entitled == open[q].by \in Owners(o) \cup Superadmins
                        offers   == {i \in Invites : invite[i] = None /\ invite'[i] # None
                                                         /\ invite'[i].role = "owner"}
                    IN  /\ Owners(o) \ Owners(o)' # {} => entitled
                        /\ Owners(o)' \ Owners(o) # {} \/ offers # {} =>
                              entitled \/ \E i \in open[q].write.accept : invite[i].role = "owner"
  BY DEF OwnersMakeOwners
<1>1. /\ q \in Requests /\ open[q] # None /\ open[q].org = o /\ open[q].fresh /\ open'[q] = None
  BY DEF Settling
<1>2. PICK e \in Request : e = open[q]
  BY <1>1, Types
<1>3. Commit(q)
  BY <1>1, OnlyCommitEnds
<1> DEFINE w == e.write
           offers == {i \in Invites : invite[i] = None /\ invite'[i] # None
                                          /\ invite'[i].role = "owner"}
<1> SUFFICES ASSUME e.by \notin Owners(o) \cup Superadmins
             PROVE  /\ Owners(o) \subseteq Owners(o)'
                    /\ Owners(o)' \ Owners(o) # {} \/ offers # {} =>
                          \E i \in w.accept : invite[i].role = "owner"
  BY <1>2
<1>4. /\ w.set = {} /\ \A r \in w.drop : r \notin OwnerRows(o)
      /\ \A a \in w.add : a.role = "owner" =>
            \E i \in w.accept : invite[i] # None /\ invite[i].role = "owner"
      /\ \A f \in w.offer : f.role # "owner"
  BY <1>1, <1>2 DEF Inv, OpenOK, RequestOK, Sound, Entitled
<1>5. CASE Vanished(w)
  <2>1. UNCHANGED <<row, invite>>
    BY <1>2, <1>3, <1>5 DEF Commit
  <2> QED BY <2>1 DEF Owners, OwnerRows, RowsOf
<1>6. CASE ~Vanished(w)
  <2>1. Flush(w)
    BY <1>2, <1>3, <1>6 DEF Commit
  <2>2. RowsWritten(w) /\ InvitesWritten(w)
    BY <1>1, <1>2, <1>6, <2>1, FlushWrites
  <2> HIDE DEF w
  <2>3. ASSUME NEW r \in OwnerRows(o) PROVE r \in OwnerRows(o)' /\ row'[r].user = row[r].user
    <3>1. r \in Rows /\ row[r] # None /\ row[r].org = o /\ row[r].role = "owner" /\ r \notin w.drop
      BY <1>4 DEF OwnerRows, RowsOf
    <3>2. row'[r] = row[r] /\ row'[r] # None
      BY <1>4, <2>2, <3>1 DEF RowsWritten, Written
    <3> QED BY <3>1, <3>2 DEF OwnerRows, RowsOf
  <2>4. Owners(o) \subseteq Owners(o)'
    BY <2>3 DEF Owners
  <2>5. ASSUME NEW r \in OwnerRows(o)', row'[r].user \notin Owners(o)
        PROVE  \E i \in w.accept : invite[i].role = "owner"
    <3>1. r \in Rows /\ row'[r] # None /\ row'[r].org = o /\ row'[r].role = "owner"
      BY DEF OwnerRows, RowsOf
    <3>2. CASE row[r] # None
      <4>1. row'[r] = row[r]
        BY <1>4, <2>2, <3>1, <3>2 DEF RowsWritten, Written
      <4> QED BY <2>5, <3>1, <3>2, <4>1 DEF Owners, OwnerRows, RowsOf
    <3>3. CASE row[r] = None
      <4>1. row'[r] \in w.add
        BY <2>2, <3>1, <3>3 DEF RowsWritten
      <4> QED BY <1>4, <3>1, <4>1
    <3> QED BY <3>2, <3>3
  <2>6. offers = {}
    BY <1>4, <2>2 DEF InvitesWritten
  <2> QED BY <2>4, <2>5, <2>6 DEF Owners
<1> QED BY <1>5, <1>6

\* A revoked invite admits nobody; and somebody stops being an owner only by
\* their own request, another owner's or a superadmin's, and becomes one by such
\* a request or by accepting an invite as an owner, however requests overlap,
\* as long as the commit rests on current reads.
THEOREM OwnersAlwaysDecide == Spec => OwnersDecide
<1>1. Inv /\ [Next]_vars => [RevokedAdmitsNobody /\ OwnersMakeOwners]_vars
  BY NobodyByRevoked, OwnersByEntitled
<1> QED BY <1>1, MembershipInvariant, PTL DEF Spec, OwnersDecide

-----------------------------------------------------------------------------
(* Accounts.                                                               *)

Lower == {t \in Typed : normalize_email(t) = t}

(* An account is stored, and a reset link sent, under the normal form of an*)
(* address, and links are sent to accounts.                                *)
AddressesSound ==
    /\ \A t \in Typed : account[t] # None => t \in Lower
    /\ \A i \in Tokens : token[i] # None =>
          token[i].user \in Lower /\ account[token[i].user] # None

(* A task has the address, the account and the links it was opened for.    *)
TasksSound ==
    \A q \in Tasks : task[q] # None =>
        /\ task[q].address \in Lower
        /\ task[q].kind \in {"link", "forgot", "reset", "expire"} => account[task[q].address] # None
        /\ task[q].kind \in {"create", "link"} => task[q].sub \in Subs
        /\ \A i \in task[q].tokens : token[i] # None /\ token[i].user = task[q].address

(* What an open task read still stands, unless the task is marked outdated.*)
TasksFresh ==
    \A q \in Tasks, t \in Typed : task[q] # None /\ task[q].address = t /\ task[q].fresh =>
        /\ task[q].kind \in {"signup", "create"} => Admits(t)
        /\ task[q].kind = "forgot" => Unused(t) \subseteq task[q].tokens
        /\ task[q].kind = "reset" => \A i \in task[q].tokens : ~token[i].used

OneUnused == \A t \in Typed \ stale : \A i, j \in Unused(t) : i = j
ResetOnce ==
    \A i \in Tokens : token[i] # None /\ token[i].user \notin stale
        => token[i].resets <= (IF token[i].used THEN 1 ELSE 0)

AccountInv ==
    /\ AccountTypeOK /\ AddressesSound /\ TasksSound /\ TasksFresh
    /\ OneUnused /\ ResetOnce /\ NobodyLockedOut

-----------------------------------------------------------------------------
LEMMA Normal ==
  /\ \A t \in Typed : normalize_email(t) \in Typed /\ normalize_email(t) \in Lower
  /\ \A s, t \in Lower : s[1] = t[1] => s = t
BY DEF Typed, Lower, normalize_email

(* Only the tasks changed, and nobody was refused: enough that each task is*)
(* one there was, perhaps marked outdated, or a sound new one.             *)
LEMMA TasksChange ==
  ASSUME AccountInv, UNCHANGED <<account, token, clock, stale>>,
         allowed' \subseteq [domain : Domains, subdomains : BOOLEAN],
         task' \in [Tasks -> Task \cup {None}],
         issued' \in [sub : Subs, address : Typed, account : Typed \cup {None}] \cup {None},
         NobodyLockedOut',
         \A q \in Tasks : task'[q] # None =>
           \/ /\ task[q] # None
              /\ task'[q].kind = task[q].kind /\ task'[q].address = task[q].address
              /\ task'[q].tokens = task[q].tokens /\ task'[q].sub = task[q].sub
              /\ task'[q].fresh => task[q].fresh
              /\ task'[q].fresh /\ task[q].kind \in {"signup", "create"} => allowed' = allowed
           \/ /\ task'[q].address \in Lower
              /\ task'[q].kind \in {"link", "forgot", "reset", "expire"}
                    => account[task'[q].address] # None
              /\ task'[q].kind \in {"create", "link"} => task'[q].sub \in Subs
              /\ \A i \in task'[q].tokens : token[i] # None /\ token[i].user = task'[q].address
              /\ task'[q].kind \in {"signup", "create"} =>
                    Admits(task'[q].address) /\ allowed' = allowed
              /\ task'[q].kind = "forgot" => Unused(task'[q].address) \subseteq task'[q].tokens
              /\ task'[q].kind = "reset" => \A i \in task'[q].tokens : ~token[i].used
  PROVE  AccountInv'
<1>1. AccountTypeOK'
  BY DEF AccountInv, AccountTypeOK
<1>2. AddressesSound'
  BY DEF AccountInv, AddressesSound
<1>3. TasksSound'
  BY DEF AccountInv, TasksSound
<1>4. TasksFresh'
  <2> SUFFICES ASSUME NEW q \in Tasks, NEW t \in Typed,
                      task'[q] # None, task'[q].address = t, task'[q].fresh
               PROVE  /\ task'[q].kind \in {"signup", "create"} => Admits(t)'
                      /\ task'[q].kind = "forgot" => Unused(t)' \subseteq task'[q].tokens
                      /\ task'[q].kind = "reset" => \A i \in task'[q].tokens : ~token'[i].used
    BY DEF TasksFresh
  <2>1. allowed' = allowed => (Admits(t)' <=> Admits(t))
    BY DEF Admits
  <2>2. Unused(t)' = Unused(t) /\ token' = token
    BY DEF Unused
  <2> HIDE DEF Unused
  <2> QED BY <2>1, <2>2 DEF AccountInv, TasksFresh
<1>5. OneUnused' /\ ResetOnce'
  BY DEF AccountInv, OneUnused, ResetOnce, Unused
<1> QED BY <1>1, <1>2, <1>3, <1>4, <1>5 DEF AccountInv

(* A commit that closes task q changes what belongs to the task's address  *)
(* and marks the other tasks of that address outdated; what is left to show*)
(* of it is what its own address looks like when the task was fresh.       *)
LEMMA CommitChange ==
  ASSUME AccountInv, NEW q \in Tasks, task[q] # None, NEW t \in Typed, task[q].address = t,
         Close(q), NobodyLockedOut',
         account' \in [Typed -> UserRow \cup {None}],
         token' \in [Tokens -> Token \cup {None}],
         issued' \in [sub : Subs, address : Typed, account : Typed \cup {None}] \cup {None},
         \A x \in Typed : /\ x # t => account'[x] = account[x]
                          /\ account[x] # None => account'[x] # None,
         \A i \in Tokens : \/ token'[i] = token[i]
                           \/ /\ token'[i] # None /\ token'[i].user = t /\ account'[t] # None
                              /\ token[i] # None => token[i].user = t,
         task[q].fresh /\ t \notin stale => \A i, j \in Unused(t)' : i = j,
         task[q].fresh /\ t \notin stale =>
            \A i \in Tokens : token'[i] # None /\ token'[i].user = t
                => token'[i].resets <= (IF token'[i].used THEN 1 ELSE 0)
  PROVE  AccountInv'
<1>1. /\ allowed' = allowed /\ clock' = clock
      /\ stale' = IF task[q].fresh THEN stale ELSE stale \cup {t}
      /\ task' = [p \in Tasks |-> IF p = q THEN None
                                  ELSE IF task[p] # None /\ task[p].address = t
                                       THEN [task[p] EXCEPT !.fresh = FALSE]
                                       ELSE task[p]]
  BY DEF Close
<1>2. t \in Lower
  BY DEF AccountInv, TasksSound
<1>3. task \in [Tasks -> Task \cup {None}] /\ stale \subseteq Typed
  BY DEF AccountInv, AccountTypeOK
<1>4. task' \in [Tasks -> Task \cup {None}]
  <2> DEFINE After(p) == IF p = q THEN None
                         ELSE IF task[p] # None /\ task[p].address = t
                              THEN [task[p] EXCEPT !.fresh = FALSE]
                              ELSE task[p]
  <2>1. \A k \in Task : [k EXCEPT !.fresh = FALSE] \in Task
    BY DEF Task
  <2>2. ASSUME NEW p \in Tasks PROVE After(p) \in Task \cup {None}
    <3>1. CASE p # q /\ task[p] # None
      BY <1>3, <2>1, <3>1
    <3>2. CASE p = q \/ task[p] = None
      BY <3>2
    <3> QED BY <3>1, <3>2
  <2>3. task' = [p \in Tasks |-> After(p)]
    BY <1>1
  <2> HIDE DEF After
  <2> QED BY <2>2, <2>3
<1>5. \A p \in Tasks : task'[p] # None =>
         /\ task[p] # None /\ task'[p].kind = task[p].kind
         /\ task'[p].address = task[p].address /\ task'[p].tokens = task[p].tokens
         /\ task'[p].sub = task[p].sub
         /\ task'[p].fresh => task[p].fresh /\ task[p].address # t
  <2>1. \A k \in Task : LET l == [k EXCEPT !.fresh = FALSE]
                        IN  l.kind = k.kind /\ l.address = k.address /\ l.tokens = k.tokens
                            /\ l.sub = k.sub /\ l.fresh = FALSE
    BY DEF Task
  <2> QED BY <1>1, <1>3, <2>1
<1>6. AccountTypeOK'
  BY <1>1, <1>3, <1>4 DEF AccountInv, AccountTypeOK
<1>7. AddressesSound'
  BY <1>2 DEF AccountInv, AddressesSound, Lower
<1>8. TasksSound'
  <2> SUFFICES ASSUME NEW p \in Tasks, task'[p] # None
               PROVE  /\ task'[p].address \in Lower
                      /\ task'[p].kind \in {"link", "forgot", "reset", "expire"}
                            => account'[task'[p].address] # None
                      /\ task'[p].kind \in {"create", "link"} => task'[p].sub \in Subs
                      /\ \A i \in task'[p].tokens :
                            token'[i] # None /\ token'[i].user = task'[p].address
    BY DEF TasksSound
  <2>1. /\ task[p].address \in Lower
        /\ task[p].kind \in {"link", "forgot", "reset", "expire"}
              => account[task[p].address] # None
        /\ task[p].kind \in {"create", "link"} => task[p].sub \in Subs
        /\ \A i \in task[p].tokens : token[i] # None /\ token[i].user = task[p].address
    BY <1>5 DEF AccountInv, TasksSound
  <2>2. task[p].tokens \subseteq Tokens /\ Lower \subseteq Typed
    BY <1>3, <1>5 DEF Task, Lower
  <2> QED BY <1>5, <2>1, <2>2
<1>9. TasksFresh'
  <2> SUFFICES ASSUME NEW p \in Tasks, NEW x \in Typed,
                      task'[p] # None, task'[p].address = x, task'[p].fresh
               PROVE  /\ task'[p].kind \in {"signup", "create"} => Admits(x)'
                      /\ task'[p].kind = "forgot" => Unused(x)' \subseteq task'[p].tokens
                      /\ task'[p].kind = "reset" => \A i \in task'[p].tokens : ~token'[i].used
    BY DEF TasksFresh
  <2>1. task[p] # None /\ task[p].address = x /\ task[p].fresh /\ x # t
    BY <1>5
  <2>2. Admits(x)' <=> Admits(x)
    BY <1>1 DEF Admits
  <2>3. Unused(x)' \subseteq Unused(x)
    BY <2>1 DEF Unused
  <2>4. \A i \in task[p].tokens : i \in Tokens /\ token'[i] = token[i]
    <3>1. \A i \in task[p].tokens : i \in Tokens /\ token[i] # None /\ token[i].user = x
      BY <1>3, <2>1 DEF AccountInv, TasksSound, Task
    <3> QED BY <2>1, <3>1
  <2> QED BY <1>5, <2>1, <2>2, <2>3, <2>4 DEF AccountInv, TasksFresh
<1>10. OneUnused'
  <2> SUFFICES ASSUME NEW x \in Typed, x \notin stale', NEW i \in Unused(x)', NEW j \in Unused(x)'
               PROVE  i = j
    BY DEF OneUnused
  <2>1. CASE x = t
    BY <1>1, <2>1
  <2>2. CASE x # t
    <3>1. i \in Unused(x) /\ j \in Unused(x)
      BY <2>2 DEF Unused
    <3>2. x \in Typed \ stale
      BY <1>1
    <3> QED BY <3>1, <3>2 DEF AccountInv, OneUnused
  <2> QED BY <2>1, <2>2
<1>11. ResetOnce'
  <2> SUFFICES ASSUME NEW i \in Tokens, token'[i] # None, token'[i].user \notin stale'
               PROVE  token'[i].resets <= (IF token'[i].used THEN 1 ELSE 0)
    BY DEF ResetOnce
  <2>1. CASE token'[i].user = t
    BY <1>1, <2>1
  <2>2. CASE token'[i].user # t
    BY <1>1, <2>2 DEF AccountInv, ResetOnce
  <2> QED BY <2>1, <2>2
<1> QED BY <1>6, <1>7, <1>8, <1>9, <1>10, <1>11 DEF AccountInv

-----------------------------------------------------------------------------
LEMMA AccountInitHolds == AccountInit => AccountInv
<1> SUFFICES ASSUME AccountInit PROVE AccountInv
  OBVIOUS
<1> USE DEF AccountInit
<1>1. AccountTypeOK
  BY AccountsAssumption DEF AccountTypeOK
<1>2. AddressesSound /\ TasksSound /\ TasksFresh
  BY DEF AddressesSound, TasksSound, TasksFresh
<1>3. OneUnused /\ ResetOnce /\ NobodyLockedOut
  BY DEF OneUnused, ResetOnce, NobodyLockedOut, Unused
<1> QED BY <1>1, <1>2, <1>3 DEF AccountInv

(* Opening a task, for an address in its normal form.                      *)
LEMMA OpenHolds ==
  ASSUME AccountInv, NEW kind \in Kinds, NEW t \in Lower, NEW s \in Subs \cup {None},
         NEW is \in SUBSET Tokens, Open(kind, t, s, is),
         kind \in {"link", "forgot", "reset", "expire"} => account[t] # None,
         kind \in {"create", "link"} => s \in Subs,
         \A i \in is : token[i] # None /\ token[i].user = t,
         kind \in {"signup", "create"} => Admits(t),
         kind = "forgot" => Unused(t) \subseteq is,
         kind = "reset" => \A i \in is : ~token[i].used
  PROVE  AccountInv'
<1> DEFINE p == CHOOSE p \in Tasks : task[p] = None
           entry == [kind |-> kind, address |-> t, sub |-> s, tokens |-> is, fresh |-> TRUE]
<1>1. /\ p \in Tasks /\ task' = [task EXCEPT ![p] = entry]
      /\ issued' = None /\ UNCHANGED <<account, allowed, token, clock, stale>>
  BY DEF Open
<1>2. t \in Typed /\ entry \in Task
  BY DEF Lower, Task
<1> HIDE DEF p
<1>3. task \in [Tasks -> Task \cup {None}]
  BY DEF AccountInv, AccountTypeOK
<1>4. task' \in [Tasks -> Task \cup {None}]
  BY <1>1, <1>2, <1>3
<1>5. allowed' \subseteq [domain : Domains, subdomains : BOOLEAN]
  BY <1>1 DEF AccountInv, AccountTypeOK
<1>6. NobodyLockedOut'
  BY <1>1 DEF NobodyLockedOut
<1>7. \A q \in Tasks : q # p => task'[q] = task[q]
  BY <1>1, <1>3
<1>8. task'[p] = entry
  BY <1>1, <1>3
<1>9. /\ entry.kind = kind /\ entry.address = t /\ entry.tokens = is /\ entry.sub = s
  OBVIOUS
<1> HIDE DEF entry
<1>10. \A q \in Tasks : task'[q] # None =>
           \/ /\ task[q] # None
              /\ task'[q].kind = task[q].kind /\ task'[q].address = task[q].address
              /\ task'[q].tokens = task[q].tokens /\ task'[q].sub = task[q].sub
              /\ task'[q].fresh => task[q].fresh
              /\ task'[q].fresh /\ task[q].kind \in {"signup", "create"} => allowed' = allowed
           \/ /\ task'[q].address \in Lower
              /\ task'[q].kind \in {"link", "forgot", "reset", "expire"}
                    => account[task'[q].address] # None
              /\ task'[q].kind \in {"create", "link"} => task'[q].sub \in Subs
              /\ \A i \in task'[q].tokens : token[i] # None /\ token[i].user = task'[q].address
              /\ task'[q].kind \in {"signup", "create"} =>
                    Admits(task'[q].address) /\ allowed' = allowed
              /\ task'[q].kind = "forgot" => Unused(task'[q].address) \subseteq task'[q].tokens
              /\ task'[q].kind = "reset" => \A i \in task'[q].tokens : ~token[i].used
  <2> SUFFICES ASSUME NEW q \in Tasks, task'[q] # None, q = p
               PROVE  /\ task'[q].address \in Lower
                      /\ task'[q].kind \in {"link", "forgot", "reset", "expire"}
                            => account[task'[q].address] # None
                      /\ task'[q].kind \in {"create", "link"} => task'[q].sub \in Subs
                      /\ \A i \in task'[q].tokens :
                            token[i] # None /\ token[i].user = task'[q].address
                      /\ task'[q].kind \in {"signup", "create"} =>
                            Admits(task'[q].address) /\ allowed' = allowed
                      /\ task'[q].kind = "forgot" =>
                            Unused(task'[q].address) \subseteq task'[q].tokens
                      /\ task'[q].kind = "reset" => \A i \in task'[q].tokens : ~token[i].used
    BY <1>1, <1>7
  <2>1. task'[q].address = t /\ task'[q].kind = kind /\ task'[q].tokens = is
         /\ task'[q].sub = s
    BY <1>8, <1>9
  <2> QED BY <1>1, <2>1
<1> QED BY <1>1, <1>4, <1>5, <1>6, <1>10, TasksChange

(* Leaving with an answer, or with an error: a task may end, and no more.  *)
LEMMA LeaveHolds ==
  ASSUME AccountInv, UNCHANGED <<account, allowed, token, clock, stale>>,
         \/ task' = task
         \/ \E q \in Tasks : task' = [task EXCEPT ![q] = None],
         issued' \in [sub : Subs, address : Typed, account : Typed \cup {None}] \cup {None},
         NobodyLockedOut'
  PROVE  AccountInv'
<1>1. task \in [Tasks -> Task \cup {None}]
      /\ allowed \subseteq [domain : Domains, subdomains : BOOLEAN]
  BY DEF AccountInv, AccountTypeOK
<1>2. task' \in [Tasks -> Task \cup {None}]
      /\ \A q \in Tasks : task'[q] # None => task'[q] = task[q]
  BY <1>1
<1> QED BY <1>1, <1>2, TasksChange

LEMMA SignupHolds ==
  ASSUME AccountInv, NEW t \in Typed, Signup(t)
  PROVE  AccountInv'
<1>1. normalize_email(t) \in Lower
  BY Normal
<1>2. PICK n \in Lower : n = normalize_email(t)
  BY <1>1
<1>3. Admits(n) /\ Open("signup", n, None, {})
  BY <1>2 DEF Signup
<1>4. "signup" \in Kinds /\ "signup" \notin {"link", "forgot", "reset", "expire"}
  BY DEF Kinds
<1> QED BY <1>3, <1>4, OpenHolds

LEMMA ForgotHolds ==
  ASSUME AccountInv, NEW t \in Typed, ForgotPassword(t)
  PROVE  AccountInv'
<1>1. PICK n \in Lower : n = normalize_email(t)
  BY Normal
<1>2. account[n] # None /\ Open("forgot", n, None, Unused(n))
  BY <1>1 DEF ForgotPassword, Retired
<1>3. /\ "forgot" \in Kinds /\ Unused(n) \in SUBSET Tokens
      /\ \A i \in Unused(n) : token[i] # None /\ token[i].user = n
  BY DEF Kinds, Unused
<1> QED BY <1>2, <1>3, OpenHolds

LEMMA ResetHolds ==
  ASSUME AccountInv, NEW i \in Tokens, ResetPassword(i)
  PROVE  AccountInv'
<1>1. token[i].user \in Lower /\ account[token[i].user] # None /\ token[i] # None
  BY DEF ResetPassword, AccountInv, AddressesSound
<1>2. PICK n \in Lower : n = token[i].user
  BY <1>1
<1>3. PICK kind \in {"expire", "reset"} : Open(kind, n, None, {i})
  BY <1>2 DEF ResetPassword
<1>4. kind \in Kinds /\ {i} \in SUBSET Tokens /\ kind \notin {"signup", "create", "forgot"}
  BY DEF Kinds
<1>5. ~token[i].used
  BY DEF ResetPassword
<1> QED BY <1>1, <1>2, <1>3, <1>4, <1>5, OpenHolds

(* Somebody who is answered at once is an account's, or is refused for want*)
(* of one.                                                                 *)
LEMMA SignInHolds ==
  ASSUME AccountInv, NEW s \in Subs, NEW t \in Lower, SignIn(s, t)
  PROVE  AccountInv'
<1>1. t \in Typed
  BY DEF Lower
<1>2. ASSUME NEW a \in Typed \cup {None}, Answer(s, t, a),
             a = None => Holder(s) = {} /\ account[t] = None
      PROVE  AccountInv'
  <2>1. /\ issued' = [sub |-> s, address |-> t, account |-> a]
        /\ UNCHANGED <<account, allowed, token, task, clock, stale>>
    BY <1>2 DEF Answer, JwtFor
  <2>2. NobodyLockedOut'
    BY <1>2, <2>1 DEF NobodyLockedOut, Holder
  <2> QED BY <1>1, <2>1, <2>2, LeaveHolds
<1>3. CASE Holder(s) # {} /\ Answer(s, t, CHOOSE a \in Holder(s) : TRUE)
  <2>1. PICK a \in Typed : a = CHOOSE x \in Holder(s) : TRUE
    BY <1>3 DEF Holder
  <2>2. a # None
    BY AccountsAssumption
  <2> QED BY <1>2, <1>3, <2>1, <2>2
<1>4. CASE Holder(s) = {} /\ account[t] # None /\ Open("link", t, s, {})
  BY <1>4, OpenHolds DEF Kinds
<1>5. CASE /\ Holder(s) = {} /\ account[t] = None
           /\ IF Admits(t) THEN Open("create", t, s, {}) ELSE Answer(s, t, None)
  <2>1. CASE Admits(t)
    <3>1. "create" \in Kinds /\ "create" \notin {"link", "forgot", "reset", "expire"}
      BY DEF Kinds
    <3> QED BY <1>5, <2>1, <3>1, OpenHolds
  <2>2. CASE ~Admits(t)
    BY <1>2, <1>5, <2>2
  <2> QED BY <2>1, <2>2
<1> QED BY <1>3, <1>4, <1>5 DEF SignIn

(* The list of domains may change: whoever passed it is marked outdated.   *)
LEMMA GateMovedHolds ==
  ASSUME AccountInv, GateMoved, allowed' \subseteq [domain : Domains, subdomains : BOOLEAN],
         issued' = None, UNCHANGED <<account, token, clock, stale>>
  PROVE  AccountInv'
<1> DEFINE After(p) == IF task[p] # None /\ task[p].kind \in {"signup", "create"}
                       THEN [task[p] EXCEPT !.fresh = FALSE] ELSE task[p]
<1>1. task' = [p \in Tasks |-> After(p)]
  BY DEF GateMoved
<1>2. task \in [Tasks -> Task \cup {None}]
  BY DEF AccountInv, AccountTypeOK
<1>3. \A k \in Task : LET l == [k EXCEPT !.fresh = FALSE]
                      IN  l \in Task /\ l.kind = k.kind /\ l.address = k.address
                          /\ l.tokens = k.tokens /\ l.sub = k.sub /\ l.fresh = FALSE
  BY DEF Task
<1>4. ASSUME NEW p \in Tasks
      PROVE  /\ After(p) \in Task \cup {None}
             /\ After(p) # None =>
                  /\ task[p] # None
                  /\ After(p).kind = task[p].kind /\ After(p).address = task[p].address
                  /\ After(p).tokens = task[p].tokens /\ After(p).sub = task[p].sub
                  /\ After(p).fresh => task[p].fresh /\ task[p].kind \notin {"signup", "create"}
  <2>1. CASE task[p] # None /\ task[p].kind \in {"signup", "create"}
    <3>1. After(p) = [task[p] EXCEPT !.fresh = FALSE] /\ task[p] \in Task
      BY <1>2, <2>1
    <3> QED BY <1>3, <2>1, <3>1
  <2>2. CASE ~(task[p] # None /\ task[p].kind \in {"signup", "create"})
    <3>1. After(p) = task[p]
      BY <2>2
    <3> QED BY <1>2, <2>2, <3>1
  <2> QED BY <2>1, <2>2
<1> HIDE DEF After
<1>5. task' \in [Tasks -> Task \cup {None}]
  BY <1>1, <1>4
<1>6. \A q \in Tasks : task'[q] # None =>
         /\ task[q] # None
         /\ task'[q].kind = task[q].kind /\ task'[q].address = task[q].address
         /\ task'[q].tokens = task[q].tokens /\ task'[q].sub = task[q].sub
         /\ task'[q].fresh => task[q].fresh /\ task[q].kind \notin {"signup", "create"}
  BY <1>1, <1>4
<1>7. NobodyLockedOut'
  BY DEF NobodyLockedOut
<1> QED BY <1>5, <1>6, <1>7, TasksChange

-----------------------------------------------------------------------------
(* Facts about a task that is about to commit.                             *)
LEMMA Committing ==
  ASSUME AccountInv, NEW q \in Tasks, task[q] # None
  PROVE  /\ task[q] \in Task /\ task[q].address \in Typed /\ task[q].address \in Lower
         /\ task[q].tokens \subseteq Tokens
         /\ account \in [Typed -> UserRow \cup {None}] /\ token \in [Tokens -> Token \cup {None}]
         /\ clock \in 0..LastTick
BY DEF AccountInv, AccountTypeOK, TasksSound, Task

LEMMA RaiseHolds ==
  ASSUME AccountInv, NEW q \in Tasks, Raise(q)
  PROVE  AccountInv'
<1>1. NobodyLockedOut'
  BY DEF Raise, NobodyLockedOut
<1> QED BY <1>1, LeaveHolds DEF Raise

(* A commit that leaves the tokens alone.                                  *)
LEMMA AccountCommit ==
  ASSUME AccountInv, NEW q \in Tasks, task[q] # None, NEW t \in Typed, task[q].address = t,
         Close(q), UNCHANGED token, NEW r \in UserRow, account' = [account EXCEPT ![t] = r],
         \/ issued' = None
         \/ \E s \in Subs : JwtFor(s, t, t)
  PROVE  AccountInv'
<1>1. account \in [Typed -> UserRow \cup {None}] /\ token \in [Tokens -> Token \cup {None}]
  BY Committing
<1>2. r # None /\ t # None
  BY AccountsAssumption
<1>3. account' \in [Typed -> UserRow \cup {None}]
  BY <1>1
<1>4. \A x \in Typed : /\ x # t => account'[x] = account[x]
                       /\ account[x] # None => account'[x] # None
  BY <1>1, <1>2
<1>5. Unused(t)' = Unused(t)
  BY DEF Unused
<1>6. t \notin stale => \A i, j \in Unused(t)' : i = j
  BY <1>5 DEF AccountInv, OneUnused
<1>7. t \notin stale => \A i \in Tokens : token'[i] # None /\ token'[i].user = t
         => token'[i].resets <= (IF token'[i].used THEN 1 ELSE 0)
  BY DEF AccountInv, ResetOnce
<1>8. issued' \in [sub : Subs, address : Typed, account : Typed \cup {None}] \cup {None}
      /\ NobodyLockedOut'
  BY <1>2 DEF JwtFor, NobodyLockedOut
<1> QED BY <1>1, <1>3, <1>4, <1>6, <1>7, <1>8, CommitChange

LEMMA SignupCommitHolds ==
  ASSUME AccountInv, NEW q \in Tasks, task[q] # None, SignupCommit(q)
  PROVE  AccountInv'
<1>1. PICK t \in Typed : t = task[q].address
  BY Committing
<1>2. CASE account[t] # None
  BY <1>1, <1>2, RaiseHolds DEF SignupCommit
<1>3. CASE account[t] = None
  <2> DEFINE r == [password |-> TRUE, sub |-> None]
  <2>1. r \in UserRow
    BY DEF UserRow
  <2>2. account' = [account EXCEPT ![t] = r] /\ Close(q) /\ issued' = None /\ UNCHANGED token
    BY <1>1, <1>3 DEF SignupCommit
  <2> HIDE DEF r
  <2> QED BY <1>1, <2>1, <2>2, AccountCommit
<1> QED BY <1>2, <1>3

LEMMA CreateCommitHolds ==
  ASSUME AccountInv, NEW q \in Tasks, task[q] # None, CreateCommit(q)
  PROVE  AccountInv'
<1>1. PICK t \in Typed : t = task[q].address
  BY Committing
<1>2. PICK s \in Subs : s = task[q].sub
  BY DEF AccountInv, TasksSound, CreateCommit
<1>3. CASE account[t] # None \/ Holder(s) # {}
  <2>1. /\ \E a \in Winner(s, t) : JwtFor(s, t, a)
        /\ task' = [task EXCEPT ![q] = None]
        /\ UNCHANGED <<account, allowed, token, clock, stale>>
    BY <1>1, <1>2, <1>3 DEF CreateCommit
  <2>2. PICK a \in Winner(s, t) : JwtFor(s, t, a)
    BY <2>1
  <2>3. a \in Typed /\ a # None
    BY AccountsAssumption DEF Winner, Holder
  <2>4. issued' = [sub |-> s, address |-> t, account |-> a]
    BY <2>2 DEF JwtFor
  <2>5. NobodyLockedOut'
    BY <2>3, <2>4 DEF NobodyLockedOut
  <2> QED BY <2>1, <2>3, <2>4, <2>5, LeaveHolds
<1>4. CASE ~(account[t] # None \/ Holder(s) # {})
  <2> DEFINE r == [password |-> FALSE, sub |-> s]
  <2>1. r \in UserRow
    BY DEF UserRow
  <2>2. account' = [account EXCEPT ![t] = r] /\ Close(q) /\ JwtFor(s, t, t) /\ UNCHANGED token
    BY <1>1, <1>2, <1>4 DEF CreateCommit
  <2> HIDE DEF r
  <2> QED BY <1>1, <2>1, <2>2, AccountCommit
<1> QED BY <1>3, <1>4

LEMMA LinkCommitHolds ==
  ASSUME AccountInv, NEW q \in Tasks, task[q] # None, LinkCommit(q)
  PROVE  AccountInv'
<1>1. PICK t \in Typed : t = task[q].address
  BY Committing
<1>2. PICK s \in Subs : s = task[q].sub
  BY DEF AccountInv, TasksSound, LinkCommit
<1>3. CASE Holder(s) \ {t} # {}
  BY <1>1, <1>2, <1>3, RaiseHolds DEF LinkCommit
<1>4. CASE ~(Holder(s) \ {t} # {})
  <2> DEFINE r == [account[t] EXCEPT !.sub = s]
  <2>1. account[t] \in UserRow
    <3>1. account[t] # None
      BY <1>1 DEF AccountInv, TasksSound, LinkCommit
    <3> QED BY <3>1, Committing
  <2>2. r \in UserRow
    BY <2>1 DEF UserRow
  <2>3. account' = [account EXCEPT ![t] = r] /\ Close(q) /\ JwtFor(s, t, t) /\ UNCHANGED token
    BY <1>1, <1>2, <1>4 DEF LinkCommit
  <2> HIDE DEF r
  <2> QED BY <1>1, <2>2, <2>3, AccountCommit
<1> QED BY <1>3, <1>4

(* A commit that leaves the accounts alone, and tokens of other addresses. *)
LEMMA TokenCommit ==
  ASSUME AccountInv, NEW q \in Tasks, task[q] # None, NEW t \in Typed, task[q].address = t,
         Close(q), issued' = None,
         account' \in [Typed -> UserRow \cup {None}],
         \A x \in Typed : /\ x # t => account'[x] = account[x]
                          /\ account[x] # None => account'[x] # None,
         account'[t] # None,
         token' \in [Tokens -> Token \cup {None}],
         \A i \in Tokens : \/ token'[i] = token[i]
                           \/ /\ token'[i] # None /\ token'[i].user = t
                              /\ token[i] # None => token[i].user = t,
         task[q].fresh /\ t \notin stale => \A i, j \in Unused(t)' : i = j,
         task[q].fresh /\ t \notin stale =>
            \A i \in Tokens : token'[i] # token[i]
                => token'[i].resets <= (IF token'[i].used THEN 1 ELSE 0)
  PROVE  AccountInv'
<1>1. task[q].fresh /\ t \notin stale =>
         \A i \in Tokens : token'[i] # None /\ token'[i].user = t
             => token'[i].resets <= (IF token'[i].used THEN 1 ELSE 0)
  BY DEF AccountInv, ResetOnce
<1>2. NobodyLockedOut'
  BY DEF NobodyLockedOut
<1> QED BY <1>1, <1>2, CommitChange

LEMMA ForgotCommitHolds ==
  ASSUME AccountInv, NEW q \in Tasks, task[q] # None, ForgotCommit(q)
  PROVE  AccountInv'
<1> DEFINE new == CHOOSE i \in {j \in Tokens : token[j] = None} : TRUE
           entry == [user |-> task[q].address, used |-> FALSE,
                    expires |-> clock + Lifetime, resets |-> 0]
           After(i) == IF i = new THEN entry
                       ELSE IF i \in task[q].tokens THEN [token[i] EXCEPT !.used = TRUE]
                       ELSE token[i]
<1>1. PICK t \in Typed : t = task[q].address
  BY Committing
<1>2. /\ task[q].kind = "forgot" /\ new \in Tokens /\ token[new] = None
      /\ token' = [i \in Tokens |-> After(i)]
      /\ Close(q) /\ issued' = None /\ account' = account
  BY DEF ForgotCommit
<1>3. /\ account[t] # None
      /\ \A i \in task[q].tokens : i \in Tokens /\ token[i] # None /\ token[i].user = t
  BY <1>1, <1>2, Committing DEF AccountInv, TasksSound
<1>4. entry \in Token /\ entry.user = t /\ entry.resets = 0 /\ entry.used = FALSE
  <2>1. clock + Lifetime \in Nat
    BY Committing, AccountsAssumption
  <2> QED BY <1>1, <2>1 DEF Token
<1>5. \A k \in Token : LET l == [k EXCEPT !.used = TRUE]
                       IN  l \in Token /\ l.user = k.user /\ l.resets = k.resets /\ l.used = TRUE
  BY DEF Token
<1>6. token \in [Tokens -> Token \cup {None}] /\ account \in [Typed -> UserRow \cup {None}]
  BY Committing
<1>7. ASSUME NEW i \in Tokens
      PROVE  /\ After(i) \in Token \cup {None}
             /\ i = new => After(i) = entry
             /\ i # new /\ i \in task[q].tokens =>
                   /\ After(i) # None /\ After(i).user = t /\ After(i).used
                   /\ After(i).resets = token[i].resets
             /\ i # new /\ i \notin task[q].tokens => After(i) = token[i]
  <2>1. CASE i = new
    BY <1>4, <2>1
  <2>2. CASE i # new /\ i \in task[q].tokens
    <3>1. After(i) = [token[i] EXCEPT !.used = TRUE] /\ token[i] \in Token /\ token[i].user = t
      BY <1>3, <1>6, <2>2
    <3>2. None \notin Token
      BY AccountsAssumption
    <3> HIDE DEF After
    <3> QED BY <1>5, <2>2, <3>1, <3>2
  <2>3. CASE i # new /\ i \notin task[q].tokens
    BY <1>6, <2>3
  <2> QED BY <2>1, <2>2, <2>3
<1>8. entry # None
  BY <1>4, AccountsAssumption
<1> HIDE DEF After, new, entry
<1>9. token' \in [Tokens -> Token \cup {None}]
  BY <1>2, <1>7
<1>10. \A i \in Tokens : \/ token'[i] = token[i]
                         \/ /\ token'[i] # None /\ token'[i].user = t
                            /\ token[i] # None => token[i].user = t
  BY <1>2, <1>3, <1>4, <1>7, <1>8
<1>11. task[q].fresh => \A i, j \in Unused(t)' : i = j
  <2> SUFFICES ASSUME task[q].fresh, NEW i \in Unused(t)' PROVE i = new
    OBVIOUS
  <2>1. i \in Tokens /\ token'[i] # None /\ token'[i].user = t /\ ~token'[i].used
    BY DEF Unused
  <2>2. Unused(t) \subseteq task[q].tokens
    BY <1>1, <1>2 DEF AccountInv, TasksFresh
  <2>3. CASE i # new /\ i \in task[q].tokens
    BY <1>2, <1>7, <2>1, <2>3
  <2>4. CASE i # new /\ i \notin task[q].tokens
    <3>1. token'[i] = token[i]
      BY <1>2, <1>7, <2>1, <2>4
    <3>2. i \in Unused(t)
      BY <2>1, <3>1 DEF Unused
    <3> QED BY <2>2, <2>4, <3>2
  <2> QED BY <2>3, <2>4
<1>12. t \notin stale => \A i \in Tokens : token'[i] # token[i]
          => token'[i].resets <= (IF token'[i].used THEN 1 ELSE 0)
  <2> SUFFICES ASSUME t \notin stale, NEW i \in Tokens, token'[i] # token[i]
               PROVE  token'[i].resets <= (IF token'[i].used THEN 1 ELSE 0)
    OBVIOUS
  <2>1. CASE i = new
    BY <1>2, <1>4, <1>7, <2>1
  <2>2. CASE i # new
    <3>1. /\ i \in task[q].tokens /\ token'[i].used /\ token'[i].resets = token[i].resets
          /\ token[i] # None /\ token[i].user = t /\ token[i] \in Token
      BY <1>2, <1>3, <1>6, <1>7, <2>2
    <3>2. token[i].resets <= (IF token[i].used THEN 1 ELSE 0) /\ token[i].resets \in Nat
      BY <3>1 DEF AccountInv, ResetOnce, Token
    <3> QED BY <3>1, <3>2
  <2> QED BY <2>1, <2>2
<1> QED BY <1>1, <1>2, <1>3, <1>6, <1>9, <1>10, <1>11, <1>12, TokenCommit

(* One token of the task's own is used, and once more if it was reset.     *)
LEMMA SpendHolds ==
  ASSUME AccountInv, NEW q \in Tasks, task[q] # None, NEW h \in task[q].tokens,
         task[q].kind \in {"reset", "expire"}, Close(q), issued' = None,
         NEW more \in {0, 1}, task[q].kind # "reset" => more = 0,
         token' = [token EXCEPT ![h] = [token[h] EXCEPT !.used = TRUE,
                                                        !.resets = token[h].resets + more]],
         account' \in [Typed -> UserRow \cup {None}],
         \A x \in Typed : /\ x # task[q].address => account'[x] = account[x]
                          /\ account[x] # None => account'[x] # None
  PROVE  AccountInv'
<1> DEFINE entry == [token[h] EXCEPT !.used = TRUE, !.resets = token[h].resets + more]
<1>1. PICK t \in Typed : t = task[q].address
  BY Committing
<1>2. /\ h \in Tokens /\ token[h] # None /\ token[h].user = t /\ account[t] # None
      /\ token \in [Tokens -> Token \cup {None}]
  BY <1>1, Committing DEF AccountInv, TasksSound
<1>3. /\ token[h] \in Token /\ token[h].resets \in Nat
      /\ entry \in Token /\ entry.user = t /\ entry.used = TRUE /\ entry.resets = token[h].resets + more
  <2>1. token[h] \in Token /\ token[h].user = t
    BY <1>2
  <2>2. token[h].resets \in Nat /\ token[h].resets + more \in Nat
    BY <2>1 DEF Token
  <2>3. \A n \in Nat, k \in Token :
           LET l == [k EXCEPT !.used = TRUE, !.resets = n]
           IN  l \in Token /\ l.user = k.user /\ l.used = TRUE /\ l.resets = n
    BY DEF Token
  <2>4. /\ entry \in Token /\ entry.user = token[h].user /\ entry.used = TRUE
        /\ entry.resets = token[h].resets + more
    BY <2>1, <2>2, <2>3
  <2> HIDE DEF entry
  <2> QED BY <2>1, <2>2, <2>4
<1>4. entry # None
  BY <1>3, AccountsAssumption
<1>5. token' = [token EXCEPT ![h] = entry]
  OBVIOUS
<1> HIDE DEF entry
<1>6. /\ token' \in [Tokens -> Token \cup {None}] /\ token'[h] = entry
      /\ \A i \in Tokens : i # h => token'[i] = token[i]
  BY <1>2, <1>3, <1>5
<1>7. Unused(t)' \subseteq Unused(t)
  BY <1>2, <1>3, <1>6 DEF Unused
<1>8. t \notin stale => \A i, j \in Unused(t)' : i = j
  BY <1>7 DEF AccountInv, OneUnused
<1>9. task[q].fresh /\ t \notin stale => entry.resets <= 1
  <2> SUFFICES ASSUME task[q].fresh, t \notin stale PROVE entry.resets <= 1
    OBVIOUS
  <2>1. token[h].resets <= (IF token[h].used THEN 1 ELSE 0)
    BY <1>2 DEF AccountInv, ResetOnce
  <2>2. CASE task[q].kind = "reset"
    <3>1. ~token[h].used
      BY <1>1, <2>2 DEF AccountInv, TasksFresh
    <3> QED BY <1>3, <2>1, <3>1
  <2>3. CASE task[q].kind # "reset"
    BY <1>3, <2>1, <2>3
  <2> QED BY <2>2, <2>3
<1>10. task[q].fresh /\ t \notin stale =>
          \A i \in Tokens : token'[i] # token[i]
              => token'[i].resets <= (IF token'[i].used THEN 1 ELSE 0)
  BY <1>3, <1>6, <1>9
<1>11. /\ \A i \in Tokens : \/ token'[i] = token[i]
                            \/ /\ token'[i] # None /\ token'[i].user = t
                               /\ token[i] # None => token[i].user = t
       /\ account'[t] # None
       /\ \A x \in Typed : /\ x # t => account'[x] = account[x]
                           /\ account[x] # None => account'[x] # None
  BY <1>1, <1>2, <1>3, <1>4, <1>6
<1> QED BY <1>1, <1>6, <1>8, <1>10, <1>11, TokenCommit

LEMMA ResetCommitHolds ==
  ASSUME AccountInv, NEW q \in Tasks, task[q] # None, ResetCommit(q)
  PROVE  AccountInv'
<1>1. PICK t \in Typed : t = task[q].address
  BY Committing
<1>2. PICK h \in task[q].tokens :
         /\ task[q].kind = "reset"
         /\ account' = [account EXCEPT ![t].password = TRUE]
         /\ token' = Spent(h) /\ Close(q) /\ issued' = None
  BY <1>1 DEF ResetCommit
<1>3. account[t] # None
  BY <1>1, <1>2 DEF AccountInv, TasksSound
<1>4. PICK r \in UserRow : r = [account[t] EXCEPT !.password = TRUE]
  <2>1. account[t] \in UserRow
    BY <1>3, Committing
  <2> QED BY <2>1 DEF UserRow
<1>5. account' = [account EXCEPT ![t] = r]
  BY <1>2, <1>4
<1>6. account' \in [Typed -> UserRow \cup {None}]
      /\ \A x \in Typed : /\ x # t => account'[x] = account[x]
                          /\ account[x] # None => account'[x] # None
  BY <1>5, Committing, AccountsAssumption
<1>7. token' = [token EXCEPT ![h] = [token[h] EXCEPT !.used = TRUE,
                                                     !.resets = token[h].resets + 1]]
  BY <1>2 DEF Spent
<1> QED BY <1>1, <1>2, <1>6, <1>7, SpendHolds

LEMMA ExpireCommitHolds ==
  ASSUME AccountInv, NEW q \in Tasks, task[q] # None, ExpireCommit(q)
  PROVE  AccountInv'
<1>1. PICK h \in task[q].tokens :
         /\ task[q].kind = "expire"
         /\ token' = [token EXCEPT ![h].used = TRUE]
         /\ Close(q) /\ issued' = None /\ account' = account
  BY DEF ExpireCommit
<1>2. token[h] \in Token
  BY Committing DEF AccountInv, TasksSound
<1>3. [token[h] EXCEPT !.used = TRUE]
         = [token[h] EXCEPT !.used = TRUE, !.resets = token[h].resets + 0]
  <2>1. token[h].resets + 0 = token[h].resets
    BY <1>2 DEF Token
  <2> QED BY <1>2, <2>1 DEF Token
<1>4. token' = [token EXCEPT ![h] = [token[h] EXCEPT !.used = TRUE,
                                                     !.resets = token[h].resets + 0]]
  BY <1>1, <1>3
<1> QED BY <1>1, <1>4, Committing, SpendHolds

-----------------------------------------------------------------------------
LEMMA AccountStepHolds == AccountInv /\ [AccountNext]_accountVars => AccountInv'
<1> SUFFICES ASSUME AccountInv, [AccountNext]_accountVars PROVE AccountInv'
  OBVIOUS
<1>1. ASSUME NEW s \in Subs, NEW t \in Typed, GoogleAuth(s, t) PROVE AccountInv'
  <2>1. PICK n \in Lower : n = normalize_email(t)
    BY Normal
  <2> QED BY <1>1, <2>1, SignInHolds DEF GoogleAuth
<1>2. ASSUME NEW d \in Domains, NEW b \in BOOLEAN, AddAllowedDomain(d, b) PROVE AccountInv'
  <2>1. [domain |-> d, subdomains |-> b] \in [domain : Domains, subdomains : BOOLEAN]
    OBVIOUS
  <2>2. allowed' \subseteq [domain : Domains, subdomains : BOOLEAN]
    BY <1>2, <2>1 DEF AddAllowedDomain, AccountInv, AccountTypeOK
  <2> QED BY <1>2, <2>2, GateMovedHolds DEF AddAllowedDomain
<1>3. ASSUME NEW d \in Domains, RemoveAllowedDomain(d) PROVE AccountInv'
  <2>1. allowed' \subseteq [domain : Domains, subdomains : BOOLEAN]
    BY <1>3 DEF RemoveAllowedDomain, AccountInv, AccountTypeOK
  <2> QED BY <1>3, <2>1, GateMovedHolds DEF RemoveAllowedDomain
<1>4. ASSUME NEW q \in Tasks, CommitTask(q) PROVE AccountInv'
  BY <1>4, SignupCommitHolds, CreateCommitHolds, LinkCommitHolds, ForgotCommitHolds,
     ResetCommitHolds, ExpireCommitHolds DEF CommitTask
<1>5. CASE AccountTick
  <2>1. AccountTypeOK'
    BY <1>5, AccountsAssumption DEF AccountTick, AccountInv, AccountTypeOK
  <2>2. AddressesSound' /\ TasksSound'
    BY <1>5 DEF AccountTick, AccountInv, AddressesSound, TasksSound
  <2>3. TasksFresh'
    BY <1>5 DEF AccountTick, AccountInv, TasksFresh, Admits, Unused
  <2>4. OneUnused' /\ ResetOnce' /\ NobodyLockedOut'
    BY <1>5 DEF AccountTick, AccountInv, OneUnused, ResetOnce, NobodyLockedOut, Unused
  <2> QED BY <2>1, <2>2, <2>3, <2>4 DEF AccountInv
<1>6. CASE UNCHANGED accountVars
  <2>1. UNCHANGED <<account, allowed, token, task, clock, stale, issued>>
    BY <1>6 DEF accountVars
  <2>2. NobodyLockedOut'
    BY <2>1 DEF AccountInv, NobodyLockedOut, Holder
  <2>3. issued' \in [sub : Subs, address : Typed, account : Typed \cup {None}] \cup {None}
    BY <2>1 DEF AccountInv, AccountTypeOK
  <2> QED BY <2>1, <2>2, <2>3, LeaveHolds
<1> QED BY <1>1, <1>2, <1>3, <1>4, <1>5, <1>6, SignupHolds, ForgotHolds, ResetHolds
        DEF AccountNext

LEMMA AccountInvariant == AccountSpec => []AccountInv
BY AccountInitHolds, AccountStepHolds, PTL DEF AccountSpec

(* Accounts, links, tasks and what is issued keep their types.             *)
THEOREM AccountTypeCorrect == AccountSpec => []AccountTypeOK
<1>1. AccountInv => AccountTypeOK
  BY DEF AccountInv
<1> QED BY <1>1, AccountInvariant, PTL

(* One account per address however it is typed; nobody with an account is  *)
(* refused; and only the link last sent can set a password, and only once, *)
(* for every number of people, addresses, links and overlapping requests.  *)
THEOREM AccountsAlwaysHold == AccountSpec => []AccountsHold
<1>1. ASSUME AccountInv PROVE AccountsHold
  <2>1. OneAccountPerAddress
    BY <1>1, Normal DEF AccountInv, AddressesSound, OneAccountPerAddress
  <2>2. ASSUME NEW t \in Typed \ stale
        PROVE  Cardinality({i \in Unused(t) : ~Expired(i)}) <= 1
    <3> DEFINE S == {i \in Unused(t) : ~Expired(i)}
    <3>1. \A i, j \in S : i = j
      BY <1>1 DEF AccountInv, OneUnused
    <3> HIDE DEF S
    <3>2. CASE S = {}
      <4>1. Cardinality(S) = 0
        BY <3>2, FS_EmptySet
      <4> QED BY <4>1 DEF S
    <3>3. CASE S # {}
      <4>1. PICK i : S = {i}
        BY <3>1, <3>3
      <4>2. Cardinality(S) = 1
        BY <4>1, FS_Singleton
      <4> QED BY <4>2 DEF S
    <3> QED BY <3>2, <3>3
  <2>3. OneLiveToken
    BY <1>1, <2>2 DEF AccountInv, ResetOnce, OneLiveToken
  <2> QED BY <1>1, <2>1, <2>3 DEF AccountsHold, AccountInv
<1> QED BY <1>1, AccountInvariant, PTL

(* Of a commit: an account appears for the task's address, and for that of *)
(* a signup or a first sign-in only.                                       *)
LEMMA CommitsAdmit ==
  ASSUME AccountInv, NEW q \in Tasks, CommitTask(q)
  PROVE  SignedInAsOneself /\ OnlyAdmittedSignUp
<1>1. /\ task[q] # None /\ task[q] \in Task /\ task \in [Tasks -> Task \cup {None}]
      /\ account \in [Typed -> UserRow \cup {None}]
  BY Committing DEF CommitTask, AccountInv, AccountTypeOK
<1>2. PICK t \in Typed : t = task[q].address
  BY <1>1, Committing
<1>3. ASSUME issued' = None PROVE SignedInAsOneself
  BY <1>3 DEF SignedInAsOneself
<1>4. ASSUME account' = account PROVE OnlyAdmittedSignUp
  BY <1>4 DEF OnlyAdmittedSignUp
<1>5. ASSUME Close(q), \A x \in Typed : account[x] = None /\ account'[x] # None => x = t,
             task[q].fresh => Admits(t)
      PROVE  OnlyAdmittedSignUp
  <2> SUFFICES ASSUME NEW p \in Tasks, task[p] # None, task'[p] = None, task[p].fresh,
                      NEW x \in Typed, account[x] = None, account'[x] # None
               PROVE  Admits(x)
    BY DEF OnlyAdmittedSignUp
  <2>1. CASE p = q
    BY <1>5, <2>1
  <2>2. CASE p # q
    <3>1. task'[p] = IF task[p].address = t THEN [task[p] EXCEPT !.fresh = FALSE] ELSE task[p]
      BY <1>2, <1>5, <2>2 DEF Close
    <3>2. \A k \in Task : [k EXCEPT !.fresh = FALSE] \in Task
      BY DEF Task
    <3>3. task'[p] \in Task
      BY <1>1, <3>1, <3>2
    <3> QED BY <3>3, AccountsAssumption
  <2> QED BY <2>1, <2>2
<1>6. ASSUME task[q].kind \in {"signup", "create"}, task[q].fresh PROVE Admits(t)
  BY <1>1, <1>2, <1>6 DEF AccountInv, TasksFresh
<1>7. CASE SignupCommit(q)
  <2>1. issued' = None
    BY <1>7 DEF SignupCommit, Raise
  <2>2. CASE account[t] # None
    BY <1>2, <1>3, <1>4, <1>7, <2>1, <2>2 DEF SignupCommit, Raise
  <2>3. CASE account[t] = None
    <3>1. /\ account' = [account EXCEPT ![t] = [password |-> TRUE, sub |-> None]]
          /\ Close(q) /\ task[q].kind = "signup"
      BY <1>2, <1>7, <2>3 DEF SignupCommit
    <3>2. \A x \in Typed : account[x] = None /\ account'[x] # None => x = t
      BY <1>1, <3>1
    <3> QED BY <1>3, <1>5, <1>6, <2>1, <3>1, <3>2
  <2> QED BY <2>2, <2>3
<1>8. CASE CreateCommit(q)
  <2>1. PICK s \in Subs : s = task[q].sub
    BY <1>1, <1>8 DEF AccountInv, TasksSound, CreateCommit
  <2>2. CASE account[t] # None \/ Holder(s) # {}
    <3>1. PICK a \in Winner(s, t) : JwtFor(s, t, a)
      BY <1>2, <1>8, <2>1, <2>2 DEF CreateCommit
    <3>2. account' = account
      BY <1>2, <1>8, <2>1, <2>2 DEF CreateCommit
    <3>3. issued' = [sub |-> s, address |-> t, account |-> a]
      BY <3>1 DEF JwtFor
    <3>4. a \in Typed /\ account[a] # None /\ (account[a].sub = s \/ a = t)
      BY DEF Winner, Holder
    <3>5. SignedInAsOneself
      BY <3>2, <3>3, <3>4 DEF SignedInAsOneself
    <3> QED BY <1>4, <3>2, <3>5
  <2>3. CASE ~(account[t] # None \/ Holder(s) # {})
    <3> DEFINE r == [password |-> FALSE, sub |-> s]
    <3>1. /\ account' = [account EXCEPT ![t] = r] /\ Close(q) /\ JwtFor(s, t, t)
          /\ task[q].kind = "create"
      BY <1>2, <1>8, <2>1, <2>3 DEF CreateCommit
    <3>2. r.sub = s /\ r \in UserRow
      BY DEF UserRow
    <3> HIDE DEF r
    <3>3. /\ \A x \in Typed : account[x] = None /\ account'[x] # None => x = t
          /\ account'[t] = r /\ r # None
      BY <1>1, <3>1, <3>2, AccountsAssumption
    <3>4. SignedInAsOneself
      BY <3>1, <3>2, <3>3 DEF JwtFor, SignedInAsOneself
    <3> QED BY <1>5, <1>6, <3>1, <3>3, <3>4
  <2> QED BY <2>2, <2>3
<1>9. CASE LinkCommit(q)
  <2>1. PICK s \in Subs : s = task[q].sub
    BY <1>1, <1>9 DEF AccountInv, TasksSound, LinkCommit
  <2>2. account[t] # None /\ account[t] \in UserRow
    BY <1>1, <1>2, <1>9 DEF AccountInv, TasksSound, LinkCommit
  <2>3. CASE Holder(s) \ {t} # {}
    <3>1. issued' = None /\ account' = account
      BY <1>2, <1>9, <2>1, <2>3 DEF LinkCommit, Raise
    <3> QED BY <1>3, <1>4, <3>1
  <2>4. CASE ~(Holder(s) \ {t} # {})
    <3> DEFINE r == [account[t] EXCEPT !.sub = s]
    <3>1. account' = [account EXCEPT ![t] = r] /\ JwtFor(s, t, t)
      BY <1>2, <1>9, <2>1, <2>4 DEF LinkCommit
    <3>2. r.sub = s /\ r \in UserRow
      BY <2>2 DEF UserRow
    <3> HIDE DEF r
    <3>3. /\ \A x \in Typed : account[x] = None => account'[x] = None
          /\ account'[t] = r /\ r # None
      BY <1>1, <2>2, <3>1, <3>2, AccountsAssumption
    <3>4. SignedInAsOneself
      BY <3>1, <3>2, <3>3 DEF JwtFor, SignedInAsOneself
    <3>5. OnlyAdmittedSignUp
      BY <3>3 DEF OnlyAdmittedSignUp
    <3> QED BY <3>4, <3>5
  <2> QED BY <2>3, <2>4
<1>10. CASE ForgotCommit(q)
  BY <1>3, <1>4, <1>10 DEF ForgotCommit
<1>11. CASE ResetCommit(q)
  <2>1. issued' = None /\ account' = [account EXCEPT ![t].password = TRUE]
    BY <1>2, <1>11 DEF ResetCommit
  <2>2. account[t] # None
    BY <1>1, <1>2, <1>11 DEF AccountInv, TasksSound, ResetCommit
  <2>3. \A x \in Typed : account[x] = None => account'[x] = None
    BY <1>1, <2>1, <2>2
  <2> QED BY <1>3, <2>1, <2>3 DEF OnlyAdmittedSignUp
<1>12. CASE ExpireCommit(q)
  BY <1>3, <1>4, <1>12 DEF ExpireCommit
<1> QED BY <1>7, <1>8, <1>9, <1>10, <1>11, <1>12 DEF CommitTask

(* Every step keeps both promises of OnlyOneself.                          *)
LEMMA StepsAdmit ==
  ASSUME AccountInv, AccountNext
  PROVE  SignedInAsOneself /\ OnlyAdmittedSignUp
<1>1. ASSUME account' = account, issued' = None PROVE SignedInAsOneself /\ OnlyAdmittedSignUp
  BY <1>1 DEF SignedInAsOneself, OnlyAdmittedSignUp
<1>2. ASSUME NEW s \in Subs, NEW t \in Typed, GoogleAuth(s, t)
      PROVE  SignedInAsOneself /\ OnlyAdmittedSignUp
  <2>1. PICK n \in Lower : n = normalize_email(t)
    BY Normal
  <2>2. ASSUME NEW a, Answer(s, n, a),
               a # None => account[a] # None /\ account[a].sub = s
        PROVE  SignedInAsOneself /\ OnlyAdmittedSignUp
    <3>1. /\ issued' = [sub |-> s, address |-> n, account |-> a]
          /\ account' = account
      BY <2>2 DEF Answer, JwtFor
    <3> QED BY <2>2, <3>1 DEF SignedInAsOneself, OnlyAdmittedSignUp
  <2>3. CASE Holder(s) # {} /\ Answer(s, n, CHOOSE a \in Holder(s) : TRUE)
    <3>1. PICK a \in Holder(s) : a = CHOOSE x \in Holder(s) : TRUE
      BY <2>3
    <3>2. account[a] # None /\ account[a].sub = s
      BY DEF Holder
    <3> QED BY <2>2, <2>3, <3>1, <3>2
  <2>4. CASE Answer(s, n, None)
    BY <2>2, <2>4
  <2>5. ASSUME NEW kind, Open(kind, n, s, {})
        PROVE  SignedInAsOneself /\ OnlyAdmittedSignUp
    BY <1>1, <2>5 DEF Open
  <2> QED BY <1>2, <2>1, <2>3, <2>4, <2>5 DEF GoogleAuth, SignIn
<1>3. ASSUME NEW t \in Typed, Signup(t) \/ ForgotPassword(t)
      PROVE  SignedInAsOneself /\ OnlyAdmittedSignUp
  BY <1>1, <1>3 DEF Signup, ForgotPassword, Open
<1>4. ASSUME NEW i \in Tokens, ResetPassword(i) PROVE SignedInAsOneself /\ OnlyAdmittedSignUp
  BY <1>1, <1>4 DEF ResetPassword, Open
<1>5. ASSUME NEW d \in Domains, NEW b \in BOOLEAN, AddAllowedDomain(d, b)
      PROVE  SignedInAsOneself /\ OnlyAdmittedSignUp
  BY <1>1, <1>5 DEF AddAllowedDomain
<1>6. ASSUME NEW d \in Domains, RemoveAllowedDomain(d)
      PROVE  SignedInAsOneself /\ OnlyAdmittedSignUp
  BY <1>1, <1>6 DEF RemoveAllowedDomain
<1>7. CASE AccountTick
  BY <1>1, <1>7 DEF AccountTick
<1> QED BY <1>2, <1>3, <1>4, <1>5, <1>6, <1>7, CommitsAdmit DEF AccountNext

(* However requests overlap, whoever signs in is signed in to an account of*)
(* theirs, and an account appears only for an address the list of domains  *)
(* admits, unless the list changed after the check.                        *)
THEOREM OnlyAlwaysOneself == AccountSpec => OnlyOneself
<1> DEFINE Step == SignedInAsOneself /\ OnlyAdmittedSignUp
<1>1. AccountInv /\ [AccountNext]_accountVars => [Step]_accountVars
  BY StepsAdmit
<1>2. AccountSpec => [][Step]_accountVars
  BY <1>1, AccountInvariant, PTL DEF AccountSpec
<1> QED BY <1>2 DEF OnlyOneself

-----------------------------------------------------------------------------
(* Keys.                                                                   *)

(* No two rows share a secret, and none has one that was replaced.         *)
SecretsFresh ==
    \A k \in KeyIds : key[k] # None =>
        /\ key[k].secret <= minted /\ key[k].secret \notin replaced
        /\ \A l \in KeyIds : key[l] # None /\ key[l].secret = key[k].secret => l = k

(* What a user was granted in the last window is still on the user's list. *)
GrantsListed ==
    \A u \in Holders :
        /\ \A i \in DOMAIN granted[u] : granted[u][i] <= time
        /\ Recent(u, DOMAIN granted[u]) \subseteq stamps[u]

KeyInv == KeyTypeOK /\ SecretsFresh /\ GrantsListed /\ RateHolds

-----------------------------------------------------------------------------
(* The lists, after what a request sweeps, still hold what is recent.      *)
LEMMA SweptKeepsRecent ==
  ASSUME KeyTypeOK, GrantsListed
  PROVE  /\ Swept \in [Holders -> SUBSET Nat]
         /\ \A u \in Holders : Swept[u] \subseteq DOMAIN granted[u]
         /\ \A u \in Holders : Recent(u, DOMAIN granted[u]) \subseteq Swept[u]
         /\ NextSweep \in Nat
<1>1. CASE time < sweepAt
  BY <1>1 DEF Swept, NextSweep, KeyTypeOK, GrantsListed
<1>2. CASE ~(time < sweepAt)
  <2>1. Swept = [u \in Holders |-> Recent(u, stamps[u])] /\ NextSweep = time + Window
    BY <1>2 DEF Swept, NextSweep
  <2>2. \A u \in Holders : Recent(u, stamps[u]) \subseteq stamps[u]
    BY DEF Recent
  <2>3. \A u \in Holders : Recent(u, DOMAIN granted[u]) \subseteq Recent(u, stamps[u])
    BY DEF Recent, GrantsListed
  <2>4. NextSweep \in Nat
    BY <2>1, KeysAssumption DEF KeyTypeOK, Times
  <2> QED BY <2>1, <2>2, <2>3, <2>4 DEF KeyTypeOK
<1> QED BY <1>1, <1>2

(* A grant that the limit lets through keeps the rate, and the lists true. *)
LEMMA LetThroughHolds ==
  ASSUME KeyTypeOK, GrantsListed, RateHolds, NEW v \in Holders, LetThrough(v),
         time' = time
  PROVE  /\ granted' \in [Holders -> Seq(Times)]
         /\ stamps' \in [Holders -> SUBSET Nat] /\ sweepAt' \in Nat
         /\ \A u \in Holders : stamps'[u] \subseteq DOMAIN granted'[u]
         /\ GrantsListed' /\ RateHolds'
<1> DEFINE recent == Recent(v, Swept[v])
           n == Len(granted[v])
<1>1. /\ Swept \in [Holders -> SUBSET Nat]
      /\ \A u \in Holders : Swept[u] \subseteq DOMAIN granted[u]
      /\ \A u \in Holders : Recent(u, DOMAIN granted[u]) \subseteq Swept[u]
      /\ NextSweep \in Nat
  BY SweptKeepsRecent
<1>2. /\ Cardinality(recent) < MaxKeysPerHour
      /\ granted' = [granted EXCEPT ![v] = Append(granted[v], time)]
      /\ stamps' = [Swept EXCEPT ![v] = recent \cup {n + 1}]
      /\ sweepAt' = NextSweep
  BY DEF LetThrough
<1>3. /\ granted[v] \in Seq(Times) /\ n \in Nat /\ DOMAIN granted[v] = 1..n
      /\ time \in Times /\ Window \in Nat
  BY KeysAssumption DEF KeyTypeOK
<1>4. /\ granted' \in [Holders -> Seq(Times)]
      /\ \A u \in Holders \ {v} : granted'[u] = granted[u] /\ stamps'[u] = Swept[u]
      /\ granted'[v] = Append(granted[v], time) /\ stamps'[v] = recent \cup {n + 1}
  BY <1>1, <1>2, <1>3 DEF KeyTypeOK
<1>5. /\ DOMAIN granted'[v] = 1..(n + 1) /\ granted'[v][n + 1] = time
      /\ \A i \in 1..n : granted'[v][i] = granted[v][i]
  BY <1>3, <1>4
<1>6. recent \subseteq 1..n
  BY <1>1, <1>3 DEF Recent
<1>7. stamps' \in [Holders -> SUBSET Nat] /\ sweepAt' \in Nat
  <2>1. recent \cup {n + 1} \in SUBSET Nat
    BY <1>3, <1>6
  <2> QED BY <1>1, <1>2, <2>1
<1>8. \A u \in Holders : stamps'[u] \subseteq DOMAIN granted'[u]
  BY <1>1, <1>3, <1>4, <1>5, <1>6
<1>9. GrantsListed'
  <2> SUFFICES ASSUME NEW u \in Holders
               PROVE  /\ \A i \in DOMAIN granted'[u] : granted'[u][i] <= time
                      /\ {i \in DOMAIN granted'[u] : time - granted'[u][i] < Window}
                            \subseteq stamps'[u]
    BY DEF GrantsListed, Recent
  <2>1. /\ \A i \in DOMAIN granted[u] : granted[u][i] <= time
        /\ {i \in DOMAIN granted[u] : time - granted[u][i] < Window} \subseteq Swept[u]
    BY <1>1 DEF GrantsListed, Recent
  <2>2. CASE u # v
    BY <1>4, <2>1, <2>2
  <2>3. CASE u = v
    <3>1. recent = {i \in Swept[v] : time - granted[v][i] < Window}
      BY DEF Recent
    <3>2. \A i \in 1..n : time - granted[v][i] < Window => i \in recent
      BY <1>3, <2>1, <2>3, <3>1
    <3>3. \A i \in DOMAIN granted'[v] : i = n + 1 \/ i \in 1..n
      BY <1>3, <1>5
    <3>4. time <= time
      BY <1>3 DEF Times
    <3> HIDE DEF recent, n
    <3> QED BY <1>3, <1>4, <1>5, <2>1, <2>3, <3>2, <3>3, <3>4
  <2> QED BY <2>2, <2>3
<1>10. RateHolds'
  <2> SUFFICES ASSUME NEW u \in Holders, NEW t \in Times
               PROVE  Cardinality({i \in DOMAIN granted'[u] :
                          granted'[u][i] <= t /\ t - granted'[u][i] < Window}) <= MaxKeysPerHour
    BY DEF RateHolds
  <2> DEFINE W == {i \in DOMAIN granted[u] : granted[u][i] <= t /\ t - granted[u][i] < Window}
             X == {i \in DOMAIN granted'[u] : granted'[u][i] <= t /\ t - granted'[u][i] < Window}
  <2>1. Cardinality(W) <= MaxKeysPerHour
    BY DEF RateHolds
  <2>2. CASE u # v
    BY <1>4, <2>1, <2>2
  <2>3. CASE u = v /\ n + 1 \notin X
    <3>1. X \subseteq 1..n
      BY <1>3, <1>5, <2>3
    <3>2. DOMAIN granted[u] = 1..n /\ \A i \in 1..n : granted'[u][i] = granted[u][i]
      BY <1>3, <1>5, <2>3
    <3>3. 1..n \subseteq DOMAIN granted'[u]
      BY <1>3, <1>5, <2>3
    <3> HIDE DEF n
    <3>4. X = W
      BY <3>1, <3>2, <3>3
    <3> QED BY <2>1, <3>4
  <2>4. CASE u = v /\ n + 1 \in X
    <3>1. time <= t
      BY <1>5, <2>4
    <3>2. \A i \in 1..n : granted[v][i] \in Times
      BY <1>3
    <3>3. \A i \in 1..n : t - granted[v][i] < Window => time - granted[v][i] < Window
      BY <1>3, <3>1, <3>2 DEF Times
    <3>4. \A i \in 1..n : i \in X => i \in recent
      BY <1>1, <1>3, <1>5, <2>4, <3>3 DEF Recent
    <3>5. X \subseteq recent \cup {n + 1}
      BY <1>3, <1>5, <2>4, <3>4
    <3> HIDE DEF X, recent, n
    <3>6. IsFiniteSet(recent)
      <4>1. IsFiniteSet(1..n)
        BY <1>3, FS_Interval
      <4> QED BY <1>6, <4>1, FS_Subset
    <3>7. IsFiniteSet(recent \cup {n + 1}) /\ Cardinality(recent) \in Nat
          /\ Cardinality(recent \cup {n + 1}) <= Cardinality(recent) + 1
      <4>1. Cardinality(recent) \in Nat
        BY <3>6, FS_CardinalityType
      <4>2. /\ IsFiniteSet(recent \cup {n + 1})
            /\ \/ Cardinality(recent \cup {n + 1}) = Cardinality(recent)
               \/ Cardinality(recent \cup {n + 1}) = Cardinality(recent) + 1
        BY <3>6, FS_AddElement
      <4> QED BY <4>1, <4>2
    <3>8. Cardinality(X) <= Cardinality(recent \cup {n + 1})
      BY <3>5, <3>7, FS_Subset
    <3>9. Cardinality(X) \in Nat /\ Cardinality(recent \cup {n + 1}) \in Nat
      BY <3>5, <3>7, FS_Subset, FS_CardinalityType
    <3>10. Cardinality(X) <= MaxKeysPerHour
      BY <1>2, <3>7, <3>8, <3>9, KeysAssumption
    <3> QED BY <3>10 DEF X
  <2> QED BY <2>2, <2>3, <2>4
<1> QED BY <1>4, <1>7, <1>8, <1>9, <1>10

(* The rate and the lists rest on the limit's state and the clock alone.   *)
LEMMA LimitsKept ==
  ASSUME KeyTypeOK, GrantsListed, RateHolds, UNCHANGED <<limits, time>>
  PROVE  /\ granted' \in [Holders -> Seq(Times)]
         /\ stamps' \in [Holders -> SUBSET Nat] /\ sweepAt' \in Nat
         /\ \A u \in Holders : stamps'[u] \subseteq DOMAIN granted'[u]
         /\ GrantsListed' /\ RateHolds'
<1>1. granted' = granted /\ stamps' = stamps /\ sweepAt' = sweepAt /\ time' = time
  BY DEF limits
<1>2. GrantsListed'
  BY <1>1 DEF GrantsListed, Recent
<1>3. RateHolds'
  BY <1>1 DEF RateHolds
<1> QED BY <1>1, <1>2, <1>3 DEF KeyTypeOK

(* The secrets of the rows, which the handlers of keys change.             *)
KeysTyped ==
    /\ key \in [KeyIds -> ApiKey \cup {None}]
    /\ minted \in 0..MaxSecrets
    /\ replaced \subseteq 1..minted

LEMMA SecretsKept ==
  ASSUME KeysTyped, SecretsFresh, UNCHANGED <<key, minted, replaced>>
  PROVE  KeysTyped' /\ SecretsFresh'
BY DEF KeysTyped, SecretsFresh

(* A new key has a secret that no row has had.                             *)
LEMMA AddKeyHolds ==
  ASSUME KeysTyped, SecretsFresh, NEW u \in Holders, NEW o \in OrgIds \cup {None},
         NEW e \in Nat \cup {None}, NEW type \in {"worker", "personal"}, AddKey(type, u, o, e)
  PROVE  KeysTyped' /\ SecretsFresh'
<1> DEFINE new == CHOOSE k \in Free : TRUE
           entry == [type |-> type, by |-> u, org |-> o, status |-> "active",
                    expires |-> e, secret |-> minted + 1]
<1>1. new \in KeyIds /\ key[new] = None
  BY DEF AddKey, Free
<1>2. /\ minted < MaxSecrets /\ minted' = minted + 1 /\ replaced' = replaced
      /\ key' = [key EXCEPT ![new] = entry]
  BY DEF AddKey, Mint
<1>3. minted \in 0..MaxSecrets /\ MaxSecrets \in Nat
  BY KeysAssumption DEF KeysTyped
<1>4. minted + 1 \in 1..MaxSecrets /\ 1..minted \subseteq 1..minted'
  BY <1>2, <1>3
<1>5. entry \in ApiKey
  BY <1>4 DEF ApiKey
<1>6. KeysTyped'
  BY <1>1, <1>2, <1>3, <1>4, <1>5 DEF KeysTyped
<1>7. \A k \in KeyIds : key[k] # None => key[k].secret \in 1..MaxSecrets /\ key[k].secret <= minted
  BY DEF KeysTyped, SecretsFresh, ApiKey
<1>8. \A k \in KeyIds : k # new => key'[k] = key[k]
  BY <1>1, <1>2 DEF KeysTyped
<1>9. key'[new].secret = minted + 1 /\ minted + 1 \notin replaced
  BY <1>1, <1>2, <1>3 DEF KeysTyped
<1> HIDE DEF new, entry
<1>10. SecretsFresh'
  <2> SUFFICES ASSUME NEW k \in KeyIds, key'[k] # None
               PROVE  /\ key'[k].secret <= minted' /\ key'[k].secret \notin replaced'
                      /\ \A l \in KeyIds : key'[l] # None /\ key'[l].secret = key'[k].secret => l = k
    BY DEF SecretsFresh
  <2>1. CASE k = new
    BY <1>2, <1>3, <1>7, <1>8, <1>9, <2>1
  <2>2. CASE k # new
    BY <1>2, <1>3, <1>7, <1>8, <1>9, <2>2 DEF SecretsFresh
  <2> QED BY <2>1, <2>2
<1> QED BY <1>6, <1>10

(* A regenerated key loses its secret for one that no row has had.         *)
LEMMA ReplaceHolds ==
  ASSUME KeysTyped, SecretsFresh, NEW h \in KeyIds, key[h] # None, Replace(h)
  PROVE  KeysTyped' /\ SecretsFresh'
<1>1. /\ minted < MaxSecrets /\ minted' = minted + 1
      /\ replaced' = replaced \cup {key[h].secret}
      /\ key' = [key EXCEPT ![h].secret = minted + 1]
  BY DEF Replace, Mint
<1>2. minted \in 0..MaxSecrets /\ MaxSecrets \in Nat
  BY KeysAssumption DEF KeysTyped
<1>3. minted + 1 \in 1..MaxSecrets /\ 1..minted \subseteq 1..minted' /\ minted \in 0..minted'
  BY <1>1, <1>2
<1>4. key[h] \in ApiKey /\ [key[h] EXCEPT !.secret = minted + 1] \in ApiKey
  BY <1>3 DEF ApiKey, KeysTyped
<1>5. \A k \in KeyIds : key[k] # None => key[k].secret \in 1..MaxSecrets /\ key[k].secret <= minted
  BY DEF KeysTyped, SecretsFresh, ApiKey
<1>6. KeysTyped'
  BY <1>1, <1>2, <1>3, <1>4, <1>5 DEF KeysTyped
<1>7. \A k \in KeyIds : k # h => key'[k] = key[k]
  BY <1>1 DEF KeysTyped
<1>8. key'[h].secret = minted + 1 /\ minted + 1 \notin replaced
  BY <1>1, <1>2, <1>4 DEF KeysTyped, ApiKey
<1>9. SecretsFresh'
  <2> SUFFICES ASSUME NEW k \in KeyIds, key'[k] # None
               PROVE  /\ key'[k].secret <= minted' /\ key'[k].secret \notin replaced'
                      /\ \A l \in KeyIds : key'[l] # None /\ key'[l].secret = key'[k].secret => l = k
    BY DEF SecretsFresh
  <2>1. CASE k = h
    BY <1>1, <1>2, <1>5, <1>7, <1>8, <2>1
  <2>2. CASE k # h
    BY <1>1, <1>2, <1>5, <1>7, <1>8, <2>2 DEF SecretsFresh
  <2> QED BY <2>1, <2>2
<1> QED BY <1>6, <1>9

(* A change of status or of expiry leaves every secret where it is.        *)
LEMMA RestatedHolds ==
  ASSUME KeysTyped, SecretsFresh, NEW h \in KeyIds, key[h] # None,
         NEW entry \in ApiKey, entry.secret = key[h].secret,
         key' = [key EXCEPT ![h] = entry], UNCHANGED <<minted, replaced>>
  PROVE  KeysTyped' /\ SecretsFresh'
<1>1. \A k \in KeyIds : /\ key'[k] # None => key[k] # None
                        /\ key'[k] # None => key'[k].secret = key[k].secret
  BY DEF KeysTyped
<1>2. KeysTyped'
  BY DEF KeysTyped
<1>3. SecretsFresh'
  BY <1>1 DEF SecretsFresh
<1> QED BY <1>2, <1>3

-----------------------------------------------------------------------------
LEMMA KeyInitHolds == KeyInit => KeyInv
<1> SUFFICES ASSUME KeyInit PROVE KeyInv
  OBVIOUS
<1>1. KeyTypeOK
  <2>1. <<>> \in Seq(Times)
    OBVIOUS
  <2> QED BY <2>1, KeysAssumption DEF KeyInit, KeyTypeOK, Times
<1>2. SecretsFresh
  BY DEF KeyInit, SecretsFresh
<1>3. \A u \in Holders : DOMAIN granted[u] = {}
  BY DEF KeyInit
<1>4. GrantsListed
  BY <1>3 DEF GrantsListed, Recent
<1>5. RateHolds
  <2> SUFFICES ASSUME NEW u \in Holders, NEW t \in Times
               PROVE  Cardinality({i \in DOMAIN granted[u] :
                          granted[u][i] <= t /\ t - granted[u][i] < Window}) <= MaxKeysPerHour
    BY DEF RateHolds
  <2>1. {i \in DOMAIN granted[u] : granted[u][i] <= t /\ t - granted[u][i] < Window} = {}
    BY <1>3
  <2> QED BY <2>1, FS_EmptySet, KeysAssumption
<1> QED BY <1>1, <1>2, <1>4, <1>5 DEF KeyInv

LEMMA KeyStepHolds == KeyInv /\ [KeyNext]_keyVars => KeyInv'
<1> SUFFICES ASSUME KeyInv, [KeyNext]_keyVars PROVE KeyInv'
  OBVIOUS
<1> DEFINE Limited == /\ granted' \in [Holders -> Seq(Times)]
                      /\ stamps' \in [Holders -> SUBSET Nat] /\ sweepAt' \in Nat
                      /\ \A u \in Holders : stamps'[u] \subseteq DOMAIN granted'[u]
                      /\ GrantsListed' /\ RateHolds'
           Rest == officers' \subseteq Holders \X OrgIds /\ busy' \subseteq KeyIds /\ time' \in Times
<1> USE DEF KeyInv
<1>0. KeysTyped /\ officers \subseteq Holders \X OrgIds /\ busy \subseteq KeyIds /\ time \in Times
  BY DEF KeyTypeOK, KeysTyped
<1>1. ASSUME Limited, KeysTyped', SecretsFresh', Rest
      PROVE  KeyInv'
  BY <1>1 DEF KeyTypeOK, KeysTyped
<1> HIDE DEF KeyInv, Limited, Rest
<1>2. ASSUME UNCHANGED <<officers, busy, time>> PROVE Rest
  BY <1>0, <1>2 DEF Rest
<1>3. ASSUME UNCHANGED <<limits, time>> PROVE Limited
  BY <1>3, LimitsKept DEF Limited, KeyInv
<1>4. ASSUME UNCHANGED <<key, minted, replaced>> PROVE KeysTyped' /\ SecretsFresh'
  BY <1>0, <1>4, SecretsKept DEF KeyInv
<1>5. ASSUME NEW u \in Holders, LetThrough(u), time' = time PROVE Limited
  BY <1>5, LetThroughHolds DEF Limited, KeyInv
<1>6. Future \subseteq Nat \cup {None}
  BY DEF Future, Times
<1>7. ASSUME NEW u \in Holders, CreatePersonalKey(u) PROVE KeyInv'
  <2>1. LetThrough(u) /\ UNCHANGED <<officers, busy, time>>
    BY <1>7 DEF CreatePersonalKey
  <2>2. Limited /\ Rest
    BY <1>2, <1>5, <2>1
  <2>3. KeysTyped' /\ SecretsFresh'
    <3>1. CASE UNCHANGED <<key, minted, replaced>>
      BY <1>4, <3>1
    <3>2. ASSUME NEW e \in Future, AddKey("personal", u, None, e)
          PROVE  KeysTyped' /\ SecretsFresh'
      <4>1. e \in Nat \cup {None} /\ None \in OrgIds \cup {None}
            /\ "personal" \in {"worker", "personal"}
        BY <1>6
      <4> QED BY <1>0, <3>2, <4>1, AddKeyHolds DEF KeyInv
    <3> QED BY <1>7, <3>1, <3>2 DEF CreatePersonalKey
  <2> QED BY <1>1, <2>2, <2>3
<1>8. ASSUME NEW u \in Holders, RegeneratePersonalKey(u) PROVE KeyInv'
  <2>1. LetThrough(u) /\ UNCHANGED <<officers, busy, time>>
    BY <1>8 DEF RegeneratePersonalKey
  <2>2. Limited /\ Rest
    BY <1>2, <1>5, <2>1
  <2>3. KeysTyped' /\ SecretsFresh'
    <3>1. CASE UNCHANGED <<key, minted, replaced>>
      BY <1>4, <3>1
    <3>2. ASSUME NEW k \in Personal(u), Replace(k)
          PROVE  KeysTyped' /\ SecretsFresh'
      BY <1>0, <3>2, ReplaceHolds DEF KeyInv, Personal
    <3> QED BY <1>8, <3>1, <3>2 DEF RegeneratePersonalKey
  <2> QED BY <1>1, <2>2, <2>3
<1>9. ASSUME NEW u \in Holders, TurnAway(u) PROVE KeyInv'
  <2>1. /\ stamps' = [Swept EXCEPT ![u] = Recent(u, Swept[u])] /\ sweepAt' = NextSweep
        /\ UNCHANGED <<officers, busy, key, minted, replaced, granted, time>>
    BY <1>9 DEF TurnAway
  <2>2. /\ Swept \in [Holders -> SUBSET Nat]
        /\ \A v \in Holders : Swept[v] \subseteq DOMAIN granted[v]
        /\ \A v \in Holders : Recent(v, DOMAIN granted[v]) \subseteq Swept[v]
        /\ NextSweep \in Nat
    BY SweptKeepsRecent DEF KeyInv
  <2>3. \A v \in Holders : /\ stamps'[v] \subseteq Swept[v]
                           /\ Recent(v, DOMAIN granted[v]) \subseteq stamps'[v]
    BY <2>1, <2>2 DEF Recent
  <2>4. stamps' \in [Holders -> SUBSET Nat]
    <3>1. Recent(u, Swept[u]) \in SUBSET Nat
      BY <2>2 DEF Recent
    <3> QED BY <2>1, <2>2, <3>1
  <2>5. GrantsListed'
    BY <2>1, <2>3 DEF KeyInv, GrantsListed, Recent
  <2>6. RateHolds'
    BY <2>1 DEF KeyInv, RateHolds
  <2>7. Limited
    BY <2>1, <2>2, <2>3, <2>4, <2>5, <2>6 DEF Limited, KeyInv, KeyTypeOK
  <2> QED BY <1>1, <1>2, <1>4, <2>1, <2>7
<1>10. ASSUME NEW u \in Holders, NEW k \in KeyIds, NEW e \in Future,
              NEW status \in {"active", "revoked"}, UpdatePersonalKey(u, k, status, e)
       PROVE  KeyInv'
  <2> DEFINE entry == [key[k] EXCEPT !.status = status,
                                    !.expires = IF e = None THEN key[k].expires ELSE e]
  <2>1. /\ key[k] # None /\ key[k] \in ApiKey
        /\ UNCHANGED <<officers, busy, minted, replaced, limits, time>>
    BY <1>0, <1>10 DEF UpdatePersonalKey, Personal, KeysTyped
  <2>2. entry \in ApiKey /\ entry.secret = key[k].secret
    BY <1>6, <2>1 DEF ApiKey
  <2>3. key' = [key EXCEPT ![k] = entry]
    BY <1>0, <1>10, <2>1 DEF UpdatePersonalKey, KeysTyped, ApiKey
  <2> HIDE DEF entry
  <2>4. KeysTyped' /\ SecretsFresh'
    BY <1>0, <2>1, <2>2, <2>3, RestatedHolds DEF KeyInv
  <2> QED BY <1>1, <1>2, <1>3, <2>1, <2>4
<1>11. ASSUME NEW k \in KeyIds, key[k] # None, key' = [key EXCEPT ![k].status = "revoked"],
              UNCHANGED <<officers, busy, minted, replaced, limits, time>>
       PROVE  KeyInv'
  <2> DEFINE entry == [key[k] EXCEPT !.status = "revoked"]
  <2>1. entry \in ApiKey /\ entry.secret = key[k].secret
    BY <1>0, <1>11 DEF ApiKey, KeysTyped
  <2>2. key' = [key EXCEPT ![k] = entry]
    BY <1>11
  <2> HIDE DEF entry
  <2>3. KeysTyped' /\ SecretsFresh'
    BY <1>0, <1>11, <2>1, <2>2, RestatedHolds DEF KeyInv
  <2> QED BY <1>1, <1>2, <1>3, <1>11, <2>3
<1>12. ASSUME NEW u \in Holders, NEW k \in KeyIds, RevokePersonalKey(u, k) PROVE KeyInv'
  BY <1>11, <1>12 DEF RevokePersonalKey, Personal
<1>13. ASSUME NEW u \in Holders, NEW o \in OrgIds, NEW k \in KeyIds, RevokeOrgKey(u, o, k)
       PROVE  KeyInv'
  BY <1>11, <1>13 DEF RevokeOrgKey, OrgKeys
<1>14. ASSUME NEW u \in Holders, NEW o \in OrgIds, NEW type \in {"worker", "personal"},
              CreateOrgKey(u, o, type)
       PROVE  KeyInv'
  <2>1. AddKey(type, u, o, None) /\ UNCHANGED <<officers, busy, limits, time>>
    BY <1>14 DEF CreateOrgKey
  <2>2. KeysTyped' /\ SecretsFresh'
    <3>1. o \in OrgIds \cup {None} /\ None \in Nat \cup {None}
      OBVIOUS
    <3> QED BY <1>0, <2>1, <3>1, AddKeyHolds DEF KeyInv
  <2> QED BY <1>1, <1>2, <1>3, <2>1, <2>2
<1>15. ASSUME NEW u \in Holders, NEW o \in OrgIds, RegenerateOrgKey(u, o) PROVE KeyInv'
  <2>1. PICK k \in ActiveWorkerKeys(o) : Replace(k) /\ UNCHANGED <<officers, busy, limits, time>>
    BY <1>15 DEF RegenerateOrgKey
  <2>2. k \in KeyIds /\ key[k] # None
    BY DEF ActiveWorkerKeys, OrgKeys
  <2>3. KeysTyped' /\ SecretsFresh'
    BY <1>0, <2>1, <2>2, ReplaceHolds DEF KeyInv
  <2> QED BY <1>1, <1>2, <1>3, <2>1, <2>3
<1>16. ASSUME NEW k \in KeyIds, Report(k) PROVE KeyInv'
  <2>1. Rest
    BY <1>0, <1>16 DEF Report, Rest
  <2> QED BY <1>1, <1>3, <1>4, <1>16, <2>1 DEF Report
<1>17. CASE OfficersChange
  <2>1. Rest
    BY <1>0, <1>17 DEF OfficersChange, Rest
  <2> QED BY <1>1, <1>3, <1>4, <1>17, <2>1 DEF OfficersChange
<1>18. CASE KeyTick
  <2>1. /\ time < LastTime /\ time' = time + 1
        /\ UNCHANGED <<officers, busy, key, minted, replaced>>
        /\ granted' = granted /\ stamps' = stamps /\ sweepAt' = sweepAt
    BY <1>18 DEF KeyTick, limits
  <2>2. Rest
    BY <1>0, <2>1, KeysAssumption DEF Rest, Times
  <2>3. \A u \in Holders : \A i \in DOMAIN granted[u] :
           granted[u][i] \in Int /\ granted[u][i] <= time
    <3>1. \A u \in Holders : granted[u] \in Seq(Times)
      BY DEF KeyInv, KeyTypeOK
    <3>2. \A u \in Holders : \A i \in DOMAIN granted[u] : granted[u][i] \in Times
      BY <3>1
    <3> QED BY <3>2 DEF KeyInv, GrantsListed, Times
  <2>4. time \in Int /\ Window \in Int
    BY <1>0, KeysAssumption DEF Times
  <2>5. \A g \in Int : g <= time => g <= time + 1
    BY <2>4
  <2>6. \A g \in Int : (time + 1) - g < Window => time - g < Window
    BY <2>4
  <2>7. GrantsListed'
    <3> SUFFICES ASSUME NEW u \in Holders
                 PROVE  /\ \A i \in DOMAIN granted[u] : granted[u][i] <= time + 1
                        /\ {i \in DOMAIN granted[u] : (time + 1) - granted[u][i] < Window}
                              \subseteq stamps[u]
      BY <2>1 DEF GrantsListed, Recent
    <3>1. {i \in DOMAIN granted[u] : time - granted[u][i] < Window} \subseteq stamps[u]
      BY DEF KeyInv, GrantsListed, Recent
    <3> QED BY <2>3, <2>5, <2>6, <3>1
  <2>8. RateHolds'
    BY <2>1 DEF KeyInv, RateHolds
  <2>9. Limited
    BY <2>1, <2>7, <2>8 DEF Limited, KeyInv, KeyTypeOK
  <2> QED BY <1>1, <1>4, <2>1, <2>2, <2>9
<1>19. CASE UNCHANGED keyVars
  BY <1>1, <1>2, <1>3, <1>4, <1>19 DEF keyVars, limits
<1> QED BY <1>7, <1>8, <1>9, <1>10, <1>12, <1>13, <1>14, <1>15, <1>16, <1>17, <1>18, <1>19
        DEF KeyNext

(* A secret is that of one row at most, so the two kinds of bearer and the *)
(* files ask one and the same row what it stands for.                      *)
LEMMA SecretsMean ==
  ASSUME KeyInv
  PROVE  ReplacedSecretIsDead /\ OneMeaning
<1>1. ReplacedSecretIsDead
  <2> SUFFICES ASSUME NEW s \in replaced PROVE FileContext(s) = Nobody
    BY DEF ReplacedSecretIsDead
  <2>1. Entry(s, {"worker", "personal"}) = {}
    BY DEF Entry, KeyInv, SecretsFresh
  <2> QED BY <2>1 DEF FileContext
<1>2. OneMeaning
  <2> SUFFICES ASSUME NEW s \in 1..minted
               PROVE  /\ Nobody \in {WorkerContext(s), PersonalContext(s)}
                      /\ FileContext(s) = IF WorkerContext(s) # Nobody THEN WorkerContext(s)
                                          ELSE PersonalContext(s)
    BY DEF OneMeaning
  <2>1. \A x, y \in Entry(s, {"worker", "personal"}) : x = y
    BY DEF Entry, KeyInv, SecretsFresh
  <2>2. \A k \in Entry(s, {"worker", "personal"}) :
           IF key[k].type = "worker" THEN Entry(s, {"worker"}) = {k} /\ Entry(s, {"personal"}) = {}
           ELSE Entry(s, {"worker"}) = {} /\ Entry(s, {"personal"}) = {k}
    BY <2>1 DEF Entry
  <2>3. \A k \in Entry(s, {"worker"}) \cup Entry(s, {"personal"}) :
           k \in Entry(s, {"worker", "personal"})
    BY DEF Entry
  <2>4. \A o : <<"worker", o>> # Nobody
    BY DEF Nobody
  <2>5. CASE Entry(s, {"worker", "personal"}) = {}
    <3>1. Entry(s, {"worker"}) = {} /\ Entry(s, {"personal"}) = {}
      BY <2>3, <2>5
    <3> QED BY <2>5, <3>1 DEF WorkerContext, PersonalContext, FileContext
  <2>6. ASSUME NEW k \in Entry(s, {"worker", "personal"}) PROVE
              /\ Nobody \in {WorkerContext(s), PersonalContext(s)}
              /\ FileContext(s) = IF WorkerContext(s) # Nobody THEN WorkerContext(s)
                                  ELSE PersonalContext(s)
    <3>1. Entry(s, {"worker", "personal"}) = {k}
      BY <2>1
    <3>2. (CHOOSE x \in {k} : TRUE) = k
      OBVIOUS
    <3>3. CASE key[k].type = "worker"
      <4>1. Entry(s, {"worker"}) = {k} /\ Entry(s, {"personal"}) = {}
        BY <2>2, <3>3
      <4> QED BY <2>4, <3>1, <3>2, <3>3, <4>1 DEF WorkerContext, PersonalContext, FileContext
    <3>4. CASE key[k].type # "worker"
      <4>1. Entry(s, {"worker"}) = {} /\ Entry(s, {"personal"}) = {k}
        BY <2>2, <3>4
      <4> QED BY <3>1, <3>2, <3>4, <4>1 DEF WorkerContext, PersonalContext, FileContext
    <3> QED BY <3>3, <3>4
  <2> QED BY <2>5, <2>6
<1> QED BY <1>1, <1>2

(* Keys, their secrets and the limit's state keep their types.             *)
THEOREM KeyTypeCorrect == KeySpec => []KeyTypeOK
<1>1. KeyInv => KeyTypeOK
  BY DEF KeyInv
<1> QED BY <1>1, KeyInitHolds, KeyStepHolds, PTL DEF KeySpec

(* The limit lets a user through no more often than it says in any window, *)
(* wherever the window starts and whenever the lists are swept; a secret   *)
(* that was replaced stands for nobody; and every other secret stands for  *)
(* the same at all the endpoints.                                          *)
THEOREM KeysAlwaysHold == KeySpec => []KeysHold
<1>1. KeyInv => KeysHold
  BY SecretsMean DEF KeysHold, KeyInv
<1> QED BY <1>1, KeyInitHolds, KeyStepHolds, PTL DEF KeySpec

-----------------------------------------------------------------------------
(* The three side by side.                                                 *)

\* A behaviour of the composition is one of each part: what is proved of a
\* part holds in the run that checks all three.
THEOREM PeopleAreOfAll == PeopleSpec => Spec /\ AccountSpec /\ KeySpec
<1>1. PeopleInit => Init /\ AccountInit /\ KeyInit
  BY DEF PeopleInit
<1>2. [PeopleNext]_people => [Next]_vars /\ [AccountNext]_accountVars /\ [KeyNext]_keyVars
  BY DEF PeopleNext, people
<1> QED BY <1>1, <1>2, PTL DEF PeopleSpec, Spec, AccountSpec, KeySpec

\* Organizations, accounts and keys keep their types, whichever part moves.
THEOREM PeopleTypeCorrect == PeopleSpec => []PeopleTypeOK
<1> DEFINE OneSide == side \in {"organizations", "accounts", "keys"}
<1>1. PeopleInit => OneSide
  BY DEF PeopleInit
<1>2. OneSide /\ [PeopleNext]_people => OneSide'
  BY DEF PeopleNext, people
<1>3. PeopleSpec => []OneSide
  BY <1>1, <1>2, PTL DEF PeopleSpec
<1>4. OneSide /\ TypeOK /\ AccountTypeOK /\ KeyTypeOK => PeopleTypeOK
  BY DEF PeopleTypeOK
<1> QED BY <1>3, <1>4, PeopleAreOfAll, MembershipTypeCorrect, AccountTypeCorrect, KeyTypeCorrect, PTL
=============================================================================
