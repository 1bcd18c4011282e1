------------------------------ MODULE MCPeople ------------------------------
(***************************************************************************)
(* Membership, Accounts and Keys side by side: they share no state but who *)
(* has an account and who is an officer, which each lets change freely, so *)
(* a behaviour of this module is a behaviour of one of the three.          *)
(***************************************************************************)
EXTENDS Membership, Accounts, Keys, TLC

VARIABLE side     \* the module whose behaviour this is

(* Two addresses of unlike domains, and domains at and above one of them.  *)
Mails == [p \in Persons |-> IF p = CHOOSE x \in Persons : TRUE
                            THEN <<"in", "dau", "cs">> ELSE <<"org", "sheshnag">>]
AtAndAbove == {<<"in", "dau", "cs">>, <<"in", "dau">>}

PeopleInit ==
    /\ Init /\ AccountInit /\ KeyInit
    /\ side \in {"organizations", "accounts", "keys"}

PeopleNext ==
    \/ side = "organizations" /\ Next /\ UNCHANGED <<accountVars, keyVars, side>>
    \/ side = "accounts" /\ AccountNext /\ UNCHANGED <<vars, keyVars, side>>
    \/ side = "keys" /\ KeyNext /\ UNCHANGED <<vars, accountVars, side>>

people == <<vars, accountVars, keyVars, side>>
PeopleSpec == PeopleInit /\ [][PeopleNext]_people

(* Behaviours are followed until a commit rests on outdated reads or an    *)
(* invite is accepted, with as many rows as there are users to share and   *)
(* one commit at most that overtakes a request.  Reset links are followed  *)
(* for one account, apart from the domains and the sign-ins.               *)
Followed ==
    /\ outdated = {} /\ stale = {}
    /\ \A i \in Invites : invite[i] # None => ~invite[i].accepted
    /\ Cardinality({r \in Rows : row[r] # None})
         + Cardinality({j \in Invites : invite[j] # None}) <= Cardinality(Users)
    /\ Cardinality({j \in Invites : invite[j] # None}) <= 1
    /\ (\E q \in Requests : open[q] # None /\ ~open[q].fresh)
          => \E q \in Requests : open[q] = None
    /\ Cardinality(allowed) <= 1
    /\ (\E t \in Tokens : token[t] # None) =>
          /\ allowed = {}
          /\ Cardinality({a \in DOMAIN account : account[a] # None}) = 1
          /\ \A q \in Tasks : task[q] # None => task[q].kind \in {"forgot", "reset", "expire"}

Symmetric == Permutations(Users)

\* The state of each module is of its type.
PeopleTypeOK ==
    CASE side = "organizations" -> TypeOK
      [] side = "accounts" -> AccountTypeOK
      [] side = "keys" -> KeyTypeOK
=============================================================================
