------------------------------ MODULE Accounts ------------------------------
(***************************************************************************)
(* Accounts: backend/routers/auth.py.  Signing up, signing in with Google, *)
(* the domains that may sign up, and password resets.  As in Membership a  *)
(* handler is its checks, which open a task, and the commit that closes it.*)
(* The columns email and google_id are unique: a commit that would repeat a*)
(* value raises IntegrityError and changes nothing.                        *)
(***************************************************************************)
EXTENDS Absent, Naturals, Sequences, FiniteSets, SequencesExt

CONSTANTS Persons,   \* persons, each with one e-mail address
          DomainOf,  \* the domain of each address, its labels from the right
          Domains,   \* domains a superadmin may allow
          Subs,      \* Google's user ids
          Tokens,    \* password reset rows
          Tasks,     \* handlers that can be open at one time
          Lifetime,  \* RESET_TOKEN_EXPIRY_SECONDS, in ticks
          LastTick   \* bound on the clock

VARIABLES
    account,    \* User by the address as stored
    allowed,    \* AllowedEmailDomain
    token,      \* PasswordResetToken
    task,       \* handlers between their checks and their commit
    issued,     \* who came to sign in, and the account of the JWT they were handed, or None
    clock,      \* unix_now()
    stale       \* history: addresses where a commit rested on outdated reads

accountVars == <<account, allowed, token, task, issued, clock, stale>>

(* An address as it is typed: somebody's, in lower case or not.            *)
Typed == Persons \X {"lower", "mixed"}
(* (Bug variant: the address is stored as it was typed.)                   *)
AsTyped(t) == t
normalize_email(t) == <<t[1], "lower">>

UserRow == [password: BOOLEAN, sub: Subs \cup {None}]
Token == [user: Typed, used: BOOLEAN, expires: Nat, resets: Nat]
Kinds == {"signup", "create", "link", "forgot", "reset", "expire"}
Task == [kind: Kinds, address: Typed, sub: Subs \cup {None}, tokens: SUBSET Tokens, fresh: BOOLEAN]

(* Times are numbers, and None is neither a row nor an address.            *)
ASSUME AccountsAssumption ==
    /\ Lifetime \in Nat /\ LastTick \in Nat
    /\ None \notin Typed /\ None \notin UserRow /\ None \notin Token /\ None \notin Task

AccountTypeOK ==
    /\ account \in [Typed -> UserRow \cup {None}]
    /\ allowed \subseteq [domain: Domains, subdomains: BOOLEAN]
    /\ token \in [Tokens -> Token \cup {None}]
    /\ task \in [Tasks -> Task \cup {None}]
    /\ issued \in [sub: Subs, address: Typed, account: Typed \cup {None}] \cup {None}
    /\ clock \in 0..LastTick
    /\ stale \subseteq Typed

AccountInit ==
    /\ account = [t \in Typed |-> None]
    /\ allowed = {}
    /\ token = [i \in Tokens |-> None]
    /\ task = [q \in Tasks |-> None]
    /\ issued = None
    /\ clock = 0
    /\ stale = {}

-----------------------------------------------------------------------------
Holder(s) == {t \in Typed : account[t] # None /\ account[t].sub = s}

(* assert_domain_allowed: an empty list admits everybody.                  *)
Admits(t) ==
    \/ allowed = {}
    \/ \E e \in allowed : \/ DomainOf[t[1]] = e.domain
                          \/ e.subdomains /\ IsStrictPrefix(e.domain, DomainOf[t[1]])

Open(kind, t, s, is) ==
    /\ \E q \in Tasks : task[q] = None
    /\ LET q == CHOOSE q \in Tasks : task[q] = None
       IN  task' = [task EXCEPT ![q] = [kind |-> kind, address |-> t, sub |-> s,
                                        tokens |-> is, fresh |-> TRUE]]
    /\ issued' = None /\ UNCHANGED <<account, allowed, token, clock, stale>>

Signup(t) ==
    /\ Admits(normalize_email(t)) /\ account[normalize_email(t)] = None
    /\ Open("signup", normalize_email(t), None, {})

JwtFor(s, t, a) == issued' = [sub |-> s, address |-> t, account |-> a]
Answer(s, t, a) == JwtFor(s, t, a) /\ UNCHANGED <<account, allowed, token, task, clock, stale>>

(* (Bug variant: nobody asks whether the domain is allowed.)               *)
UngatedSignIn(s, t) ==
    \/ Holder(s) # {} /\ Answer(s, t, CHOOSE a \in Holder(s) : TRUE)
    \/ Holder(s) = {} /\ account[t] # None /\ Open("link", t, s, {})
    \/ Holder(s) = {} /\ account[t] = None /\ Open("create", t, s, {})

(* (Bug variant: the gate comes first, for whoever signs in.)              *)
GatedSignIn(s, t) == IF Admits(t) THEN UngatedSignIn(s, t) ELSE Answer(s, t, None)

(* google_auth, for a verified identity: an account that has it signs in,  *)
(* an account with its address is linked to it, and else one is created, or*)
(* refused (403).                                                          *)
SignIn(s, t) ==
    \/ Holder(s) # {} /\ Answer(s, t, CHOOSE a \in Holder(s) : TRUE)
    \/ Holder(s) = {} /\ account[t] # None /\ Open("link", t, s, {})
    \/ /\ Holder(s) = {} /\ account[t] = None
       /\ IF Admits(t) THEN Open("create", t, s, {}) ELSE Answer(s, t, None)

GoogleAuth(s, t) == SignIn(s, normalize_email(t))

(* Whoever passed the gate before the list changes did so by the old list. *)
GateMoved ==
    task' = [q \in Tasks |->
                IF task[q] # None /\ task[q].kind \in {"signup", "create"}
                THEN [task[q] EXCEPT !.fresh = FALSE] ELSE task[q]]

AddAllowedDomain(d, subdomains) ==
    /\ ~ \E e \in allowed : e.domain = d
    /\ allowed' = allowed \cup {[domain |-> d, subdomains |-> subdomains]}
    /\ GateMoved
    /\ issued' = None /\ UNCHANGED <<account, token, clock, stale>>

RemoveAllowedDomain(d) ==
    \E e \in allowed :
        /\ e.domain = d
        /\ allowed' = allowed \ {e}
        /\ GateMoved
        /\ issued' = None /\ UNCHANGED <<account, token, clock, stale>>

Unused(t) == {i \in Tokens : token[i] # None /\ token[i].user = t /\ ~token[i].used}
(* (Bug variant: tokens sent before stay good.)                            *)
NoneRetired(t) == {}
(* forgot_password's UPDATE, which finds the unused tokens there are.      *)
Retired(t) == Unused(t)

ForgotPassword(t) ==
    /\ account[normalize_email(t)] # None
    /\ Open("forgot", normalize_email(t), None, Retired(normalize_email(t)))

Expired(i) == token[i].expires < clock

ResetPassword(i) ==
    /\ token[i] # None /\ ~token[i].used
    /\ Open(IF Expired(i) THEN "expire" ELSE "reset", token[i].user, None, {i})

-----------------------------------------------------------------------------
(* After a commit the other tasks on the address rest on outdated reads.   *)
Close(q) ==
    /\ task' = [p \in Tasks |-> IF p = q THEN None
                                   ELSE IF task[p] # None /\ task[p].address = task[q].address
                                        THEN [task[p] EXCEPT !.fresh = FALSE]
                                        ELSE task[p]]
    /\ stale' = IF task[q].fresh THEN stale ELSE stale \cup {task[q].address}
    /\ UNCHANGED <<allowed, clock>>

Raise(q) ==
    /\ task' = [task EXCEPT ![q] = None]
    /\ issued' = None /\ UNCHANGED <<account, allowed, token, clock, stale>>

(* The account of one who lost the race to create it: by google_id, then by*)
(* address.  (Bug variant first: the row that was rolled back.)            *)
OwnRow(s, t) == {t}
Winner(s, t) == IF Holder(s) # {} THEN Holder(s) ELSE {a \in {t} : account[a] # None}

SignupCommit(q) ==
    LET t == task[q].address
    IN  /\ task[q].kind = "signup"
        /\ IF account[t] # None
           THEN Raise(q)
           ELSE /\ account' = [account EXCEPT ![t] = [password |-> TRUE, sub |-> None]]
                /\ Close(q) /\ issued' = None /\ UNCHANGED token

CreateCommit(q) ==
    LET t == task[q].address
        s == task[q].sub
    IN  /\ task[q].kind = "create"
        /\ IF account[t] # None \/ Holder(s) # {}
           THEN /\ \E a \in Winner(s, t) : JwtFor(s, t, a)
                /\ task' = [task EXCEPT ![q] = None]
                /\ UNCHANGED <<account, allowed, token, clock, stale>>
           ELSE /\ account' = [account EXCEPT ![t] = [password |-> FALSE, sub |-> s]]
                /\ JwtFor(s, t, t) /\ Close(q) /\ UNCHANGED token

LinkCommit(q) ==
    LET t == task[q].address
        s == task[q].sub
    IN  /\ task[q].kind = "link"
        /\ IF Holder(s) \ {t} # {}
           THEN Raise(q)
           ELSE /\ account' = [account EXCEPT ![t].sub = s]
                /\ JwtFor(s, t, t) /\ Close(q) /\ UNCHANGED token

ForgotCommit(q) ==
    LET fresh == {i \in Tokens : token[i] = None}
        new == CHOOSE i \in fresh : TRUE
    IN  /\ task[q].kind = "forgot" /\ fresh # {}
        /\ token' = [i \in Tokens |->
                        IF i = new THEN [user |-> task[q].address, used |-> FALSE,
                                         expires |-> clock + Lifetime, resets |-> 0]
                        ELSE IF i \in task[q].tokens THEN [token[i] EXCEPT !.used = TRUE]
                        ELSE token[i]]
        /\ Close(q) /\ issued' = None /\ UNCHANGED account

(* (Bug variant: the token is left unused.)                                *)
Kept(i) == [token EXCEPT ![i].resets = @ + 1]
Spent(i) == [token EXCEPT ![i].used = TRUE, ![i].resets = @ + 1]

ResetCommit(q) ==
    \E i \in task[q].tokens :
        /\ task[q].kind = "reset"
        /\ account' = [account EXCEPT ![task[q].address].password = TRUE]
        /\ token' = Spent(i)
        /\ Close(q) /\ issued' = None

ExpireCommit(q) ==
    \E i \in task[q].tokens :
        /\ task[q].kind = "expire"
        /\ token' = [token EXCEPT ![i].used = TRUE]
        /\ Close(q) /\ issued' = None /\ UNCHANGED account

CommitTask(q) ==
    /\ task[q] # None
    /\ \/ SignupCommit(q) \/ CreateCommit(q) \/ LinkCommit(q)
       \/ ForgotCommit(q) \/ ResetCommit(q) \/ ExpireCommit(q)

AccountTick ==
    /\ clock < LastTick /\ clock' = clock + 1
    /\ issued' = None /\ UNCHANGED <<account, allowed, token, task, stale>>

AccountNext ==
    \/ \E t \in Typed : Signup(t) \/ ForgotPassword(t)
    \/ \E s \in Subs, t \in Typed : GoogleAuth(s, t)
    \/ \E d \in Domains, b \in BOOLEAN : AddAllowedDomain(d, b)
    \/ \E d \in Domains : RemoveAllowedDomain(d)
    \/ \E i \in Tokens : ResetPassword(i)
    \/ \E q \in Tasks : CommitTask(q)
    \/ AccountTick

AccountSpec == AccountInit /\ [][AccountNext]_accountVars

-----------------------------------------------------------------------------
(* However an address is typed, and by whichever way it came, there is one *)
(* account for it.                                                         *)
OneAccountPerAddress ==
    \A s, t \in Typed : account[s] # None /\ account[t] # None /\ s[1] = t[1] => s = t

(* Taking a domain off the list locks nobody out: who is refused has no    *)
(* account with this identity, and none with this address.                 *)
NobodyLockedOut ==
    issued # None /\ issued.account = None =>
        Holder(issued.sub) = {} /\ account[issued.address] = None

(* Only the link last sent can set a password, and sets one once at most,  *)
(* unless two requests for one account overlapped.                         *)
OneLiveToken ==
    /\ \A t \in Typed \ stale : Cardinality({i \in Unused(t) : ~Expired(i)}) <= 1
    /\ \A i \in Tokens : token[i] # None /\ token[i].user \notin stale
          => token[i].resets <= (IF token[i].used THEN 1 ELSE 0)

(* The three together.                                                     *)
AccountsHold == OneAccountPerAddress /\ NobodyLockedOut /\ OneLiveToken

(* A Google sign-in is for an account there is, which has this identity or *)
(* this address, whoever won the race to create or link it.                *)
SignedInAsOneself ==
    issued' # None /\ issued'.account # None =>
        /\ account'[issued'.account] # None
        /\ account'[issued'.account].sub = issued'.sub \/ issued'.account = issued'.address

(* An account appears only for an address that the list of domains admits, *)
(* unless the list changed after the check.                                *)
OnlyAdmittedSignUp ==
    \A q \in Tasks :
        task[q] # None /\ task'[q] = None /\ task[q].fresh
            => \A t \in Typed : account[t] = None /\ account'[t] # None => Admits(t)

(* The two together, of every step: however requests overlap, people are   *)
(* signed in as themselves, and new ones only as the list allows.          *)
OnlyOneself == [][SignedInAsOneself /\ OnlyAdmittedSignUp]_accountVars
=============================================================================
