-------------------------------- MODULE Keys --------------------------------
(***************************************************************************)
(* API keys: backend/routers/users.py, the key handlers of organizations.py*)
(* and auth.py, the dependencies of backend/auth.py that resolve a bearer  *)
(* secret, and the limit of backend/rate_limit.py.  A handler's UPDATE     *)
(* names only the columns it changed, so one step each loses nothing.      *)
(***************************************************************************)
EXTENDS Absent, Integers, Sequences, FiniteSets

CONSTANTS Holders, OrgIds, \* who has keys
          KeyIds,          \* api_keys rows (bound)
          MaxSecrets,      \* bound on the secrets generated
          MaxKeysPerHour,  \* MAX_KEYS_PER_HOUR
          Window,          \* WINDOW_SECONDS, in ticks
          LastTime         \* bound on the clock

ASSUME KeysAssumption ==
    MaxSecrets \in Nat /\ MaxKeysPerHour \in Nat /\ Window \in Nat /\ LastTime \in Nat

VARIABLES
    officers,   \* <<user, org>> pairs: owners and admins, as Membership has them
    busy,       \* worker keys of a worker whose activity is busy
    key,        \* ApiKey
    minted,     \* secrets generated so far; secret n is the n-th
    replaced,   \* history: secrets that a regeneration replaced
    stamps,     \* _key_creation_timestamps: which of those granted are on each user's list
    sweepAt,    \* _last_sweep + WINDOW_SECONDS
    granted,    \* history: the times at which the limit let each user through
    time        \* time.time()

keyVars == <<officers, busy, key, minted, replaced, stamps, sweepAt, granted, time>>
limits == <<stamps, sweepAt, granted>>

Times == 0..LastTime
ApiKey == [type: {"worker", "personal"}, by: Holders, org: OrgIds \cup {None},
           status: {"active", "revoked"}, expires: Nat \cup {None}, secret: 1..MaxSecrets]

KeyTypeOK ==
    /\ officers \subseteq Holders \X OrgIds
    /\ busy \subseteq KeyIds
    /\ key \in [KeyIds -> ApiKey \cup {None}]
    /\ minted \in 0..MaxSecrets
    /\ replaced \subseteq 1..minted
    /\ granted \in [Holders -> Seq(Times)]
    /\ stamps \in [Holders -> SUBSET Nat]
    /\ \A u \in Holders : stamps[u] \subseteq DOMAIN granted[u]
    /\ time \in Times /\ sweepAt \in Nat

KeyInit ==
    /\ officers = {}
    /\ busy = {}
    /\ key = [k \in KeyIds |-> None]
    /\ minted = 0
    /\ replaced = {}
    /\ stamps = [u \in Holders |-> {}]
    /\ sweepAt = 0
    /\ granted = [u \in Holders |-> <<>>]
    /\ time = 0
-----------------------------------------------------------------------------
Recent(u, listed) == {i \in listed : time - granted[u][i] < Window}

(* (Bug variant: a sweep forgets everybody.)                               *)
AllForgotten == IF time < sweepAt THEN stamps ELSE [u \in Holders |-> {}]
(* _sweep: once a window, what has aged out of every user's list.          *)
Swept == IF time < sweepAt THEN stamps ELSE [u \in Holders |-> Recent(u, stamps[u])]
NextSweep == IF time < sweepAt THEN sweepAt ELSE time + Window

(* check_key_creation_rate lets the request through, and counts it.        *)
LetThrough(u) ==
    LET recent == Recent(u, Swept[u])
    IN  /\ Cardinality(recent) < MaxKeysPerHour
        /\ granted' = [granted EXCEPT ![u] = Append(@, time)]
        /\ stamps' = [Swept EXCEPT ![u] = recent \cup {Len(granted[u]) + 1}]
        /\ sweepAt' = NextSweep

(* ... or answers 429.                                                     *)
TurnAway(u) ==
    LET recent == Recent(u, Swept[u])
    IN  /\ Cardinality(recent) >= MaxKeysPerHour
        /\ stamps' = [Swept EXCEPT ![u] = recent]
        /\ sweepAt' = NextSweep
        /\ UNCHANGED <<officers, busy, key, minted, replaced, granted, time>>

Free == {k \in KeyIds : key[k] = None}
Mint == minted < MaxSecrets /\ minted' = minted + 1

AddKey(type, u, o, e) ==
    /\ Free # {} /\ Mint /\ UNCHANGED replaced
    /\ key' = [key EXCEPT ![CHOOSE k \in Free : TRUE] =
                  [type |-> type, by |-> u, org |-> o, status |-> "active",
                   expires |-> e, secret |-> minted']]

(* (Bug variant: the secret is added, and the old one left in place.)      *)
Alongside(k) ==
    /\ Mint /\ Free # {} /\ replaced' = replaced \cup {key[k].secret}
    /\ key' = [key EXCEPT ![CHOOSE x \in Free : TRUE] = [key[k] EXCEPT !.secret = minted']]

(* A regeneration overwrites the hash of the row it finds.                 *)
Replace(k) ==
    /\ Mint /\ replaced' = replaced \cup {key[k].secret}
    /\ key' = [key EXCEPT ![k].secret = minted']

Personal(u) == {k \in KeyIds : key[k] # None /\ key[k].by = u /\ key[k].type = "personal"}
OrgKeys(o) == {k \in KeyIds : key[k] # None /\ key[k].org = o}
Future == {e \in Times : e > time} \cup {None}

(* The limit comes first: a request it lets through is counted, even when  *)
(* its expiry is then refused, or there is no key to regenerate.           *)
CreatePersonalKey(u) ==
    /\ LetThrough(u)
    /\ \/ \E e \in Future : AddKey("personal", u, None, e)
       \/ UNCHANGED <<key, minted, replaced>>
    /\ UNCHANGED <<officers, busy, time>>

RegeneratePersonalKey(u) ==
    /\ LetThrough(u)
    /\ IF Personal(u) = {} THEN UNCHANGED <<key, minted, replaced>>
       ELSE \E k \in Personal(u) : Replace(k)
    /\ UNCHANGED <<officers, busy, time>>

(* update_personal_api_key may also set a revoked key active again.        *)
UpdatePersonalKey(u, k, status, e) ==
    /\ k \in Personal(u)
    /\ key' = [key EXCEPT ![k].status = status, ![k].expires = IF e = None THEN @ ELSE e]
    /\ UNCHANGED <<officers, busy, minted, replaced, limits, time>>

RevokePersonalKey(u, k) ==
    /\ k \in Personal(u) /\ key[k].status # "revoked"
    /\ key' = [key EXCEPT ![k].status = "revoked"]
    /\ UNCHANGED <<officers, busy, minted, replaced, limits, time>>

CreateOrgKey(u, o, type) ==
    /\ <<u, o>> \in officers
    /\ AddKey(type, u, o, None)
    /\ UNCHANGED <<officers, busy, limits, time>>

(* revoke_api_key: not while a worker that uses the key says it is busy.   *)
RevokeOrgKey(u, o, k) ==
    /\ <<u, o>> \in officers /\ k \in OrgKeys(o)
    /\ ~(key[k].type = "worker" /\ k \in busy)
    /\ key' = [key EXCEPT ![k].status = "revoked"]
    /\ UNCHANGED <<officers, busy, minted, replaced, limits, time>>

ActiveWorkerKeys(o) == {k \in OrgKeys(o) : key[k].type = "worker" /\ key[k].status = "active"}

RegenerateOrgKey(u, o) ==
    \E k \in ActiveWorkerKeys(o) :
        /\ <<u, o>> \in officers
        /\ Replace(k)
        /\ UNCHANGED <<officers, busy, limits, time>>

(* Outside: memberships change, and workers report what they do.           *)
OfficersChange == officers' \in SUBSET (Holders \X OrgIds) /\ UNCHANGED <<busy, key, minted, replaced, limits, time>>
Report(k) == busy' \in {busy \cup {k}, busy \ {k}} /\ UNCHANGED <<officers, key, minted, replaced, limits, time>>
KeyTick == time < LastTime /\ time' = time + 1 /\ UNCHANGED <<officers, busy, key, minted, replaced, limits>>

KeyNext ==
    \/ \E u \in Holders : CreatePersonalKey(u) \/ RegeneratePersonalKey(u) \/ TurnAway(u)
    \/ \E u \in Holders, k \in KeyIds, e \in Future, status \in {"active", "revoked"} :
          UpdatePersonalKey(u, k, status, e)
    \/ \E u \in Holders, k \in KeyIds : RevokePersonalKey(u, k)
    \/ \E u \in Holders, o \in OrgIds, type \in {"worker", "personal"} : CreateOrgKey(u, o, type)
    \/ \E u \in Holders, o \in OrgIds, k \in KeyIds : RevokeOrgKey(u, o, k)
    \/ \E u \in Holders, o \in OrgIds : RegenerateOrgKey(u, o)
    \/ \E k \in KeyIds : Report(k)
    \/ OfficersChange \/ KeyTick

KeySpec == KeyInit /\ [][KeyNext]_keyVars

-----------------------------------------------------------------------------
(* What a bearer secret stands for: nobody, a user or an organization.     *)
Nobody == <<"nobody", None>>
Good(k) == key[k].status = "active" /\ (key[k].expires = None \/ key[k].expires >= time)
Entry(s, types) ==
    {k \in KeyIds : key[k] # None /\ key[k].secret = s /\ key[k].type \in types /\ Good(k)}
WorkerContext(s) ==
    IF Entry(s, {"worker"}) = {} THEN Nobody
    ELSE <<"worker", key[CHOOSE k \in Entry(s, {"worker"}) : TRUE].org>>
PersonalContext(s) ==
    IF Entry(s, {"personal"}) = {} THEN Nobody
    ELSE <<"user", key[CHOOSE k \in Entry(s, {"personal"}) : TRUE].by>>

(* (Bug variant: by the organization of the key, whatever its type.)       *)
FileContextByOrg(s) ==
    LET found == Entry(s, {"worker", "personal"})
    IN  IF found = {} THEN Nobody
        ELSE LET k == CHOOSE k \in found : TRUE
             IN  IF key[k].org # None THEN <<"worker", key[k].org>> ELSE PersonalContext(s)

(* get_file_read_context: by the type of the key that has the hash.        *)
FileContext(s) ==
    LET found == Entry(s, {"worker", "personal"})
    IN  IF found = {} THEN Nobody
        ELSE LET k == CHOOSE k \in found : TRUE
             IN  IF key[k].type = "worker" THEN <<"worker", key[k].org>> ELSE PersonalContext(s)

-----------------------------------------------------------------------------
(* In no window does the limit let a user through more often than it says, *)
(* wherever the window starts and whenever lists are swept.                *)
RateHolds ==
    \A u \in Holders, t \in Times :
        Cardinality({i \in DOMAIN granted[u] : granted[u][i] <= t /\ t - granted[u][i] < Window})
            <= MaxKeysPerHour

(* A replaced secret stands for nobody, whatever becomes of its key.       *)
ReplacedSecretIsDead ==
    \A s \in replaced : FileContext(s) = Nobody

(* A secret stands for the same at the files as at the endpoints of workers*)
(* and of users, and for one of the two at most.                           *)
OneMeaning ==
    \A s \in 1..minted :
        /\ Nobody \in {WorkerContext(s), PersonalContext(s)}
        /\ FileContext(s) = IF WorkerContext(s) # Nobody THEN WorkerContext(s)
                            ELSE PersonalContext(s)

(* The three together: the limit holds, and a secret means one thing.      *)
KeysHold == RateHolds /\ ReplacedSecretIsDead /\ OneMeaning
=============================================================================
