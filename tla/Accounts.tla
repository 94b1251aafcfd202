------------------------------- MODULE Accounts -------------------------------
(***************************************************************************)
(* The one account, the browsers signed in to it and the API key, as the   *)
(* API process serves several requests at once: every await between two    *)
(* looks at the database lets another request in, and the process may be   *)
(* killed with requests half done.                                         *)
(*                                                                         *)
(* Time is counted in days and kept as what is left of it.  A login and a  *)
(* key that the environment pins, and the change of the credentials, are   *)
(* left out.                                                               *)
(***************************************************************************)
EXTENDS Integers

CONSTANTS
    Requests,       \* requests served at once
    NoRequest,      \* nobody holds the lock
    Browsers,       \* each is signed in once, with one token
    Lifetime,       \* SESSION_LIFETIME
    MaxHeld,        \* bound: how long a request may take
    MaxEvents       \* bound: kills, failing statements, set-ups and new keys, together

Half == Lifetime \div 2

ASSUME AccountsAssumption ==
    /\ NoRequest \notin Requests
    /\ Lifetime \in Nat \ {0, 1}
    /\ MaxHeld \in Nat /\ MaxHeld < Half
    /\ MaxEvents \in Nat

VARIABLES
    up,         \* the process serves
    req,        \* req[r]: what request r is about to do
    lock,       \* the request that holds SetupUseCase._lock, or NoRequest
    user,       \* the users table: 0, or how often its row was written
    row,        \* row[b]: what is left of b's session row; 0: expired, -1: none
    cookie,     \* cookie[b]: what is left of b's cookie; 0: none
    stored,     \* the key in the auth_config row; 0: no row
    memory,     \* container._api_key; 0: None
    keys,       \* auxiliary: keys made so far
    quiet,      \* auxiliary: quiet[b]: since b was last answered, up to Half
    out,        \* auxiliary: out[b]: b signed out
    cut,        \* auxiliary: cut[b]: a renewal of b lost its answer or its row
    raced,      \* auxiliary: a key was replaced while another was being adopted
    events

loginVars == <<lock, user>>
sessionVars == <<row, cookie, quiet, out, cut>>
keyVars == <<stored, memory, keys, raced>>
vars == <<up, req, loginVars, sessionVars, keyVars, events>>

Idle == [at |-> "idle"]

(* at: lock, look, save and issue for a set-up or a login; extend and      *)
(* answer for a renewal; insert and adopt for the key.                     *)
Step(at) == [at |-> at]
Renewal(at, b, held) == [at |-> at, browser |-> b, held |-> held]
Adoption(key) == [at |-> "adopt", key |-> key]

Init ==
    /\ up = FALSE
    /\ req = [r \in Requests |-> Idle]
    /\ lock = NoRequest
    /\ user = 0
    /\ row = [b \in Browsers |-> -1]
    /\ cookie = [b \in Browsers |-> 0]
    /\ quiet = [b \in Browsers |-> Half]
    /\ out = [b \in Browsers |-> FALSE]
    /\ cut = [b \in Browsers |-> FALSE]
    /\ stored = 0
    /\ memory = 0
    /\ keys = 0
    /\ raced = FALSE
    /\ events = 0

Event == events < MaxEvents /\ events' = events + 1

At(r, here) == up /\ req[r].at = here

Renewing(r) == req[r].at \in {"extend", "answer"}

RenewalOf(r, b) == Renewing(r) /\ req[r].browser = b

Answering(r, b) == req[r].at = "answer" /\ req[r].browser = b

Goes(r, there) == req' = [req EXCEPT ![r] = there]

-----------------------------------------------------------------------------
(* SetupUseCase: between its looks at the users table it hashes the        *)
(* password on a thread.                                                   *)

BeginSetup(r) ==
    /\ At(r, "idle")
    /\ Event
    /\ Goes(r, Step("lock"))
    /\ UNCHANGED <<up, loginVars, sessionVars, keyVars>>

(* Mutant: nobody waits for anybody. *)
TakeLockUnasked(r) ==
    /\ At(r, "lock")
    /\ lock' = r
    /\ Goes(r, Step("look"))
    /\ UNCHANGED <<up, user, sessionVars, keyVars, events>>

TakeLock(r) ==
    /\ At(r, "lock")
    /\ lock = NoRequest
    /\ lock' = r
    /\ Goes(r, Step("look"))
    /\ UNCHANGED <<up, user, sessionVars, keyVars, events>>

FirstUser(r) ==
    /\ At(r, "look")
    /\ user = 0
    /\ Goes(r, Step("save"))
    /\ UNCHANGED <<up, loginVars, sessionVars, keyVars, events>>

AlreadySetUp(r) ==
    /\ At(r, "look")
    /\ user > 0
    /\ lock' = NoRequest
    /\ Goes(r, Idle)
    /\ UNCHANGED <<up, user, sessionVars, keyVars, events>>

(* users.save creates the row, or replaces the one that is there. *)
SaveUser(r) ==
    /\ At(r, "save")
    /\ user' = user + 1
    /\ lock' = NoRequest
    /\ Goes(r, Step("issue"))
    /\ UNCHANGED <<up, sessionVars, keyVars, events>>

(* LoginUseCase, with the right password. *)
Login(r) ==
    /\ At(r, "idle")
    /\ user > 0
    /\ Goes(r, Step("issue"))
    /\ UNCHANGED <<up, loginVars, sessionVars, keyVars, events>>

(* _issue: a session and its cookie, for a browser without one. *)
Issue(r, b) ==
    /\ At(r, "issue")
    /\ row[b] = -1 /\ ~ out[b]
    /\ row' = [row EXCEPT ![b] = Lifetime]
    /\ cookie' = [cookie EXCEPT ![b] = Lifetime]
    /\ quiet' = [quiet EXCEPT ![b] = 0]
    /\ Goes(r, Idle)
    /\ UNCHANGED <<up, loginVars, out, cut, keyVars, events>>

-----------------------------------------------------------------------------
(* ResolveSessionUseCase, for every request that brings the cookie.        *)

Resolve(r, b) ==
    /\ At(r, "idle")
    /\ cookie[b] > 0
    /\ row[b] >= Half
    /\ quiet' = [quiet EXCEPT ![b] = 0]
    /\ UNCHANGED <<up, req, loginVars, row, cookie, out, cut, keyVars, events>>

(* Less than half is left: the row is to be extended from now on. *)
ResolveOld(r, b) ==
    /\ At(r, "idle")
    /\ cookie[b] > 0
    /\ row[b] \in 1..Half - 1
    /\ Goes(r, Renewal("extend", b, 0))
    /\ UNCHANGED <<up, loginVars, sessionVars, keyVars, events>>

(* Mutant: the row is written whether it is there or not. *)
ExtendOrInsert(r) ==
    /\ At(r, "extend")
    /\ row' = [row EXCEPT ![req[r].browser] = Lifetime - req[r].held]
    /\ Goes(r, Renewal("answer", req[r].browser, req[r].held))
    /\ UNCHANGED <<up, loginVars, cookie, quiet, out, cut, keyVars, events>>

(* An UPDATE: a session deleted in the meantime stays deleted. *)
Extend(r) ==
    /\ At(r, "extend")
    /\ row' = [row EXCEPT ![req[r].browser] =
                  IF @ = -1 THEN -1 ELSE Lifetime - req[r].held]
    /\ Goes(r, Renewal("answer", req[r].browser, req[r].held))
    /\ UNCHANGED <<up, loginVars, cookie, quiet, out, cut, keyVars, events>>

(* Mutant: the cookie the browser has is left as it is. *)
AnswerWithoutCookie(r) ==
    /\ At(r, "answer")
    /\ quiet' = [quiet EXCEPT ![req[r].browser] = 0]
    /\ Goes(r, Idle)
    /\ UNCHANGED <<up, loginVars, row, cookie, out, cut, keyVars, events>>

(* set_session_cookie, with what is left by then. *)
Answer(r) ==
    /\ At(r, "answer")
    /\ cookie' = [cookie EXCEPT ![req[r].browser] = Lifetime - req[r].held]
    /\ quiet' = [quiet EXCEPT ![req[r].browser] = 0]
    /\ Goes(r, Idle)
    /\ UNCHANGED <<up, loginVars, row, out, cut, keyVars, events>>

(* LogoutUseCase, and clear_session_cookie. *)
Logout(r, b) ==
    /\ At(r, "idle")
    /\ cookie[b] > 0
    /\ row' = [row EXCEPT ![b] = -1]
    /\ cookie' = [cookie EXCEPT ![b] = 0]
    /\ out' = [out EXCEPT ![b] = TRUE]
    /\ UNCHANGED <<up, req, loginVars, quiet, cut, keyVars, events>>

(* sessions.prune, on the way of a login. *)
PruneSessions(r) ==
    /\ At(r, "issue")
    /\ row' = [b \in Browsers |-> IF row[b] = 0 THEN -1 ELSE row[b]]
    /\ cut' = [b \in Browsers |-> cut[b] \/ (row[b] = 0 /\ \E q \in Requests : RenewalOf(q, b))]
    /\ UNCHANGED <<up, req, loginVars, cookie, quiet, out, keyVars, events>>

-----------------------------------------------------------------------------
(* The API key. *)

NewKey == keys' = keys + 1

(* api_key with nothing in memory: what is stored is read ... *)
ReadKey(r) ==
    /\ At(r, "idle")
    /\ memory = 0
    /\ Goes(r, IF stored = 0 THEN Step("insert") ELSE Adoption(stored))
    /\ UNCHANGED <<up, loginVars, sessionVars, keyVars, events>>

(* ... or a new key stored, unless somebody else has stored one.           *)
CreateIfAbsent(r) ==
    /\ At(r, "insert")
    /\ IF stored = 0
       THEN NewKey /\ stored' = keys' /\ Goes(r, Adoption(keys'))
       ELSE UNCHANGED <<keys, stored>> /\ Goes(r, Adoption(stored))
    /\ UNCHANGED <<up, loginVars, sessionVars, memory, raced, events>>

(* Regenerating replaces the row, then the key in memory. *)
Regenerate(r) ==
    /\ At(r, "idle")
    /\ Event
    /\ NewKey
    /\ stored' = keys'
    /\ raced' = (raced \/ \E q \in Requests : req[q].at = "adopt")
    /\ Goes(r, Adoption(keys'))
    /\ UNCHANGED <<up, loginVars, sessionVars, memory>>

(* Mutant: the key that is in memory stays. *)
AdoptFirst(r) ==
    /\ At(r, "adopt")
    /\ memory' = IF memory = 0 THEN req[r].key ELSE memory
    /\ Goes(r, Idle)
    /\ UNCHANGED <<up, loginVars, sessionVars, stored, keys, raced, events>>

Adopt(r) ==
    /\ At(r, "adopt")
    /\ memory' = req[r].key
    /\ Goes(r, Idle)
    /\ UNCHANGED <<up, loginVars, sessionVars, stored, keys, raced, events>>

-----------------------------------------------------------------------------
(* The process. *)

(* A statement fails, and the request with it; the lock is released. *)
RequestFails(r) ==
    /\ up /\ req[r].at \in {"look", "save", "issue", "extend", "insert"}
    /\ Event
    /\ lock' = IF lock = r THEN NoRequest ELSE lock
    /\ Goes(r, Idle)
    /\ UNCHANGED <<up, user, sessionVars, keyVars>>

(* lifespan: the key is prepared before the first request, or later. *)
Boot ==
    /\ ~ up
    /\ up' = TRUE
    /\ \/ Event /\ UNCHANGED <<stored, memory, keys>>
       \/ /\ IF stored = 0 THEN NewKey /\ stored' = keys' ELSE UNCHANGED <<keys, stored>>
          /\ memory' = stored'
          /\ UNCHANGED events
    /\ UNCHANGED <<req, loginVars, sessionVars, raced>>

Kill ==
    /\ up
    /\ Event
    /\ up' = FALSE
    /\ cut' = [b \in Browsers |->
                   cut[b] \/ \E r \in Requests : Answering(r, b)]
    /\ req' = [r \in Requests |-> Idle]
    /\ lock' = NoRequest
    /\ memory' = 0
    /\ raced' = FALSE
    /\ UNCHANGED <<user, row, cookie, quiet, out, stored, keys>>

Less(left) == IF left > 0 THEN left - 1 ELSE left

Tick ==
    /\ \A r \in Requests : Renewing(r) => req[r].held < MaxHeld
    /\ req' = [r \in Requests |->
                  IF Renewing(r)
                  THEN Renewal(req[r].at, req[r].browser, req[r].held + 1)
                  ELSE req[r]]
    /\ row' = [b \in Browsers |-> Less(row[b])]
    /\ cookie' = [b \in Browsers |-> Less(cookie[b])]
    /\ quiet' = [b \in Browsers |-> IF quiet[b] < Half THEN quiet[b] + 1 ELSE Half]
    /\ UNCHANGED <<up, loginVars, out, cut, keyVars, events>>

LoginStep(r) ==
    \/ BeginSetup(r) \/ TakeLock(r) \/ FirstUser(r) \/ AlreadySetUp(r) \/ SaveUser(r)
    \/ Login(r) \/ PruneSessions(r) \/ \E b \in Browsers : Issue(r, b)

SessionStep(r) ==
    \/ \E b \in Browsers : Resolve(r, b) \/ ResolveOld(r, b) \/ Logout(r, b)
    \/ Extend(r) \/ Answer(r)

KeyStep(r) == ReadKey(r) \/ CreateIfAbsent(r) \/ Regenerate(r) \/ Adopt(r)

Next ==
    \/ \E r \in Requests : LoginStep(r) \/ SessionStep(r) \/ KeyStep(r) \/ RequestFails(r)
    \/ Boot \/ Kill \/ Tick

Spec == Init /\ [][Next]_vars

-----------------------------------------------------------------------------

Doing ==
    {Step(at) : at \in {"idle", "lock", "look", "save", "issue", "insert"}}
        \cup {Renewal(at, b, held) :
                  at \in {"extend", "answer"}, b \in Browsers, held \in 0..MaxHeld}
        \cup {Adoption(key) : key \in 1..keys}

TypeOK ==
    /\ up \in BOOLEAN
    /\ req \in [Requests -> Doing]
    /\ lock \in Requests \cup {NoRequest}
    /\ row \in [Browsers -> -1 .. Lifetime]
    /\ cookie \in [Browsers -> 0 .. Lifetime]
    /\ quiet \in [Browsers -> 0 .. Half]
    /\ out \in [Browsers -> BOOLEAN] /\ cut \in [Browsers -> BOOLEAN]
    /\ {user, memory, keys, events} \subseteq Nat
    /\ stored \in 0..keys
    /\ raced \in BOOLEAN

(* Set-up is open until it has run once: of two that run together, or one  *)
(* cut short by a kill and its repetition, one creates the account and no  *)
(* other writes over it.                                                   *)
SetUpOnce == user <= 1

(* A browser that comes back within half a lifetime, less the time a       *)
(* request may take, is never asked to sign in again: neither its row nor  *)
(* its cookie expires, but for the time its next cookie is on the way.     *)
(* The exceptions are a renewal whose answer was lost, which leaves a      *)
(* cookie that runs out before its row is renewed again, and one whose row *)
(* expired and was pruned while it was under way.                          *)
ActiveStaysIn ==
    \A b \in Browsers :
        quiet[b] < Half - MaxHeld /\ ~ out[b] /\ ~ cut[b] =>
            /\ row[b] > 0
            /\ cookie[b] > 0 \/ \E r \in Requests : Answering(r, b)

(* A session that was signed out is gone for good, though a renewal of it  *)
(* was under way.                                                          *)
SignedOutIsGone == \A b \in Browsers : out[b] => row[b] = -1

(* The key the process goes by is the stored one, for every order of first *)
(* reads, replacements and restarts, once a replacement is through.  Only  *)
(* one that overtook another key on its way into memory may leave an older *)
(* key in force.                                                           *)
KeyInForceIsStored ==
    \/ memory \in {0, stored}
    \/ \E r \in Requests : req[r] = Adoption(stored)
    \/ raced

=============================================================================
