---------------------------- MODULE AccountsProofs ----------------------------
(* What Accounts promises, for any number of requests and browsers and any  *)
(* lifetime.                                                                *)
EXTENDS Accounts, TLAPS

LEMMA HalfFacts == Half \in Nat /\ MaxHeld \in Nat /\ MaxHeld < Half /\ 2 * Half <= Lifetime
                   /\ Lifetime \in Nat
  BY AccountsAssumption DEF Half

(* A request is known by where it is and what it carries. *)
LEMMA Shapes ==
    ASSUME NEW r \in Requests, req \in [Requests -> Doing]
    PROVE  /\ req[r].at \in {"idle", "lock", "look", "save", "issue", "insert",
                             "extend", "answer", "adopt"}
           /\ Renewing(r) => /\ req[r] = Renewal(req[r].at, req[r].browser, req[r].held)
                             /\ req[r].browser \in Browsers
                             /\ req[r].held \in 0..MaxHeld
           /\ req[r].at = "adopt" => /\ req[r] = Adoption(req[r].key)
                                     /\ req[r].key \in 1..keys
  BY DEF Doing, Step, Renewal, Adoption, Renewing

LEMMA Constructors ==
    /\ \A at : Step(at).at = at
    /\ \A at, b, h : /\ Renewal(at, b, h).at = at
                     /\ Renewal(at, b, h).browser = b
                     /\ Renewal(at, b, h).held = h
    /\ \A k : Adoption(k).at = "adopt" /\ Adoption(k).key = k
    /\ Idle = Step("idle")
  BY DEF Step, Renewal, Adoption, Idle

LEMMA Members ==
    /\ \A at \in {"idle", "lock", "look", "save", "issue", "insert"} : Step(at) \in Doing
    /\ \A at \in {"extend", "answer"}, b \in Browsers, h \in 0..MaxHeld :
          Renewal(at, b, h) \in Doing
    /\ \A k \in 1..keys : Adoption(k) \in Doing
    /\ Idle \in Doing
  BY Constructors DEF Doing

(* More keys, more that a request can carry. *)
LEMMA DoingGrows ==
    ASSUME keys \in Nat, keys' \in Nat, keys <= keys', NEW x \in Doing
    PROVE  x \in Doing'
  BY DEF Doing

LEMMA MembersNext ==
    /\ \A at \in {"idle", "lock", "look", "save", "issue", "insert"} : Step(at) \in Doing'
    /\ \A at \in {"extend", "answer"}, b \in Browsers, h \in 0..MaxHeld :
          Renewal(at, b, h) \in Doing'
    /\ \A k \in 1..keys' : Adoption(k) \in Doing'
    /\ Idle \in Doing'
  BY Constructors DEF Doing

(* The steps that leave every request but one alone. *)
LEMMA Going ==
    ASSUME NEW r \in Requests, NEW there, req \in [Requests -> Doing], Goes(r, there)
    PROVE  /\ \A q \in Requests : req'[q] = IF q = r THEN there ELSE req[q]
           /\ keys \in Nat /\ keys' \in Nat /\ keys <= keys' /\ there \in Doing'
                => req' \in [Requests -> Doing']
  BY DoingGrows DEF Goes

-----------------------------------------------------------------------------

LEMMA InitTyped == Init => TypeOK
  <1> SUFFICES ASSUME Init PROVE TypeOK
    OBVIOUS
  <1>1. req \in [Requests -> Doing]
    BY Members DEF Init
  <1>2. out \in [Browsers -> BOOLEAN] /\ cut \in [Browsers -> BOOLEAN]
    BY DEF Init
  <1>3. row \in [Browsers -> -1 .. Lifetime] /\ cookie \in [Browsers -> 0 .. Lifetime]
    BY HalfFacts DEF Init
  <1>4. quiet \in [Browsers -> 0 .. Half]
    BY HalfFacts DEF Init
  <1>5. up \in BOOLEAN /\ raced \in BOOLEAN
    BY ZenonT(30) DEF Init
  <1>6. QED
    BY <1>1, <1>2, <1>3, <1>4, <1>5 DEF Init, TypeOK

(* Each kind of step, on what it changes. *)
LEMMA LoginTyped ==
    ASSUME TypeOK, NEW r \in Requests, LoginStep(r)
    PROVE  TypeOK'
  <1> USE Going, MembersNext, HalfFacts DEF TypeOK, loginVars, sessionVars, keyVars, Event
  <1>1. CASE BeginSetup(r) BY <1>1 DEF BeginSetup
  <1>2. CASE TakeLock(r) BY <1>2 DEF TakeLock
  <1>3. CASE FirstUser(r) BY <1>3 DEF FirstUser
  <1>4. CASE AlreadySetUp(r) BY <1>4 DEF AlreadySetUp
  <1>5. CASE SaveUser(r) BY <1>5 DEF SaveUser
  <1>6. CASE Login(r) BY <1>6 DEF Login
  <1>7. CASE PruneSessions(r)
    <2>1. \A b \in Browsers :
             (cut[b] \/ (row[b] = 0 /\ \E q \in Requests : RenewalOf(q, b))) \in BOOLEAN
      OBVIOUS
    <2>2. cut' \in [Browsers -> BOOLEAN]
      BY <1>7, <2>1, ZenonT(30) DEF PruneSessions
    <2>3. QED
      BY <1>7, <2>2, DoingGrows DEF PruneSessions
  <1>8. ASSUME NEW b \in Browsers, Issue(r, b) PROVE TypeOK'
    BY <1>8 DEF Issue
  <1>9. QED
    BY <1>1, <1>2, <1>3, <1>4, <1>5, <1>6, <1>7, <1>8 DEF LoginStep

LEMMA SessionTyped ==
    ASSUME TypeOK, NEW r \in Requests, SessionStep(r)
    PROVE  TypeOK'
  <1> USE Going, MembersNext, DoingGrows, HalfFacts DEF TypeOK, loginVars, sessionVars, keyVars
  <1>1. ASSUME NEW b \in Browsers, Resolve(r, b) PROVE TypeOK'
    BY <1>1 DEF Resolve
  <1>2. ASSUME NEW b \in Browsers, ResolveOld(r, b) PROVE TypeOK'
    BY <1>2 DEF ResolveOld
  <1>3. ASSUME NEW b \in Browsers, Logout(r, b) PROVE TypeOK'
    BY <1>3 DEF Logout
  <1>4. CASE Extend(r)
    BY <1>4, Shapes DEF Extend, Renewing, At
  <1>5. CASE Answer(r)
    BY <1>5, Shapes DEF Answer, Renewing, At
  <1>6. QED
    BY <1>1, <1>2, <1>3, <1>4, <1>5 DEF SessionStep

LEMMA KeyTyped ==
    ASSUME TypeOK, NEW r \in Requests, KeyStep(r)
    PROVE  TypeOK'
  <1> USE Going, MembersNext, DoingGrows, HalfFacts
      DEF TypeOK, loginVars, sessionVars, keyVars, NewKey
  <1>1. CASE ReadKey(r) BY <1>1 DEF ReadKey
  <1>2. CASE CreateIfAbsent(r) BY <1>2 DEF CreateIfAbsent
  <1>3. CASE Regenerate(r) BY <1>3 DEF Regenerate, Event
  <1>4. CASE Adopt(r) BY <1>4, Shapes DEF Adopt, At
  <1>5. QED
    BY <1>1, <1>2, <1>3, <1>4 DEF KeyStep

LEMMA OthersTyped ==
    ASSUME TypeOK, Boot \/ Kill \/ Tick \/ (\E r \in Requests : RequestFails(r))
    PROVE  TypeOK'
  <1> USE MembersNext, DoingGrows, HalfFacts
      DEF TypeOK, loginVars, sessionVars, keyVars, NewKey, Event
  <1>1. CASE Boot
    BY <1>1 DEF Boot
  <1>2. CASE Kill
    <2>1. \A b \in Browsers : (cut[b] \/ \E r \in Requests : Answering(r, b)) \in BOOLEAN
      OBVIOUS
    <2>2. cut' \in [Browsers -> BOOLEAN]
      BY <1>2, <2>1, ZenonT(30) DEF Kill
    <2>3. req' \in [Requests -> Doing']
      BY <1>2 DEF Kill
    <2>4. up' \in BOOLEAN /\ raced' \in BOOLEAN
      BY <1>2, ZenonT(30) DEF Kill
    <2>5. QED
      BY <1>2, <2>2, <2>3, <2>4 DEF Kill
  <1>3. CASE Tick
    <2>1. ASSUME NEW r \in Requests, Renewing(r) PROVE req'[r] \in Doing'
      <3>1. /\ req[r].at \in {"extend", "answer"} /\ req[r].browser \in Browsers
            /\ req[r].held + 1 \in 0..MaxHeld
        BY <1>3, <2>1, Shapes DEF Tick, Renewing
      <3>2. req'[r] = Renewal(req[r].at, req[r].browser, req[r].held + 1)
        BY <1>3, <2>1 DEF Tick
      <3>3. QED
        BY <3>1, <3>2
    <2>2. ASSUME NEW r \in Requests, ~ Renewing(r) PROVE req'[r] \in Doing'
      BY <1>3, <2>2 DEF Tick
    <2>3. req' \in [Requests -> Doing']
      BY <1>3, <2>1, <2>2 DEF Tick
    <2>4. QED
      BY <1>3, <2>3 DEF Tick, Less
  <1>4. ASSUME NEW r \in Requests, RequestFails(r) PROVE TypeOK'
    BY <1>4, Going DEF RequestFails
  <1>5. QED
    BY <1>1, <1>2, <1>3, <1>4

(* Requests, sessions and keys keep their types. *)
THEOREM TypeCorrect == Spec => []TypeOK
  <1>1. TypeOK /\ [Next]_vars => TypeOK'
    <2> SUFFICES ASSUME TypeOK, [Next]_vars PROVE TypeOK'
      OBVIOUS
    <2>1. CASE UNCHANGED vars
      BY <2>1, DoingGrows DEF TypeOK, vars, loginVars, sessionVars, keyVars, Doing
    <2>2. CASE Next
      BY <2>2, LoginTyped, SessionTyped, KeyTyped, OthersTyped DEF Next
    <2>3. QED
      BY <2>1, <2>2
  <1>2. QED
    BY <1>1, InitTyped, PTL DEF Spec

-----------------------------------------------------------------------------
(* Set-up: whoever is past the lock holds it, and whoever is about to write *)
(* the account has seen that there is none.                                 *)

LockInv ==
    /\ \A r \in Requests : req[r].at \in {"look", "save"} => lock = r
    /\ \A r \in Requests : req[r].at = "save" => user = 0
    /\ user <= 1

(* Sessions: a row holds out until its browser has been away for half a     *)
(* lifetime, less the time of a request, and a renewal that has written its *)
(* row leaves it more than that.                                            *)
RowOf(b) ==
    /\ \A r \in Requests : RenewalOf(r, b) => row[b] >= 0
    /\ \A r \in Requests :
          Answering(r, b) => row[b] >= Lifetime - MaxHeld - req[r].held
    /\ quiet[b] < Half - MaxHeld => row[b] >= Half - MaxHeld - quiet[b]

RowInv == \A b \in Browsers : ~ out[b] /\ ~ cut[b] => RowOf(b)

(* A cookie trails its row by no more than the time of a request, but for   *)
(* the answers on the way.                                                  *)
CookieOf(b) ==
    \/ \E r \in Requests : Answering(r, b)
    \/ /\ cookie[b] >= row[b] - MaxHeld
       /\ ~ out[b] /\ quiet[b] < Half - MaxHeld => cookie[b] >= Half - MaxHeld - quiet[b]

CookieInv == \A b \in Browsers : ~ cut[b] => CookieOf(b)

(* Keys: unless a replacement overtook it, a key on its way into memory is  *)
(* the stored one.                                                          *)
KeyInv ==
    /\ ~ raced => \A r \in Requests : req[r].at = "adopt" => req[r].key = stored
    /\ KeyInForceIsStored

(* Everything about the sessions. *)
SessionInv == SignedOutIsGone /\ RowInv /\ CookieInv

(* A step that touches no session, and whose request was not answering one  *)
(* and does not begin to renew one.                                         *)
LEMMA ElsewhereKeepsSessions ==
    ASSUME SessionInv, UNCHANGED sessionVars,
           \A q \in Requests :
              req'[q] = req[q]
                \/ (req[q].at # "answer" /\ req'[q].at \notin {"extend", "answer"})
    PROVE  SessionInv'
  <1>1. \A q \in Requests, b \in Browsers :
         /\ Answering(q, b)' <=> Answering(q, b)
         /\ RenewalOf(q, b)' => RenewalOf(q, b)
         /\ Answering(q, b)' => req'[q] = req[q]
    BY DEF Answering, RenewalOf, Renewing
  <1>2. row' = row /\ cookie' = cookie /\ quiet' = quiet /\ out' = out /\ cut' = cut
    BY DEF sessionVars
  <1>3. SignedOutIsGone'
    BY <1>2 DEF SessionInv, SignedOutIsGone
  <1>4. RowInv'
    <2> SUFFICES ASSUME NEW b \in Browsers, ~ out[b], ~ cut[b] PROVE RowOf(b)'
      BY <1>2 DEF RowInv
    <2>1. RowOf(b)
      BY DEF SessionInv, RowInv
    <2> QED
      BY <1>1, <1>2, <2>1 DEF RowOf
  <1>5. CookieInv'
    <2> SUFFICES ASSUME NEW b \in Browsers, ~ cut[b] PROVE CookieOf(b)'
      BY <1>2 DEF CookieInv
    <2>1. CookieOf(b)
      BY DEF SessionInv, CookieInv
    <2> QED
      BY <1>1, <1>2, <2>1 DEF CookieOf
  <1>6. QED
    BY <1>3, <1>4, <1>5 DEF SessionInv

(* The steps of set-up, login and keys are such steps ... *)
LEMMA LoginKeepsSessions ==
    ASSUME TypeOK, SessionInv, NEW r \in Requests,
           \/ BeginSetup(r) \/ TakeLock(r) \/ FirstUser(r) \/ AlreadySetUp(r)
           \/ SaveUser(r) \/ Login(r) \/ KeyStep(r) \/ RequestFails(r)
    PROVE  SessionInv'
  <1>1. UNCHANGED sessionVars
    BY DEF BeginSetup, TakeLock, FirstUser, AlreadySetUp, SaveUser, Login, KeyStep, ReadKey,
           CreateIfAbsent, Regenerate, Adopt, RequestFails
  <1>2. PICK there : Goes(r, there) /\ there.at \notin {"extend", "answer"}
    BY Constructors DEF BeginSetup, TakeLock, FirstUser, AlreadySetUp, SaveUser, Login,
           KeyStep, ReadKey, CreateIfAbsent, Regenerate, Adopt, RequestFails
  <1>3. req[r].at # "answer"
    BY DEF At, BeginSetup, TakeLock, FirstUser, AlreadySetUp, SaveUser, Login,
           KeyStep, ReadKey, CreateIfAbsent, Regenerate, Adopt, RequestFails
  <1>4. \A q \in Requests : req'[q] = IF q = r THEN there ELSE req[q]
    BY <1>2, Going DEF TypeOK
  <1>5. QED
    BY <1>1, <1>2, <1>3, <1>4, ElsewhereKeepsSessions

(* ... and these are not. *)
LEMMA PruneKeepsSessions ==
    ASSUME TypeOK, SessionInv, NEW r \in Requests, PruneSessions(r)
    PROVE  SessionInv'
  <1> USE HalfFacts DEF TypeOK
  <1>1. \A b \in Browsers :
           /\ row'[b] = IF row[b] = 0 THEN -1 ELSE row[b]
           /\ ~ cut'[b] => ~ cut[b] /\ (row[b] = 0 => \A q \in Requests : ~ RenewalOf(q, b))
    BY DEF PruneSessions
  <1>2. \A q \in Requests, b \in Browsers :
         /\ Answering(q, b)' <=> Answering(q, b)
         /\ RenewalOf(q, b)' <=> RenewalOf(q, b)
         /\ Answering(q, b) => RenewalOf(q, b)
    BY DEF Answering, RenewalOf, Renewing, PruneSessions
  <1>3. UNCHANGED <<req, out, quiet, cookie>>
    BY DEF PruneSessions
  <1>4. SignedOutIsGone'
    BY <1>1, <1>3 DEF SessionInv, SignedOutIsGone
  <1>5. RowInv'
    BY <1>1, <1>2, <1>3 DEF SessionInv, RowInv, RowOf
  <1>6. CookieInv'
    BY <1>1, <1>2, <1>3 DEF SessionInv, CookieInv, CookieOf
  <1>7. QED
    BY <1>4, <1>5, <1>6 DEF SessionInv

LEMMA IssueKeepsSessions ==
    ASSUME TypeOK, SessionInv, NEW r \in Requests, NEW b \in Browsers, Issue(r, b)
    PROVE  SessionInv'
  <1> USE HalfFacts DEF TypeOK
  <1>1. \A q \in Requests, c \in Browsers :
         /\ Answering(q, c)' <=> Answering(q, c)
         /\ RenewalOf(q, c)' => RenewalOf(q, c)
         /\ Answering(q, c) => req'[q] = req[q]
    BY Going, Constructors DEF Issue, At, Answering, RenewalOf, Renewing
  <1>2. \A c \in Browsers :
         /\ row'[c] = IF c = b THEN Lifetime ELSE row[c]
         /\ cookie'[c] = IF c = b THEN Lifetime ELSE cookie[c]
         /\ quiet'[c] = IF c = b THEN 0 ELSE quiet[c]
    BY DEF Issue
  <1>3. ~ out[b] /\ row[b] = -1 /\ UNCHANGED <<out, cut>>
    BY DEF Issue
  <1>4. SignedOutIsGone'
    BY <1>2, <1>3 DEF SessionInv, SignedOutIsGone
  <1>5. \A q \in Requests : ~ cut[b] => ~ RenewalOf(q, b)
    BY <1>3 DEF SessionInv, RowInv, RowOf
  <1>6. RowInv'
    <2> SUFFICES ASSUME NEW c \in Browsers, ~ out'[c], ~ cut'[c] PROVE RowOf(c)'
      BY DEF RowInv
    <2>1. CASE c = b
      BY <2>1, <1>1, <1>2, <1>3, <1>5 DEF RowOf, Answering, RenewalOf, Renewing
    <2>2. CASE c # b
      BY <2>2, <1>1, <1>2, <1>3 DEF SessionInv, RowInv, RowOf
    <2>3. QED
      BY <2>1, <2>2
  <1>7. CookieInv'
    BY <1>1, <1>2, <1>3 DEF SessionInv, CookieInv, CookieOf
  <1>8. QED
    BY <1>4, <1>6, <1>7 DEF SessionInv

LEMMA ResolveKeepsSessions ==
    ASSUME TypeOK, SessionInv, NEW r \in Requests, NEW b \in Browsers,
           Resolve(r, b) \/ ResolveOld(r, b)
    PROVE  SessionInv'
  <1> USE HalfFacts DEF TypeOK
  <1>1. CASE Resolve(r, b)
    <2>1. UNCHANGED <<req, row, cookie, out, cut>>
      BY <1>1 DEF Resolve
    <2>2. \A c \in Browsers : quiet'[c] = IF c = b THEN 0 ELSE quiet[c]
      BY <1>1 DEF Resolve
    <2>3. row[b] >= Half
      BY <1>1 DEF Resolve
    <2>4. \A q \in Requests, c \in Browsers :
             /\ Answering(q, c)' <=> Answering(q, c)
             /\ RenewalOf(q, c)' <=> RenewalOf(q, c)
      BY <2>1 DEF Answering, RenewalOf, Renewing
    <2>5. SignedOutIsGone'
      BY <2>1 DEF SessionInv, SignedOutIsGone
    <2>6. RowInv'
      BY <2>1, <2>2, <2>3, <2>4 DEF SessionInv, RowInv, RowOf
    <2>7. CookieInv'
      BY <2>1, <2>2, <2>3, <2>4 DEF SessionInv, CookieInv, CookieOf
    <2>8. QED
      BY <2>5, <2>6, <2>7 DEF SessionInv
  <1>2. CASE ResolveOld(r, b)
    <2>1. UNCHANGED <<row, cookie, quiet, out, cut>>
      BY <1>2 DEF ResolveOld, sessionVars
    <2>2. row[b] >= 0
      BY <1>2 DEF ResolveOld
    <2>3. \A q \in Requests, c \in Browsers :
             /\ Answering(q, c)' <=> Answering(q, c)
             /\ RenewalOf(q, c)' => RenewalOf(q, c) \/ c = b
             /\ Answering(q, c) => req'[q] = req[q]
      BY <1>2, Going, Constructors DEF ResolveOld, At, Answering, RenewalOf, Renewing
    <2>4. SignedOutIsGone'
      BY <2>1 DEF SessionInv, SignedOutIsGone
    <2>5. RowInv'
      BY <2>1, <2>2, <2>3 DEF SessionInv, RowInv, RowOf
    <2>6. CookieInv'
      BY <2>1, <2>3 DEF SessionInv, CookieInv, CookieOf
    <2>7. QED
      BY <2>4, <2>5, <2>6 DEF SessionInv
  <1>3. QED
    BY <1>1, <1>2

LEMMA ExtendKeepsSessions ==
    ASSUME TypeOK, SessionInv, NEW r \in Requests, Extend(r)
    PROVE  SessionInv'
  <1> DEFINE b == req[r].browser
             h == req[r].held
  <1> USE HalfFacts DEF TypeOK
  <1>1. /\ b \in Browsers /\ h \in 0..MaxHeld /\ RenewalOf(r, b)
        /\ \A c : ~ Answering(r, c)
    BY Shapes DEF Extend, At, Renewing, RenewalOf, Answering
  <1>2. /\ \A c \in Browsers :
              row'[c] = IF c # b \/ row[c] = -1 THEN row[c] ELSE Lifetime - h
        /\ UNCHANGED <<cookie, quiet, out, cut>>
    BY DEF Extend
  <1>3. req' = [req EXCEPT ![r] = Renewal("answer", b, h)]
    BY DEF Extend, Goes
  <1> HIDE DEF b, h
  <1>4. \A q \in Requests, c \in Browsers :
           /\ Answering(q, c)' <=> Answering(q, c) \/ (q = r /\ c = b)
           /\ RenewalOf(q, c)' <=> RenewalOf(q, c)
           /\ req'[q].held = IF q = r THEN h ELSE req[q].held
    BY <1>1, <1>3, Constructors DEF Answering, RenewalOf, Renewing
  <1>5. \A q \in Requests, c \in Browsers :
           Answering(q, c)' => req'[q].held \in 0..MaxHeld
    <2>1. \A q \in Requests, c \in Browsers : Answering(q, c) => req[q].held \in 0..MaxHeld
      BY Shapes DEF Answering, Renewing
    <2>2. QED
      BY <2>1, <1>1, <1>4
  <1>6. SignedOutIsGone'
    BY <1>2 DEF SessionInv, SignedOutIsGone
  <1>7. RowInv'
    <2> SUFFICES ASSUME NEW c \in Browsers, ~ out[c], ~ cut[c] PROVE RowOf(c)'
      BY <1>2 DEF RowInv
    <2>1. RowOf(c)
      BY DEF SessionInv, RowInv
    <2>2. CASE c = b
      <3>1. row'[c] = Lifetime - h
        BY <2>1, <2>2, <1>1, <1>2 DEF RowOf
      <3>2. QED
        BY <3>1, <1>1, <1>2, <1>5 DEF RowOf
    <2>3. CASE c # b
      BY <2>1, <2>3, <1>1, <1>2, <1>4 DEF RowOf
    <2>4. QED
      BY <2>2, <2>3
  <1>8. CookieInv'
    BY <1>2, <1>4 DEF SessionInv, CookieInv, CookieOf
  <1>9. QED
    BY <1>6, <1>7, <1>8 DEF SessionInv

LEMMA AnswerKeepsSessions ==
    ASSUME TypeOK, SessionInv, NEW r \in Requests, Answer(r)
    PROVE  SessionInv'
  <1> DEFINE b == req[r].browser
             h == req[r].held
  <1> USE HalfFacts DEF TypeOK
  <1>1. b \in Browsers /\ h \in 0..MaxHeld /\ Answering(r, b)
    BY Shapes DEF Answer, At, Renewing, Answering
  <1>2. /\ UNCHANGED <<row, out, cut>>
        /\ \A c \in Browsers :
              /\ cookie'[c] = IF c = b THEN Lifetime - h ELSE cookie[c]
              /\ quiet'[c] = IF c = b THEN 0 ELSE quiet[c]
    BY DEF Answer
  <1>3. ~ out[b] /\ ~ cut[b] => row[b] >= Half - MaxHeld
    <2>1. ~ out[b] /\ ~ cut[b] => row[b] >= Lifetime - MaxHeld - h
      BY <1>1 DEF SessionInv, RowInv, RowOf
    <2>2. QED
      BY <2>1, <1>1
  <1> HIDE DEF b, h
  <1>4. \A q \in Requests, c \in Browsers :
           /\ Answering(q, c)' => Answering(q, c) /\ req'[q] = req[q]
           /\ RenewalOf(q, c)' => RenewalOf(q, c)
           /\ c # b /\ Answering(q, c) => Answering(q, c)'
    BY Going, Constructors DEF Answer, At, Answering, RenewalOf, Renewing, b
  <1>5. SignedOutIsGone'
    BY <1>2 DEF SessionInv, SignedOutIsGone
  <1>6. RowInv'
    BY <1>2, <1>3, <1>4 DEF SessionInv, RowInv, RowOf
  <1>7. CookieInv'
    BY <1>1, <1>2, <1>4 DEF SessionInv, CookieInv, CookieOf
  <1>8. QED
    BY <1>5, <1>6, <1>7 DEF SessionInv

LEMMA LogoutKeepsSessions ==
    ASSUME TypeOK, SessionInv, NEW r \in Requests, NEW b \in Browsers, Logout(r, b)
    PROVE  SessionInv'
  <1> USE HalfFacts DEF TypeOK
  <1>1. /\ UNCHANGED <<req, quiet, cut>>
        /\ \A c \in Browsers :
              /\ row'[c] = IF c = b THEN -1 ELSE row[c]
              /\ cookie'[c] = IF c = b THEN 0 ELSE cookie[c]
              /\ out'[c] <=> (c = b \/ out[c])
    BY DEF Logout
  <1>2. \A q \in Requests, c \in Browsers :
           /\ Answering(q, c)' <=> Answering(q, c)
           /\ RenewalOf(q, c)' <=> RenewalOf(q, c)
    BY <1>1 DEF Answering, RenewalOf, Renewing
  <1>3. SignedOutIsGone'
    BY <1>1 DEF SessionInv, SignedOutIsGone
  <1>4. RowInv'
    BY <1>1, <1>2 DEF SessionInv, RowInv, RowOf
  <1>5. CookieInv'
    <2> SUFFICES ASSUME NEW c \in Browsers, ~ cut[c] PROVE CookieOf(c)'
      BY <1>1 DEF CookieInv
    <2>1. CookieOf(c) /\ cookie[c] \in 0 .. Lifetime
      BY DEF SessionInv, CookieInv
    <2>2. CASE c = b
      BY <2>2, <1>1 DEF CookieOf
    <2>3. CASE c # b
      BY <2>1, <2>3, <1>1, <1>2 DEF CookieOf
    <2>4. QED
      BY <2>2, <2>3
  <1>6. QED
    BY <1>3, <1>4, <1>5 DEF SessionInv

LEMMA KillKeepsSessions == ASSUME TypeOK, SessionInv, Kill PROVE SessionInv'
  <1>1. UNCHANGED <<row, cookie, quiet, out>>
    BY DEF Kill
  <1>2. \A b \in Browsers :
           ~ cut'[b] => ~ cut[b] /\ \A q \in Requests : ~ Answering(q, b)
    BY DEF Kill
  <1>3. \A q \in Requests, b \in Browsers : ~ Answering(q, b)' /\ ~ RenewalOf(q, b)'
    BY Constructors DEF Kill, Answering, RenewalOf, Renewing
  <1>4. SignedOutIsGone'
    BY <1>1 DEF SessionInv, SignedOutIsGone
  <1>5. RowInv'
    BY <1>1, <1>2, <1>3 DEF SessionInv, RowInv, RowOf
  <1>6. CookieInv'
    BY <1>1, <1>2, <1>3 DEF SessionInv, CookieInv, CookieOf
  <1>7. QED
    BY <1>4, <1>5, <1>6 DEF SessionInv

LEMMA TickKeepsSessions == ASSUME TypeOK, SessionInv, Tick PROVE SessionInv'
  <1> USE HalfFacts DEF TypeOK
  <1>1. UNCHANGED <<out, cut>>
    BY DEF Tick
  <1>2. \A b \in Browsers :
           /\ row'[b] = IF row[b] > 0 THEN row[b] - 1 ELSE row[b]
           /\ cookie'[b] = IF cookie[b] > 0 THEN cookie[b] - 1 ELSE cookie[b]
           /\ quiet'[b] = IF quiet[b] < Half THEN quiet[b] + 1 ELSE Half
    BY DEF Tick, Less
  <1>3. \A q \in Requests, b \in Browsers :
           /\ Answering(q, b)' <=> Answering(q, b)
           /\ RenewalOf(q, b)' <=> RenewalOf(q, b)
           /\ Answering(q, b) => req'[q].held = req[q].held + 1 /\ req[q].held \in 0..MaxHeld
    BY Shapes, Constructors DEF Tick, Answering, RenewalOf, Renewing
  <1>4. SignedOutIsGone'
    BY <1>1, <1>2 DEF SessionInv, SignedOutIsGone
  <1>5. RowInv'
    <2> SUFFICES ASSUME NEW b \in Browsers, ~ out[b], ~ cut[b] PROVE RowOf(b)'
      BY <1>1 DEF RowInv
    <2>1. RowOf(b) /\ row[b] \in -1 .. Lifetime /\ quiet[b] \in 0 .. Half
      BY DEF SessionInv, RowInv
    <2>2. QED
      BY <2>1, <1>2, <1>3 DEF RowOf
  <1>6. CookieInv'
    <2> SUFFICES ASSUME NEW b \in Browsers, ~ cut[b] PROVE CookieOf(b)'
      BY <1>1 DEF CookieInv
    <2>1. /\ CookieOf(b)
          /\ row[b] \in -1 .. Lifetime /\ quiet[b] \in 0 .. Half /\ cookie[b] \in 0 .. Lifetime
      BY DEF SessionInv, CookieInv
    <2>2. QED
      BY <2>1, <1>1, <1>2, <1>3 DEF CookieOf
  <1>7. QED
    BY <1>4, <1>5, <1>6 DEF SessionInv

LEMMA BootKeepsSessions == ASSUME SessionInv, Boot PROVE SessionInv'
  BY ElsewhereKeepsSessions DEF Boot

LEMMA StutterKeepsSessions == ASSUME SessionInv, UNCHANGED vars PROVE SessionInv'
  BY ElsewhereKeepsSessions DEF vars

LEMMA InitSessions == Init => SessionInv
  <1> SUFFICES ASSUME Init PROVE SessionInv
    OBVIOUS
  <1>1. \A q \in Requests, b \in Browsers : ~ Answering(q, b) /\ ~ RenewalOf(q, b)
    BY Constructors DEF Init, Answering, RenewalOf, Renewing
  <1>2. \A b \in Browsers : row[b] = -1 /\ cookie[b] = 0 /\ quiet[b] = Half /\ ~ out[b]
    BY DEF Init
  <1>3. QED
    BY <1>1, <1>2, HalfFacts
       DEF SessionInv, SignedOutIsGone, RowInv, RowOf, CookieInv, CookieOf

LEMMA SessionsKept == Spec => []SessionInv
  <1>1. TypeOK /\ SessionInv /\ [Next]_vars => SessionInv'
    BY LoginKeepsSessions, PruneKeepsSessions, IssueKeepsSessions, ResolveKeepsSessions,
       ExtendKeepsSessions, AnswerKeepsSessions, LogoutKeepsSessions, KillKeepsSessions,
       TickKeepsSessions, BootKeepsSessions, StutterKeepsSessions
       DEF Next, LoginStep, SessionStep
  <1>2. QED
    BY <1>1, InitSessions, TypeCorrect, PTL DEF Spec

(* The row and the cookie of a browser that comes back in time are there.   *)
THEOREM ActiveBrowsersStayIn == Spec => []ActiveStaysIn
  <1>1. TypeOK /\ SessionInv => ActiveStaysIn
    <2> SUFFICES ASSUME TypeOK, SessionInv, NEW b \in Browsers,
                        quiet[b] < Half - MaxHeld, ~ out[b], ~ cut[b]
                 PROVE  row[b] > 0 /\ (cookie[b] > 0 \/ \E r \in Requests : Answering(r, b))
      BY DEF ActiveStaysIn
    <2>1. RowOf(b) /\ CookieOf(b)
      BY DEF SessionInv, RowInv, CookieInv
    <2>2. QED
      BY <2>1, HalfFacts DEF TypeOK, RowOf, CookieOf
  <1>2. QED
    BY <1>1, SessionsKept, TypeCorrect, PTL

(* Extending a session is an UPDATE, which does not bring it back.          *)
THEOREM SignedOutStaysOut == Spec => []SignedOutIsGone
  <1>1. SessionInv => SignedOutIsGone
    BY DEF SessionInv
  <1>2. QED
    BY <1>1, SessionsKept, PTL

-----------------------------------------------------------------------------

(* The lock serves one request at a time, and a failure or a kill releases  *)
(* it.                                                                      *)
THEOREM OneAccount == Spec => []SetUpOnce
  <1>1. Init => LockInv
    BY Constructors DEF Init, LockInv
  <1>2. TypeOK /\ LockInv /\ [Next]_vars => LockInv'
    <2> SUFFICES ASSUME TypeOK, LockInv, [Next]_vars PROVE LockInv'
      OBVIOUS
    <2> USE AccountsAssumption, Constructors DEF LockInv
    <2>1. CASE UNCHANGED vars
      BY <2>1 DEF vars, loginVars
    <2>2. ASSUME NEW r \in Requests, LoginStep(r) PROVE LockInv'
      <3> req \in [Requests -> Doing]
        BY DEF TypeOK
      <3>1. CASE BeginSetup(r) BY <3>1, Going DEF BeginSetup, loginVars
      <3>2. CASE TakeLock(r) BY <3>2, Going DEF TakeLock
      <3>3. CASE FirstUser(r) BY <3>3, Going DEF FirstUser, At, loginVars
      <3>4. CASE AlreadySetUp(r) BY <3>4, Going DEF AlreadySetUp, At
      <3>5. CASE SaveUser(r) BY <3>5, Going DEF SaveUser, At
      <3>6. CASE Login(r) BY <3>6, Going DEF Login, loginVars
      <3>7. CASE PruneSessions(r) BY <3>7 DEF PruneSessions, loginVars
      <3>8. ASSUME NEW b \in Browsers, Issue(r, b) PROVE LockInv'
        BY <3>8, Going DEF Issue, loginVars
      <3>9. QED
        BY <2>2, <3>1, <3>2, <3>3, <3>4, <3>5, <3>6, <3>7, <3>8 DEF LoginStep
    <2>3. ASSUME NEW r \in Requests, SessionStep(r) \/ KeyStep(r) PROVE LockInv'
      <3>1. UNCHANGED loginVars
        BY <2>3 DEF SessionStep, Resolve, ResolveOld, Extend, Answer, Logout, KeyStep,
                    ReadKey, CreateIfAbsent, Regenerate, Adopt
      <3>2. \A q \in Requests : req'[q] = req[q] \/ req'[q].at \notin {"look", "save"}
        BY <2>3, Going DEF TypeOK, SessionStep, Resolve, ResolveOld, Extend, Answer, Logout,
                           KeyStep, ReadKey, CreateIfAbsent, Regenerate, Adopt
      <3>3. QED
        BY <3>1, <3>2 DEF loginVars
    <2>4. ASSUME NEW r \in Requests, RequestFails(r) PROVE LockInv'
      BY <2>4, Going DEF RequestFails, TypeOK
    <2>5. CASE Boot
      BY <2>5 DEF Boot, loginVars
    <2>6. CASE Kill
      BY <2>6 DEF Kill
    <2>7. CASE Tick
      <3>1. \A q \in Requests : req'[q] = req[q] \/ req'[q].at \notin {"look", "save"}
        BY <2>7 DEF Tick, Renewing
      <3>2. QED
        BY <2>7, <3>1 DEF Tick, loginVars
    <2>8. QED
      BY <2>1, <2>2, <2>3, <2>4, <2>5, <2>6, <2>7 DEF Next
  <1>3. LockInv => SetUpOnce
    BY DEF LockInv, SetUpOnce
  <1>4. QED
    BY <1>1, <1>2, <1>3, TypeCorrect, PTL DEF Spec

-----------------------------------------------------------------------------

(* Whoever is bringing a key into memory brings the stored one.             *)
THEOREM KeyOfProcessIsStored == Spec => []KeyInForceIsStored
  <1>1. Init => KeyInv
    BY Constructors DEF Init, KeyInv, KeyInForceIsStored
  <1>2. TypeOK /\ KeyInv /\ [Next]_vars => KeyInv'
    <2> SUFFICES ASSUME TypeOK, KeyInv, [Next]_vars PROVE KeyInv'
      OBVIOUS
    <2> USE Constructors DEF KeyInv, KeyInForceIsStored
    <2>1. ASSUME UNCHANGED keyVars,
                 \A q \in Requests :
                    req'[q] = req[q] \/ (req[q].at # "adopt" /\ req'[q].at # "adopt")
          PROVE  KeyInv'
      BY <2>1 DEF keyVars
    <2>2. CASE UNCHANGED vars
      BY <2>1, <2>2 DEF vars
    <2>3. ASSUME NEW r \in Requests, LoginStep(r) \/ SessionStep(r) \/ RequestFails(r)
          PROVE  KeyInv'
      <3>1. UNCHANGED keyVars
        BY <2>3 DEF LoginStep, BeginSetup, TakeLock, FirstUser, AlreadySetUp, SaveUser, Login,
                    PruneSessions, Issue, SessionStep, Resolve, ResolveOld, Extend, Answer,
                    Logout, RequestFails
      <3>2. \A q \in Requests :
               req'[q] = req[q] \/ (req[q].at # "adopt" /\ req'[q].at # "adopt")
        BY <2>3, Going
           DEF TypeOK, At, LoginStep, BeginSetup, TakeLock, FirstUser, AlreadySetUp, SaveUser,
               Login, PruneSessions, Issue, SessionStep, Resolve, ResolveOld, Extend, Answer,
               Logout, RequestFails
      <3>3. QED
        BY <2>1, <3>1, <3>2
    <2>4. ASSUME NEW r \in Requests, KeyStep(r) PROVE KeyInv'
      <3> req \in [Requests -> Doing]
        BY DEF TypeOK
      <3>1. CASE ReadKey(r) BY <3>1, Going DEF ReadKey, At, keyVars
      <3>2. CASE CreateIfAbsent(r)
        BY <3>2, Going, Shapes DEF CreateIfAbsent, At, TypeOK, NewKey
      <3>3. CASE Regenerate(r)
        <4>1. \A q \in Requests : req'[q] = IF q = r THEN Adoption(stored') ELSE req[q]
          BY <3>3, Going DEF Regenerate
        <4>2. ~ raced' => \A q \in Requests : req[q].at # "adopt"
          BY <3>3, ZenonT(30) DEF Regenerate
        <4>3. QED
          BY <4>1, <4>2
      <3>4. CASE Adopt(r) BY <3>4, Going DEF Adopt, At
      <3>5. QED
        BY <2>4, <3>1, <3>2, <3>3, <3>4 DEF KeyStep
    <2>5. CASE Boot
      BY <2>5, Shapes DEF Boot, NewKey, TypeOK
    <2>6. CASE Kill
      BY <2>6 DEF Kill
    <2>7. CASE Tick
      <3>1. \A q \in Requests :
               req'[q] = req[q] \/ (req[q].at # "adopt" /\ req'[q].at # "adopt")
        BY <2>7, Shapes DEF Tick, Renewing, TypeOK
      <3>2. QED
        BY <2>1, <2>7, <3>1 DEF Tick
    <2>8. QED
      BY <2>2, <2>3, <2>4, <2>5, <2>6, <2>7 DEF Next
  <1>3. KeyInv => KeyInForceIsStored
    BY DEF KeyInv
  <1>4. QED
    BY <1>1, <1>2, <1>3, TypeCorrect, PTL DEF Spec

=============================================================================
