------------------------------ MODULE AdminAccess ------------------------------
(***************************************************************************)
(* The isolated administrator session of the dashboard: password, second   *)
(* factor and authorized device, the session rows that carry the stage,    *)
(* the login events that revoke them, recovery codes, devices and WebAuthn *)
(* challenges (views/auth.py, views/admin_security.py, admin_security.py,  *)
(* auth_middleware.py, webauthn_services.py).                              *)
(*                                                                         *)
(* One administrator, several browsers.  A request loads the whole session *)
(* once, when it starts, works on its copy while other requests run, and   *)
(* writes the whole copy back when it ends, if it changed anything; its    *)
(* answer always sets the browser's cookie.  Every database statement or   *)
(* transaction whose order against other requests matters is a step.       *)
(***************************************************************************)
EXTENDS Naturals, FiniteSets

CONSTANTS Browsers,      \* browsers the administrator uses
          Requests,      \* requests that can be in flight together
          Devices,       \* authenticators that can be registered
          Codes,         \* recovery codes that can be generated
          Challenges,    \* identities of WebAuthn challenges
          MaxKeys,       \* session keys the model hands out
          MaxEvents,     \* login events the model records
          MaxDevices     \* ADMIN_MAX_DEVICES, 1 if it is less

ASSUME AccessBounds == MaxKeys \in Nat /\ MaxEvents \in Nat /\ MaxDevices \in Nat \ {0}

NoKey == 0
Keys == 1..MaxKeys
NoDevice == "no device"
NoChallenge == "no challenge"

Layers == {"password", "second", "device"}
Stages == {"none", "primary", "2fa", "device", "complete"}

\* What the session says of the administrator: who, how far, and
\* whether the sign-in is younger than ADMIN_SESSION_MAX_AGE_SECONDS.
Data == [user: BOOLEAN, final: BOOLEAN, stage: Stages,
         dev: Devices \cup {NoDevice}, fresh: BOOLEAN]

Anonymous == [user |-> FALSE, final |-> FALSE, stage |-> "none",
           dev |-> NoDevice, fresh |-> FALSE]

Ops == {"page", "login", "second", "recovery", "setup", "regenerate",
        "verify", "register", "revoke"}

Places == {"idle", "code", "codes", "tx", "find", "record", "sessions", "answer"}

Request == [pc: Places, op: Ops, by: Browsers, key: Keys \cup {NoKey}, data: Data,
            arg: Codes \cup Challenges \cup Devices \cup {NoChallenge},
            dirty: BOOLEAN]

\* A challenge that can still be used, or the mark of one that cannot: unborn,
\* used, expired and deleted challenges are refused alike.
Closed == [kind |-> "closed", key |-> NoKey]
Challenge == {Closed} \cup [kind: {"authentication", "registration"}, key: Keys]

Event == [key: Keys \cup {NoKey}, dev: Devices \cup {NoDevice}, open: BOOLEAN]

VARIABLES rows,        \* keys of the session rows that exist
          sess,        \* the data of each row
          made,        \* session keys handed out so far
          cookie,      \* the key each browser sends
          req,         \* the requests in flight
          totp,        \* a confirmed authenticator app exists
          codes,       \* recovery codes that are neither used nor revoked
          device,      \* authorized devices
          challenge,   \* WebAuthn challenges
          event,       \* LoginEvent rows of successful logins
          events,      \* how many there are
          earned,      \* history: layers passed under each key
          misused      \* history: a code was accepted after its use or revocation

accessVars == <<rows, sess, made, cookie, req, totp, codes, device,
                challenge, event, events, earned, misused>>

sessions == <<rows, sess, made, cookie>>
factors == <<totp, codes, misused>>
ceremony == <<device, challenge>>
log == <<event, events>>

AccessTypeOK ==
  /\ made \in 0..MaxKeys /\ rows \subseteq 1..made
  /\ sess \in [Keys -> Data]
  /\ cookie \in [Browsers -> 0..made]
  /\ req \in [Requests -> Request] /\ \A r \in Requests : req[r].key \in 0..made
  /\ totp \in BOOLEAN
  /\ codes \subseteq Codes
  /\ device \in [Devices -> {"none", "active", "revoked"}]
  /\ challenge \in [Challenges -> Challenge]
  /\ \A c \in Challenges :
       challenge[c] # Closed => /\ challenge[c].key \in 1..made
                                /\ {"password", "second"} \subseteq earned[challenge[c].key]
  /\ event \in [1..MaxEvents -> Event] /\ events \in 0..MaxEvents
  /\ earned \in [Keys -> SUBSET Layers]
  /\ misused \in BOOLEAN

Idle(b) == [pc |-> "idle", op |-> "page", by |-> b, key |-> NoKey, data |-> Anonymous,
            arg |-> NoChallenge, dirty |-> FALSE]

\* An administrator who has never enrolled, or one with both factors.
AccessInit ==
  /\ rows = {} /\ made = 0
  /\ sess = [k \in Keys |-> Anonymous]
  /\ cookie = [b \in Browsers |-> NoKey]
  /\ \E b \in Browsers : req = [r \in Requests |-> Idle(b)]
  /\ totp \in BOOLEAN
  /\ \E c \in Codes, d \in Devices :
       /\ codes = IF totp THEN {c} ELSE {}
       /\ device = [x \in Devices |-> IF totp /\ x = d THEN "active" ELSE "none"]
  /\ challenge = [c \in Challenges |-> Closed]
  /\ event = [e \in 1..MaxEvents |-> [key |-> NoKey, dev |-> NoDevice, open |-> FALSE]]
  /\ events = 0
  /\ earned = [k \in Keys |-> {}]
  /\ misused = FALSE

-----------------------------------------------------------------------------
(* What a request reads.                                                   *)

\* The cookie's row; a key without a row is dropped and the session is empty.
KeyOf(b) == IF cookie[b] \in rows THEN cookie[b] ELSE NoKey
DataOf(b) == IF cookie[b] \in rows THEN sess[cookie[b]] ELSE Anonymous

ActiveDevices == {d \in Devices : device[d] = "active"}

\* admin_session_is_valid, for a session with key k and data x.
IsValid(k, x) ==
  /\ x.final /\ x.stage = "complete" /\ x.user
  /\ totp
  /\ x.fresh
  /\ x.dev \in ActiveDevices
  /\ \E e \in 1..events : event[e].open /\ event[e].key = k /\ event[e].dev = x.dev

Valid(k) == k \in rows /\ IsValid(k, sess[k])

\* request.user, as the isolated authentication middleware sets it.
SignedIn(x) == x.user /\ x.final /\ x.stage = "complete"

\* The slip that forgets the stage.
Somebody(x) == x.user

TwoFactorDone(x) == x.user /\ x.stage \in {"2fa", "device"}

-----------------------------------------------------------------------------
(* Parts of the handlers.                                                  *)

Goes(r, b, pc, op, k, x, arg, dirty) ==
  req' = [req EXCEPT ![r] = [pc |-> pc, op |-> op, by |-> b, key |-> k, data |-> x,
                             arg |-> arg, dirty |-> dirty]]

\* The answer is ready: nothing of the session changed (the copy is dropped; an
\* empty one counts as no session), or its copy x did.
Answers(r, b, k, x) ==
  Goes(r, b, "answer", "page", IF x = Anonymous THEN NoKey ELSE k, Anonymous, NoChallenge, FALSE)
Saves(r, b, k, x) == Goes(r, b, "answer", "page", k, x, NoChallenge, TRUE)

\* set_pending_primary: a new row, the old one deleted, the stage is primary.
Primary == [Anonymous EXCEPT !.user = TRUE, !.stage = "primary"]

PendingPrimary(r, b, k) ==
  /\ made < MaxKeys
  /\ made' = made + 1
  /\ rows' = (rows \ {k}) \cup {made + 1}
  /\ sess' = [x \in Keys |-> IF x \in {k, made + 1} THEN Anonymous ELSE sess[x]]
  /\ earned' = [earned EXCEPT ![made + 1] = {"password"}]
  /\ Saves(r, b, made + 1, Primary)

\* The row is deleted at once; the answer takes the cookie away.
Flush(r, b, k) ==
  /\ rows' = rows \ {k}
  /\ sess' = [x \in Keys |-> IF x = k THEN Anonymous ELSE sess[x]]
  /\ Answers(r, b, NoKey, Anonymous)
  /\ UNCHANGED <<made, cookie>>

Close(S) == event' = [e \in 1..MaxEvents |->
  IF e \in S THEN [event[e] EXCEPT !.open = FALSE] ELSE event[e]]

OfKey(k) == {e \in 1..events : event[e].key = k}

Passes(k, layer) == earned' =
  [earned EXCEPT ![k] = @ \cup {layer}]

\* create_challenge: a challenge of this session, under an identity of its own.
Opens(kind, k) ==
  \E new \in {c \in Challenges : challenge[c] = Closed /\ \A r \in Requests : req[r].arg # c} :
    challenge' = [challenge EXCEPT ![new] = [kind |-> kind, key |-> k]]

\* The challenge a ceremony may use, and its use.
Matches(c, kind, k) == challenge[c] = [kind |-> kind, key |-> k]

Uses(c) == challenge' = [challenge EXCEPT ![c] = Closed]

\* finalize_admin_session, on the request's copy.
Complete(x, d) == [x EXCEPT !.user = TRUE, !.final = TRUE, !.stage = "complete",
                            !.fresh = TRUE, !.dev = d]

-----------------------------------------------------------------------------
(* Layer 1 and pages.                                                      *)

\* A request that changes nothing: a page, a refused or a redirected one.
Page(r, b) ==
  /\ req[r].pc = "idle"
  /\ Answers(r, b, KeyOf(b), DataOf(b))
  /\ UNCHANGED <<sessions, factors, ceremony, log, earned>>

\* paxalia_login with the right password.  A session that names a user is
\* sent to begin_admin_verification instead, before the form is looked at.
Login(r, b) ==
  /\ req[r].pc = "idle"
  /\ IF DataOf(b).user
     THEN /\ Answers(r, b, KeyOf(b), DataOf(b))
          /\ UNCHANGED <<sessions, earned>>
     ELSE PendingPrimary(r, b, KeyOf(b)) /\ UNCHANGED cookie
  /\ UNCHANGED <<factors, ceremony, log>>

\* The end of a request: the copy is saved if it changed (an error if its row
\* is gone: the answer is then a server error that sets no cookie), and the
\* answer sets the cookie to this request's key, or deletes it.
Answer(r) ==
  LET q == req[r]
      gone == q.dirty /\ q.key \notin rows
  IN /\ q.pc = "answer"
     /\ sess' = IF q.dirty /\ q.key \in rows THEN [sess EXCEPT ![q.key] = q.data] ELSE sess
     /\ cookie' = IF gone THEN cookie
                  ELSE [cookie EXCEPT ![q.by] = IF q.dirty /\ q.data = Anonymous THEN NoKey
                                                ELSE q.key]
     /\ req' = [req EXCEPT ![r] = Idle(q.by)]
     /\ UNCHANGED <<rows, made, factors, ceremony, log, earned>>

-----------------------------------------------------------------------------
(* Layer 2.                                                                *)

\* paxalia_2fa_verify with a code of the authenticator app.
SecondFactor(r, b) ==
  /\ req[r].pc = "idle" /\ DataOf(b).user /\ totp
  /\ Passes(KeyOf(b), "second")
  /\ Saves(r, b, KeyOf(b), [DataOf(b) EXCEPT !.stage = "device"])
  /\ UNCHANGED <<sessions, factors, ceremony, log>>

\* paxalia_2fa_verify with a recovery code: _check_recovery_code finds it ...
RecoveryFind(r, b, c) ==
  /\ req[r].pc = "idle" /\ DataOf(b).user /\ totp
  /\ c \in codes
  /\ Goes(r, b, "code", "recovery", KeyOf(b), DataOf(b), c, FALSE)
  /\ UNCHANGED <<sessions, factors, ceremony, log, earned>>

\* The slip of trusting the first look.
UsableOnce(c) == TRUE

\* ... and the locked row is read again before it is used.
Usable(c) == c \in codes

RecoveryUse(r) ==
  LET q == req[r] IN
  /\ q.pc = "code"
  /\ IF Usable(q.arg)
     THEN /\ codes' = codes \ {q.arg}
          /\ misused' = (misused \/ q.arg \notin codes)
          /\ Passes(q.key, "second")
          /\ Saves(r, q.by, q.key, [q.data EXCEPT !.stage = "device"])
     ELSE /\ Answers(r, q.by, q.key, q.data)
          /\ UNCHANGED <<codes, misused, earned>>
  /\ UNCHANGED <<sessions, totp, ceremony, log>>

\* paxalia_2fa_setup: the app is confirmed, the older recovery codes revoked.
Setup(r, b) ==
  /\ req[r].pc = "idle" /\ DataOf(b).user /\ ~totp
  /\ totp' = TRUE
  /\ codes' = {}
  /\ Passes(KeyOf(b), "second")
  /\ Goes(r, b, "codes", "setup", KeyOf(b), DataOf(b), NoChallenge, FALSE)
  /\ UNCHANGED <<sessions, ceremony, log, misused>>

\* paxalia_recovery_regenerate: the same revocation, by a valid session.
Regenerate(r, b) ==
  /\ req[r].pc = "idle" /\ IsValid(KeyOf(b), DataOf(b))
  /\ codes' = {}
  /\ Goes(r, b, "codes", "regenerate", KeyOf(b), DataOf(b), NoChallenge, FALSE)
  /\ UNCHANGED <<sessions, totp, ceremony, log, earned, misused>>

\* _generate_recovery_codes inserts the new codes (here one, random: never one
\* that somebody still types) in a statement of its own.
NewCodes(r) ==
  LET q == req[r] IN
  /\ q.pc = "codes"
  /\ \E c \in Codes \ codes :
       (\A x \in Requests : req[x].arg # c) /\ codes' = codes \cup {c}
  /\ IF q.op = "setup" THEN Saves(r, q.by, q.key, [q.data EXCEPT !.stage = "2fa"])
                       ELSE Answers(r, q.by, q.key, q.data)
  /\ UNCHANGED <<sessions, totp, misused, ceremony, log, earned>>

\* paxalia_2fa_reset: both factors' data go, and the session starts over.
Reset(r, b) ==
  /\ req[r].pc = "idle" /\ IsValid(KeyOf(b), DataOf(b))
  /\ totp' = FALSE
  /\ codes' = {}
  /\ PendingPrimary(r, b, KeyOf(b))
  /\ UNCHANGED <<cookie, ceremony, log, misused>>

-----------------------------------------------------------------------------
(* Layer 3.                                                                *)

\* paxalia_device_login_options.
VerifyOptions(r, b) ==
  /\ req[r].pc = "idle" /\ TwoFactorDone(DataOf(b)) /\ ActiveDevices # {}
  /\ Opens("authentication", KeyOf(b))
  /\ Answers(r, b, KeyOf(b), DataOf(b))
  /\ UNCHANGED <<sessions, factors, device, log, earned>>

\* paxalia_device_register (POST): the device's name is put in the session.
MayRegister(b) ==
  \/ TwoFactorDone(DataOf(b)) /\ Cardinality(ActiveDevices) < MaxDevices
  \/ IsValid(KeyOf(b), DataOf(b))

RegisterOptions(r, b) ==
  /\ req[r].pc = "idle" /\ MayRegister(b)
  /\ Opens("registration", KeyOf(b))
  /\ Saves(r, b, KeyOf(b), DataOf(b))
  /\ UNCHANGED <<sessions, factors, device, log, earned>>

\* The two verifying handlers: what they check before their transaction.
Admitted(b, op) ==
  IF op = "verify" THEN TwoFactorDone(DataOf(b))
  ELSE DataOf(b).user /\ (DataOf(b).final \/ TwoFactorDone(DataOf(b)))

Ceremony(r, b, c, op) ==
  /\ req[r].pc = "idle" /\ challenge[c] # Closed
  /\ Admitted(b, op)
  /\ Goes(r, b, "tx", op, KeyOf(b), DataOf(b), c, FALSE)
  /\ UNCHANGED <<sessions, factors, ceremony, log, earned>>

\* paxalia_device_login_verify's transaction: challenge and device are locked.
VerifyTx(r, d) ==
  LET q == req[r] IN
  /\ q.pc = "tx" /\ q.op = "verify"
  /\ Matches(q.arg, "authentication", q.key) /\ device[d] = "active"
  /\ Uses(q.arg)
  /\ Passes(q.key, "device")
  /\ Goes(r, q.by, "find", "verify", q.key, Complete(q.data, d), NoChallenge, FALSE)
  /\ UNCHANGED <<sessions, factors, device, log>>

\* The slip of counting without the lock: what another registration that is still
\* being worked on has added is not seen.
MayAddUnlocked ==
  Cardinality({d \in ActiveDevices : \A r \in Requests :
    ~(req[r].op = "register" /\ req[r].pc \in {"find", "record"} /\ req[r].data.dev = d)})
  < MaxDevices

\* paxalia_device_register_verify's: the administrator's row is locked, so
\* registrations follow each other and each counts the devices of the others.
MayAdd == Cardinality(ActiveDevices) < MaxDevices

RegisterTx(r, d) ==
  LET q == req[r] IN
  /\ q.pc = "tx" /\ q.op = "register"
  /\ Matches(q.arg, "registration", q.key) /\ device[d] = "none" /\ MayAdd
  /\ Uses(q.arg)
  /\ device' = [device EXCEPT ![d] = "active"]
  /\ Passes(q.key, "device")
  /\ IF q.data.final THEN Answers(r, q.by, q.key, q.data)
     ELSE Goes(r, q.by, "find", "register", q.key, Complete(q.data, d), NoChallenge, FALSE)
  /\ UNCHANGED <<sessions, factors, log>>

\* Either transaction fails: nothing is kept, the session is not touched.
TxFails(r) ==
  LET q == req[r] IN
  /\ q.pc = "tx"
  /\ Answers(r, q.by, q.key, q.data)
  /\ UNCHANGED <<sessions, factors, ceremony, log, earned>>

\* _record_isolated_admin_login: an open event of this session is kept ...
FindEvent(r) ==
  LET q == req[r] IN
  /\ q.pc = "find"
  /\ IF \E e \in 1..events : event[e] = [key |-> q.key, dev |-> q.data.dev, open |-> TRUE]
     THEN Saves(r, q.by, q.key, q.data)
     ELSE Goes(r, q.by, "record", q.op, q.key, q.data, q.arg, FALSE)
  /\ UNCHANGED <<sessions, factors, ceremony, log, earned>>

\* ... and otherwise one is inserted, by a statement of its own.
RecordEvent(r) ==
  LET q == req[r] IN
  /\ q.pc = "record" /\ events < MaxEvents
  /\ events' = events + 1
  /\ event' = [event EXCEPT ![events + 1] =
                 [key |-> q.key, dev |-> q.data.dev, open |-> TRUE]]
  /\ Saves(r, q.by, q.key, q.data)
  /\ UNCHANGED <<sessions, factors, ceremony, earned>>

-----------------------------------------------------------------------------
(* Leaving and revoking.                                                   *)

\* paxalia_logout: the events of this session are closed, its row deleted.
Logout(r, b) ==
  /\ req[r].pc = "idle" /\ KeyOf(b) # NoKey
  /\ Close(IF SignedIn(DataOf(b)) THEN OfKey(KeyOf(b)) ELSE {})
  /\ Flush(r, b, KeyOf(b))
  /\ UNCHANGED <<factors, ceremony, events, earned>>

\* password_change by a signed-in administrator.
PasswordChange(r, b) ==
  /\ req[r].pc = "idle" /\ SignedIn(DataOf(b))
  /\ IF IsValid(KeyOf(b), DataOf(b))
     THEN /\ Close(OfKey(KeyOf(b)))
          /\ Saves(r, b, KeyOf(b), Anonymous)
     ELSE UNCHANGED event /\ Answers(r, b, KeyOf(b), DataOf(b))
  /\ UNCHANGED <<sessions, factors, ceremony, events, earned>>

\* admin_device_revoke: the device first, then the events of its sessions.
DeviceRevoke(r, b, d) ==
  /\ req[r].pc = "idle" /\ IsValid(KeyOf(b), DataOf(b)) /\ device[d] = "active"
  /\ device' = [device EXCEPT ![d] = "revoked"]
  /\ Goes(r, b, "sessions", "revoke", KeyOf(b), DataOf(b), d, FALSE)
  /\ UNCHANGED <<sessions, factors, challenge, log, earned>>

DeviceSessions(r) ==
  LET q == req[r] IN
  /\ q.pc = "sessions"
  /\ Close({e \in 1..events : event[e].dev = q.arg})
  /\ IF q.data.dev = q.arg THEN Flush(r, q.by, q.key)
     ELSE Answers(r, q.by, q.key, q.data) /\ UNCHANGED sessions
  /\ UNCHANGED <<factors, ceremony, events, earned>>

\* admin_session_revoke of one event, which may be the session's own.
SessionRevoke(r, b, e) ==
  /\ req[r].pc = "idle" /\ IsValid(KeyOf(b), DataOf(b)) /\ e <= events
  /\ event' = [event EXCEPT ![e].open = FALSE]
  /\ IF event[e].key = KeyOf(b) THEN Flush(r, b, KeyOf(b))
     ELSE Answers(r, b, KeyOf(b), DataOf(b)) /\ UNCHANGED sessions
  /\ UNCHANGED <<factors, ceremony, events, earned>>

\* admin_sessions_revoke_others and admin_sessions_revoke_all.
RevokeOthers(r, b) ==
  /\ req[r].pc = "idle" /\ IsValid(KeyOf(b), DataOf(b))
  /\ Close((1..events) \ OfKey(KeyOf(b)))
  /\ Answers(r, b, KeyOf(b), DataOf(b))
  /\ UNCHANGED <<sessions, factors, ceremony, events, earned>>

RevokeAll(r, b) ==
  /\ req[r].pc = "idle" /\ IsValid(KeyOf(b), DataOf(b))
  /\ Close(1..events)
  /\ Flush(r, b, KeyOf(b))
  /\ UNCHANGED <<factors, ceremony, events, earned>>

-----------------------------------------------------------------------------
(* Time.                                                                   *)

Older(x) == [x EXCEPT !.fresh = FALSE]

\* ADMIN_SESSION_MAX_AGE_SECONDS pass: every completed sign-in is too old.
AgePasses ==
  /\ sess' = [k \in Keys |-> Older(sess[k])]
  /\ req' = [r \in Requests |-> [req[r] EXCEPT !.data = Older(@)]]
  /\ UNCHANGED <<rows, made, cookie, factors, ceremony, log, earned>>

\* WEBAUTHN_CHALLENGE_TTL_SECONDS pass.
ChallengesExpire ==
  /\ challenge' = [c \in Challenges |-> Closed]
  /\ UNCHANGED <<sessions, req, factors, device, log, earned>>

-----------------------------------------------------------------------------
SignInStep(r) ==
  \/ \E b \in Browsers : Page(r, b) \/ Login(r, b) \/ SecondFactor(r, b) \/ Setup(r, b)
  \/ \E b \in Browsers, c \in Codes : RecoveryFind(r, b, c)
  \/ \E b \in Browsers : VerifyOptions(r, b) \/ RegisterOptions(r, b)
  \/ \E b \in Browsers, c \in Challenges, op \in {"verify", "register"} :
       Ceremony(r, b, c, op)
  \/ \E d \in Devices : VerifyTx(r, d) \/ RegisterTx(r, d)
  \/ RecoveryUse(r) \/ NewCodes(r) \/ TxFails(r) \/ FindEvent(r) \/ RecordEvent(r)

ManageStep(r) ==
  \/ \E b \in Browsers :
       \/ Regenerate(r, b) \/ Reset(r, b) \/ Logout(r, b) \/ PasswordChange(r, b)
       \/ RevokeOthers(r, b) \/ RevokeAll(r, b)
  \/ \E b \in Browsers, d \in Devices : DeviceRevoke(r, b, d)
  \/ \E b \in Browsers, e \in 1..MaxEvents : SessionRevoke(r, b, e)
  \/ DeviceSessions(r)

AccessNext ==
  \/ \E r \in Requests : SignInStep(r) \/ ManageStep(r) \/ Answer(r)
  \/ AgePasses \/ ChallengesExpire

AccessSpec == AccessInit /\ [][AccessNext]_accessVars

\* A request that is being worked on comes to its end, and the administrator keeps
\* opening the sign-in page.
Progress(r) ==
  \/ RecoveryUse(r) \/ NewCodes(r) \/ TxFails(r) \/ FindEvent(r) \/ RecordEvent(r)
  \/ DeviceSessions(r) \/ Answer(r)

AccessFairness ==
  /\ \A r \in Requests : WF_accessVars(Progress(r))
  /\ \A b \in Browsers : SF_accessVars(\E r \in Requests : Login(r, b))

AccessLive == AccessSpec /\ AccessFairness

-----------------------------------------------------------------------------
(* Properties.                                                             *)

\* A session the gate accepts has passed all three layers under its own key:
\* no order of requests that share a session, whose stale copies overwrite each
\* other, and no reset or registration in another tab replaces a layer.
ValidIsEarned == \A k \in Keys : Valid(k) => earned[k] = Layers

\* A recovery code opens one sign-in at most, and none once it was replaced,
\* also when two requests present it together or while codes are regenerated.
CodesOnce == ~misused

\* Registrations that are open side by side, begun while there was still room for
\* each of them, together never exceed ADMIN_MAX_DEVICES.
DevicesCapped == Cardinality(ActiveDevices) <= MaxDevices

\* The browser still carries a completed sign-in that the gate refuses: it was
\* revoked elsewhere, its device or second factor is gone, or it is too old.
Refused(b) == SignedIn(DataOf(b)) /\ ~IsValid(KeyOf(b), DataOf(b))

\* "Your privileged Paxalia Dashboard session is no longer trusted. Sign in again
\* to complete all security layers": whoever keeps opening the sign-in page gets
\* past the refused session.
SignInAgain == \A b \in Browsers : Refused(b) ~> ~Refused(b)

=============================================================================
