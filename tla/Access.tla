------------------------------- MODULE Access -------------------------------
(***************************************************************************)
(* Accounts of the people IGRIS talks to: interlocutor_auth.py (enrolment  *)
(* tokens, credentials, sessions), auth_routes.py (the handlers that use   *)
(* them), identity_resolver.py (profiles and their trust) and the identity *)
(* part of the chat preflight.                                             *)
(*                                                                         *)
(* Every handler loads the files it needs, works on its copy and saves the *)
(* whole file; the handlers are coroutines without an await, so each is    *)
(* one step.  What can go wrong is the write: it may fail before it        *)
(* touches the file, or after it has truncated it.  A file that does not   *)
(* parse loads as empty, so a torn file has lost all its entries.          *)
(***************************************************************************)
EXTENDS Naturals

CONSTANTS
  Names,                      \* profile ids
  Reserved,                   \* _RESERVED_USERNAMES and BUILTIN_PROFILES among them
  Enrollments,                \* enrolment tokens, each handed out once
  Sessions,                   \* session tokens, each handed out once
  GivenTrust,                 \* trust levels the profile route is called with
  MAX_FAILED_LOGIN_ATTEMPTS

ASSUME AccessConstants == Names # {} /\ Reserved \subseteq Names /\ MAX_FAILED_LOGIN_ATTEMPTS \in Nat \ {0}

VARIABLES
  profiles,      \* interlocutor_profiles.json: name -> trust level, or none
  credentials,   \* credentials.json: name -> [failed, locked], or none
  enrollments,   \* enrollments.json: token -> [state, name]
  sessions,      \* sessions.json: token -> [state, name]
  elevated,      \* names given the trust level admin by the profile route
  accounts,      \* enrolment token -> accounts it has created
  torn           \* some write has been torn

accessVars == <<profiles, credentials, enrollments, sessions, elevated, accounts, torn>>

TrustLevels == {"untrusted", "limited", "trusted", "admin"}
NoProfile == "none"
NoCredential == [failed |-> 0, locked |-> FALSE, exists |-> FALSE]
NewCredential == [failed |-> 0, locked |-> FALSE, exists |-> TRUE]
Entry(s, n) == [state |-> s, name |-> n]

\* What write_text comes to: done, refused, or broken off after the truncation
\* (bound: one such write).
WriteOutcomes == {"ok", "failed"} \cup (IF torn THEN {} ELSE {"torn"})
Emptied(file) ==
  [k \in DOMAIN file |-> IF file[k].state = "unissued" THEN file[k] ELSE Entry("gone", file[k].name)]
SavedTokens(file, new, o) == CASE o = "ok" -> new [] o = "failed" -> file [] o = "torn" -> Emptied(file)
SavedCredentials(new, o) ==
  CASE o = "ok" -> new [] o = "failed" -> credentials [] o = "torn" -> [n \in Names |-> NoCredential]
SavedProfiles(new, o) ==
  CASE o = "ok" -> new [] o = "failed" -> profiles [] o = "torn" -> [n \in Names |-> NoProfile]
NoteTorn(os) == torn' = (torn \/ "torn" \in os)

\* IdentityResolver.resolve: the built-in profiles first.
Trust(n) ==
  IF n \in Reserved THEN "admin" ELSE IF profiles[n] = NoProfile THEN "untrusted" ELSE profiles[n]

AccessInit ==
  /\ profiles = [n \in Names |-> NoProfile]
  /\ credentials = [n \in Names |-> NoCredential]
  /\ enrollments = [t \in Enrollments |-> Entry("unissued", CHOOSE n \in Names : TRUE)]
  /\ sessions = [s \in Sessions |-> Entry("unissued", CHOOSE n \in Names : TRUE)]
  /\ elevated = {}
  /\ accounts = [t \in Enrollments |-> 0]
  /\ torn = FALSE

-----------------------------------------------------------------------------
(***************************************************************************)
(* POST /api/auth/enroll/start                                             *)
(***************************************************************************)
\* The name is free: not reserved, no profile, no credential, no enrolment of
\* the same name that is still open.
NameFree_AnyName(n) == \A t \in Enrollments : enrollments[t] # Entry("pending", n)
NameFree(n) ==
  /\ n \notin Reserved
  /\ profiles[n] = NoProfile
  /\ ~credentials[n].exists
  /\ \A t \in Enrollments : enrollments[t] # Entry("pending", n)

EnrollStart(n, t, o) ==
  /\ enrollments[t].state = "unissued" /\ NameFree(n)
  /\ enrollments' = SavedTokens(enrollments, [enrollments EXCEPT ![t] = Entry("pending", n)], o)
  /\ NoteTorn({o})
  /\ UNCHANGED <<profiles, credentials, sessions, elevated, accounts>>

(***************************************************************************)
(* POST /api/auth/enroll/complete: profile, credential, mark_used and      *)
(* session are four writes one after the other.  mark_used is best effort; *)
(* every other failure ends the handler.                                   *)
(***************************************************************************)
NewSession(s, n, o) == SavedTokens(sessions, [sessions EXCEPT ![s] = Entry("active", n)], o)

EnrollComplete(t, s, strong, op, oc, ou, os) ==
  LET n       == enrollments[t].name
      tried   == op = "ok" /\ ~credentials[n].exists /\ strong   \* create_credential gets to its save
      created == tried /\ oc = "ok"
  IN  /\ enrollments[t].state = "pending" /\ sessions[s].state = "unissued"
      /\ profiles' = SavedProfiles([profiles EXCEPT ![n] = "limited"], op)
      /\ credentials' = IF tried
                          THEN SavedCredentials([credentials EXCEPT ![n] = NewCredential], oc)
                          ELSE credentials
      /\ accounts' = IF created THEN [accounts EXCEPT ![t] = @ + 1] ELSE accounts
      /\ enrollments' = IF created
                          THEN SavedTokens(enrollments, [enrollments EXCEPT ![t].state = "used"], ou)
                          ELSE enrollments
      /\ sessions' = IF created THEN NewSession(s, n, os) ELSE sessions
      /\ NoteTorn({op} \cup (IF tried THEN {oc} ELSE {}) \cup (IF created THEN {ou, os} ELSE {}))
      /\ UNCHANGED elevated

(***************************************************************************)
(* POST /api/auth/login: the result of saving the counters is not looked   *)
(* at, a right password logs in whatever the disk says.                    *)
(***************************************************************************)
\* Mutant: locked one wrong password late.
Attempted_OneMore(c, right) ==
  IF right THEN [c EXCEPT !.failed = 0]
  ELSE [c EXCEPT !.failed = @ + 1, !.locked = c.failed + 1 > MAX_FAILED_LOGIN_ATTEMPTS]
Attempted(c, right) ==
  IF right THEN [c EXCEPT !.failed = 0]
  ELSE [c EXCEPT !.failed = @ + 1, !.locked = c.failed + 1 >= MAX_FAILED_LOGIN_ATTEMPTS]
Login(n, s, right, oc, os) ==
  /\ credentials[n].exists /\ ~credentials[n].locked /\ sessions[s].state = "unissued"
  /\ credentials' = SavedCredentials([credentials EXCEPT ![n] = Attempted(@, right)], oc)
  /\ sessions' = IF right THEN NewSession(s, n, os) ELSE sessions
  /\ NoteTorn({oc} \cup (IF right THEN {os} ELSE {}))
  /\ UNCHANGED <<profiles, enrollments, elevated, accounts>>

\* AuthCredentialStore.unlock.
Unlock(n, o) ==
  /\ credentials[n].exists
  /\ credentials' = SavedCredentials([credentials EXCEPT ![n] = NewCredential], o)
  /\ NoteTorn({o})
  /\ UNCHANGED <<profiles, enrollments, sessions, elevated, accounts>>

(***************************************************************************)
(* Sessions.  resolve_session serves every authenticated request: it finds *)
(* the token, refuses a revoked or an expired one, and moves the expiry    *)
(* (sliding window).  Being valid is all the model tells of the expiry.    *)
(***************************************************************************)
ResolveSession_NoExpiry(s, o) ==
  /\ sessions[s].state \in {"active", "expired"}
  /\ sessions' = SavedTokens(sessions, [sessions EXCEPT ![s].state = "active"], o)
  /\ NoteTorn({o})
  /\ UNCHANGED <<profiles, credentials, enrollments, elevated, accounts>>
ResolveSession(s, o) ==
  /\ sessions[s].state = "active"
  /\ sessions' = SavedTokens(sessions, sessions, o)
  /\ NoteTorn({o})
  /\ UNCHANGED <<profiles, credentials, enrollments, elevated, accounts>>

\* POST /api/auth/logout: revoke_session, also of an expired session.
Logout(s, o) ==
  /\ sessions[s].state \in {"active", "expired", "revoked"}
  /\ sessions' = SavedTokens(sessions, [sessions EXCEPT ![s].state = "revoked"], o)
  /\ NoteTorn({o})
  /\ UNCHANGED <<profiles, credentials, enrollments, elevated, accounts>>

\* revoke_all_for_profile.
RevokeAll(n, o) ==
  /\ \E s \in Sessions : sessions[s].name = n /\ sessions[s].state \in {"active", "expired"}
  /\ sessions' = SavedTokens(sessions,
       [s \in Sessions |-> IF sessions[s].name = n /\ sessions[s].state \in {"active", "expired"}
                             THEN Entry("revoked", n) ELSE sessions[s]], o)
  /\ NoteTorn({o})
  /\ UNCHANGED <<profiles, credentials, enrollments, elevated, accounts>>

\* gc_expired of sessions and of enrolments.
Collected(file, dead) ==
  [k \in DOMAIN file |-> IF file[k].state \in dead THEN Entry("gone", file[k].name) ELSE file[k]]
GcExpired(o) ==
  /\ \E s \in Sessions : sessions[s].state \in {"revoked", "expired"}
  /\ sessions' = SavedTokens(sessions, Collected(sessions, {"revoked", "expired"}), o)
  /\ NoteTorn({o})
  /\ UNCHANGED <<profiles, credentials, enrollments, elevated, accounts>>
GcEnrollments(o) ==
  /\ \E t \in Enrollments : enrollments[t].state \in {"used", "expired"}
  /\ enrollments' = SavedTokens(enrollments, Collected(enrollments, {"used", "expired"}), o)
  /\ NoteTorn({o})
  /\ UNCHANGED <<profiles, credentials, sessions, elevated, accounts>>

\* Time passes.
ExpireSession(s) ==
  /\ sessions[s].state = "active"
  /\ sessions' = [sessions EXCEPT ![s].state = "expired"]
  /\ UNCHANGED <<profiles, credentials, enrollments, elevated, accounts, torn>>
ExpireEnrollment(t) ==
  /\ enrollments[t].state = "pending"
  /\ enrollments' = [enrollments EXCEPT ![t].state = "expired"]
  /\ UNCHANGED <<profiles, credentials, sessions, elevated, accounts, torn>>

(***************************************************************************)
(* Profiles.                                                               *)
(***************************************************************************)
\* _normalize_trust: a level nobody knows counts as the lowest.
NormalizeTrust(value) == IF value \in TrustLevels THEN value ELSE "untrusted"

\* POST /identity/profiles: writes the profile it is given.
CreateProfile(n, trust, o) ==
  /\ profiles' = SavedProfiles([profiles EXCEPT ![n] = NormalizeTrust(trust)], o)
  /\ elevated' = IF trust = "admin" THEN elevated \cup {n} ELSE elevated
  /\ NoteTorn({o})
  /\ UNCHANGED <<credentials, enrollments, sessions, accounts>>

\* The identity a chat message is taken for: that of a valid session; nobody
\* known when the session is not valid; else the name claimed, a reserved one
\* only from this machine.
Unidentified == "unidentified"
Speaker(token, claimed, local) ==
  IF token \in Sessions
    THEN IF sessions[token].state = "active" THEN sessions[token].name ELSE Unidentified
    ELSE IF claimed \in Reserved /\ ~local THEN Unidentified ELSE claimed

\* run_preflight resolves the speaker and saves the profile it got, the one
\* made up for an unknown name included.
ChatPreflight(token, claimed, local, o) ==
  LET n == Speaker(token, claimed, local)
  IN  /\ n \in Names \ Reserved
      /\ profiles' = SavedProfiles([profiles EXCEPT ![n] = Trust(n)], o)
      /\ NoteTorn({o})
      /\ UNCHANGED <<credentials, enrollments, sessions, elevated, accounts>>

AccessNext ==
  \E o \in WriteOutcomes :
    \/ \E n \in Names, t \in Enrollments : EnrollStart(n, t, o)
    \/ \E t \in Enrollments, s \in Sessions, strong \in BOOLEAN, oc, ou, os \in WriteOutcomes :
         EnrollComplete(t, s, strong, o, oc, ou, os)
    \/ \E n \in Names, s \in Sessions, right \in BOOLEAN, os \in WriteOutcomes : Login(n, s, right, o, os)
    \/ \E n \in Names : Unlock(n, o) \/ RevokeAll(n, o)
    \/ \E s \in Sessions : ResolveSession(s, o) \/ Logout(s, o) \/ ExpireSession(s)
    \/ GcExpired(o) \/ GcEnrollments(o)
    \/ \E t \in Enrollments : ExpireEnrollment(t)
    \/ \E n \in Names, trust \in GivenTrust : CreateProfile(n, trust, o)
    \/ \E token \in Sessions \cup {"no token"}, n \in Names, local \in BOOLEAN : ChatPreflight(token, n, local, o)

AccessSpec == AccessInit /\ [][AccessNext]_accessVars

-----------------------------------------------------------------------------
\* Types of the four files.
AccessTypeOK ==
  /\ profiles \in [Names -> TrustLevels \cup {NoProfile}]
  /\ credentials \in [Names -> [failed : 0..MAX_FAILED_LOGIN_ATTEMPTS, locked : BOOLEAN, exists : BOOLEAN]]
  /\ enrollments \in [Enrollments -> [state : {"unissued", "pending", "used", "expired", "gone"}, name : Names]]
  /\ sessions \in [Sessions -> [state : {"unissued", "active", "revoked", "expired", "gone"}, name : Names]]
  /\ elevated \subseteq Names /\ torn \in BOOLEAN
  /\ DOMAIN accounts = Enrollments

\* A token handed out that is no longer valid (revoked, expired, collected or
\* lost with its file) is never valid again, although every request rewrites
\* the whole file and moves the expiry (resolve_session).
TokensStayDead ==
  [][\A s \in Sessions :
       sessions[s].state \in {"revoked", "expired", "gone"} => sessions'[s].state # "active"]_accessVars

\* Nobody comes to write permission by enrolling, logging in and chatting, in
\* whatever order and with whatever writes failing: a session speaks for an
\* admin only if the profile route made that name one ("no auth escalation").
NoEscalation ==
  \A s \in Sessions : sessions[s].state = "active" /\ Trust(sessions[s].name) = "admin"
                        => sessions[s].name \in elevated

\* An enrolment token makes one account, also when marking it used fails
\* ("Tokens expire ... and are single-use").
TokenMakesOneAccount == ~torn => \A t \in Enrollments : accounts[t] <= 1

\* A valid session belongs to somebody with a credential: the four writes of
\* an enrolment are in an order in which no prefix leaves a session behind.
SessionHasCredential ==
  ~torn => \A s \in Sessions : sessions[s].state = "active" => credentials[sessions[s].name].exists

\* What an account stands for, whatever writes fail: its trust was given by the
\* profile route, its token made no other, and its sessions have a credential.
AccountsSafe == NoEscalation /\ TokenMakesOneAccount /\ SessionHasCredential
=============================================================================
