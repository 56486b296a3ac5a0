---------------------------- MODULE AccessProofs ----------------------------
(***************************************************************************)
(* Proofs about Access, for any names, tokens and trust levels, with every *)
(* write of every handler done, refused or torn.                           *)
(***************************************************************************)
EXTENDS Access, TLAPS

AreCredentials(f) == DOMAIN f = Names /\ \A n \in Names : DOMAIN f[n] = {"failed", "locked", "exists"}
TokenStates == {"unissued", "pending", "used", "active", "revoked", "expired", "gone"}
Tokens == [state : TokenStates, name : Names]
Outcomes == {"ok", "failed", "torn"}

\* The types that the proofs need.
AccessTypes ==
  /\ DOMAIN profiles = Names
  /\ AreCredentials(credentials)
  /\ enrollments \in [Enrollments -> Tokens]
  /\ sessions \in [Sessions -> Tokens]
  /\ accounts \in [Enrollments -> Nat]
  /\ torn \in BOOLEAN

\* A write leaves the old file, the new one, or a file without entries.
LEMMA SavedFacts ==
  /\ \A file, new : \A o \in Outcomes : SavedTokens(file, new, o) \in {file, new, Emptied(file)}
  /\ \A new : \A o \in Outcomes : SavedCredentials(new, o) \in {credentials, new, [n \in Names |-> NoCredential]}
  /\ \A new : \A o \in Outcomes : SavedProfiles(new, o) \in {profiles, new, [n \in Names |-> NoProfile]}
  /\ WriteOutcomes \subseteq Outcomes
BY DEF SavedTokens, SavedCredentials, SavedProfiles, WriteOutcomes, Outcomes

\* What a save may do to a file of tokens: every token is as before, as in the
\* new file, or gone with its name.
LEMMA SavedToken ==
  ASSUME NEW S, NEW file \in [S -> Tokens], NEW new \in [S -> Tokens], NEW o \in Outcomes
  PROVE  /\ SavedTokens(file, new, o) \in [S -> Tokens]
         /\ \A k \in S : \/ SavedTokens(file, new, o)[k] \in {file[k], new[k]}
                         \/ /\ file[k].state # "unissued"
                            /\ SavedTokens(file, new, o)[k] = [state |-> "gone", name |-> file[k].name]
<1>1. /\ Emptied(file) \in [S -> Tokens]
      /\ \A k \in S : \/ Emptied(file)[k] = file[k]
                      \/ file[k].state # "unissued" /\ Emptied(file)[k] = [state |-> "gone", name |-> file[k].name]
  BY DEF Emptied, Entry, Tokens, TokenStates
<1> QED
  BY <1>1, SavedFacts

-----------------------------------------------------------------------------
(* The inductive invariant.                                                *)

\* Nobody enrols, has a password or a session under a reserved name, and a
\* profile with the trust of an admin was given it by the profile route.
Unreserved ==
  /\ \A t \in Enrollments : enrollments[t].state # "unissued" => enrollments[t].name \notin Reserved
  /\ \A n \in Names : credentials[n].exists => n \notin Reserved
  /\ \A s \in Sessions : sessions[s].state # "unissued" => sessions[s].name \notin Reserved
  /\ \A n \in Names \ Reserved : profiles[n] = "admin" => n \in elevated

\* A token that has made an account was issued, and the account keeps its
\* password file entry as long as no write is torn.
OneAccount ==
  /\ \A t \in Enrollments : accounts[t] # 0 => enrollments[t].state # "unissued"
  /\ ~torn => \A t \in Enrollments : accounts[t] <= 1 /\ (accounts[t] # 0 => credentials[enrollments[t].name].exists)

AccountInv == AccessTypes /\ Unreserved /\ OneAccount /\ SessionHasCredential

\* The files are empty at the start.
LEMMA AccountInvInit == AccessInit => AccountInv
<1> SUFFICES ASSUME AccessInit PROVE AccountInv
  OBVIOUS
<1> DEFINE n0 == CHOOSE n \in Names : TRUE
<1>1. n0 \in Names
  BY AccessConstants
<1> HIDE DEF n0
<1>2. [state |-> "unissued", name |-> n0] \in Tokens
  BY <1>1 DEF Tokens, TokenStates
<1>3. enrollments \in [Enrollments -> Tokens] /\ sessions \in [Sessions -> Tokens]
  BY <1>2 DEF AccessInit, Entry, n0
<1>4. AreCredentials(credentials) /\ torn \in BOOLEAN
  BY DEF AccessInit, NoCredential, AreCredentials
<1>5. AccessTypes
  BY <1>3, <1>4 DEF AccessInit, AccessTypes
<1>6. /\ \A t \in Enrollments : enrollments[t].state = "unissued" /\ accounts[t] = 0
      /\ \A s \in Sessions : sessions[s].state = "unissued"
      /\ \A n \in Names : ~credentials[n].exists /\ profiles[n] # "admin"
  BY DEF AccessInit, Entry, NoCredential, NoProfile
<1> QED
  BY <1>5, <1>6 DEF AccountInv, Unreserved, OneAccount, SessionHasCredential

\* A step that touches the sessions only, makes none valid or renames one, and
\* does not mend torn files.
LEMMA SessionsOnly ==
  ASSUME AccountInv, UNCHANGED <<profiles, credentials, enrollments, elevated, accounts>>,
         torn' \in BOOLEAN, torn => torn', sessions' \in [Sessions -> Tokens],
         \A s \in Sessions : /\ sessions'[s].state = "active" => sessions[s].state = "active"
                             /\ sessions'[s].state # "unissued" => sessions[s].state # "unissued"
                             /\ sessions'[s].name = sessions[s].name
  PROVE  AccountInv'
BY DEF AccountInv, AccessTypes, Unreserved, OneAccount, SessionHasCredential

\* NoteTorn remembers.
LEMMA TornFacts ==
  ASSUME AccountInv, NEW os, NoteTorn(os) PROVE torn' \in BOOLEAN /\ (torn => torn') /\ (~torn' => "torn" \notin os)
BY Zenon DEF NoteTorn, AccountInv, AccessTypes

\* The requests on sessions.
LEMMA SessionStep ==
  ASSUME AccountInv, NEW o \in Outcomes,
         \/ \E s \in Sessions : ResolveSession(s, o) \/ Logout(s, o)
         \/ \E n \in Names : RevokeAll(n, o)
         \/ GcExpired(o)
  PROVE  /\ AccountInv'
         /\ \A s \in Sessions : sessions'[s].state = "active" => sessions[s].state = "active"
<1> USE DEF AccountInv, AccessTypes
<1> DEFINE Good(new) ==
      \A s \in Sessions : /\ new[s].state = "active" => sessions[s].state = "active"
                          /\ new[s].state # "unissued" => sessions[s].state # "unissued"
                          /\ new[s].name = sessions[s].name
           Saved == \E new \in [Sessions -> Tokens] : sessions' = SavedTokens(sessions, new, o) /\ Good(new)
<1>1. UNCHANGED <<profiles, credentials, enrollments, elevated, accounts>> /\ NoteTorn({o}) /\ Saved
  <2>1. ASSUME NEW s \in Sessions, ResolveSession(s, o) PROVE Saved
    BY <2>1 DEF ResolveSession
  <2>2. ASSUME NEW s \in Sessions, Logout(s, o) PROVE Saved
    <3>1. [sessions EXCEPT ![s].state = "revoked"] \in [Sessions -> Tokens]
      BY DEF Tokens, TokenStates
    <3> QED
      BY <2>2, <3>1 DEF Logout, Tokens
  <2>3. ASSUME NEW n \in Names, RevokeAll(n, o) PROVE Saved
    <3> DEFINE new == [s \in Sessions |-> IF sessions[s].name = n /\ sessions[s].state \in {"active", "expired"}
                                            THEN Entry("revoked", n) ELSE sessions[s]]
    <3>1. new \in [Sessions -> Tokens]
      BY DEF Tokens, TokenStates, Entry
    <3> QED
      BY <2>3, <3>1 DEF RevokeAll, Entry
  <2>4. CASE GcExpired(o)
    <3>1. Collected(sessions, {"revoked", "expired"}) \in [Sessions -> Tokens]
      BY DEF Tokens, TokenStates, Entry, Collected
    <3> QED
      BY <2>4, <3>1 DEF GcExpired, Collected, Entry
  <2> QED
    BY <2>1, <2>2, <2>3, <2>4 DEF ResolveSession, Logout, RevokeAll, GcExpired
<1>2. sessions' \in [Sessions -> Tokens] /\ Good(sessions')
  <2>1. PICK new \in [Sessions -> Tokens] : sessions' = SavedTokens(sessions, new, o) /\ Good(new)
    BY <1>1
  <2>2. /\ sessions' \in [Sessions -> Tokens]
        /\ \A s \in Sessions : \/ sessions'[s] \in {sessions[s], new[s]}
                               \/ /\ sessions[s].state # "unissued"
                                  /\ sessions'[s] = [state |-> "gone", name |-> sessions[s].name]
    BY <2>1, SavedToken
  <2> QED
    BY <2>1, <2>2
<1> QED
  BY <1>1, <1>2, TornFacts, SessionsOnly

\* The passing of time.
LEMMA ExpiryStep ==
  ASSUME AccountInv, (\E s \in Sessions : ExpireSession(s)) \/ (\E t \in Enrollments : ExpireEnrollment(t))
  PROVE  /\ AccountInv'
         /\ \A s \in Sessions : sessions'[s].state = "active" => sessions[s].state = "active"
<1> USE DEF AccountInv, AccessTypes
<1>1. ASSUME NEW s \in Sessions, ExpireSession(s)
      PROVE  AccountInv' /\ \A k \in Sessions : sessions'[k].state = "active" => sessions[k].state = "active"
  <2>1. /\ sessions' \in [Sessions -> Tokens]
        /\ \A k \in Sessions : /\ sessions'[k].state = "active" => sessions[k].state = "active"
                               /\ sessions'[k].state # "unissued" => sessions[k].state # "unissued"
                               /\ sessions'[k].name = sessions[k].name
    BY <1>1 DEF ExpireSession, Tokens, TokenStates
  <2>2. torn' = torn /\ UNCHANGED <<profiles, credentials, enrollments, elevated, accounts>>
    BY <1>1 DEF ExpireSession
  <2> QED
    BY <2>1, <2>2, SessionsOnly
<1>2. ASSUME NEW t \in Enrollments, ExpireEnrollment(t)
      PROVE  AccountInv' /\ sessions' = sessions
  <2>1. /\ enrollments' \in [Enrollments -> Tokens]
        /\ \A k \in Enrollments : /\ enrollments'[k].state = "unissued" <=> enrollments[k].state = "unissued"
                                  /\ enrollments'[k].name = enrollments[k].name
    BY <1>2 DEF ExpireEnrollment, Tokens, TokenStates
  <2>2. UNCHANGED <<profiles, credentials, sessions, elevated, accounts, torn>>
    BY <1>2 DEF ExpireEnrollment
  <2> QED
    BY <2>1, <2>2 DEF Unreserved, OneAccount, SessionHasCredential
<1> QED
  BY <1>1, <1>2

\* An enrolment begins with a name that is not reserved; the collection of old
\* ones renames none.
LEMMA EnrollmentStep ==
  ASSUME AccountInv, NEW o \in Outcomes,
         (\E n \in Names, t \in Enrollments : EnrollStart(n, t, o)) \/ GcEnrollments(o)
  PROVE  AccountInv' /\ sessions' = sessions
<1> USE DEF AccountInv, AccessTypes
<1>1. UNCHANGED <<profiles, credentials, sessions, elevated, accounts>> /\ NoteTorn({o})
  BY DEF EnrollStart, GcEnrollments
<1> DEFINE Good(new) ==
      \A t \in Enrollments : \/ enrollments[t].state = "unissued" /\ new[t].name \notin Reserved
                             \/ new[t] = enrollments[t]
                             \/ /\ enrollments[t].state # "unissued" /\ new[t].name = enrollments[t].name
                                /\ new[t].state # "unissued"
<1>2. \E new \in [Enrollments -> Tokens] : enrollments' = SavedTokens(enrollments, new, o) /\ Good(new)
  <2>1. ASSUME NEW n \in Names, NEW t \in Enrollments, EnrollStart(n, t, o)
        PROVE  \E new \in [Enrollments -> Tokens] : enrollments' = SavedTokens(enrollments, new, o) /\ Good(new)
    <3>1. [enrollments EXCEPT ![t] = Entry("pending", n)] \in [Enrollments -> Tokens]
      BY DEF Entry, Tokens, TokenStates
    <3> QED
      BY <2>1, <3>1 DEF EnrollStart, NameFree, Entry
  <2>2. CASE GcEnrollments(o)
    <3>1. Collected(enrollments, {"used", "expired"}) \in [Enrollments -> Tokens]
      BY DEF Entry, Tokens, TokenStates, Collected
    <3> QED
      BY <2>2, <3>1 DEF GcEnrollments, Collected, Entry
  <2> QED
    BY <2>1, <2>2
<1>3. PICK new \in [Enrollments -> Tokens] : enrollments' = SavedTokens(enrollments, new, o) /\ Good(new)
  BY <1>2
<1>4. /\ enrollments' \in [Enrollments -> Tokens]
      /\ \A t \in Enrollments : \/ enrollments'[t] \in {enrollments[t], new[t]}
                                \/ /\ enrollments[t].state # "unissued"
                                   /\ enrollments'[t] = [state |-> "gone", name |-> enrollments[t].name]
  BY <1>3, SavedToken
<1>5. \A t \in Enrollments :
        \/ enrollments[t].state = "unissued" /\ (enrollments'[t].state # "unissued" => enrollments'[t].name \notin Reserved)
        \/ /\ enrollments[t].state # "unissued" /\ enrollments'[t].name = enrollments[t].name
           /\ enrollments'[t].state # "unissued"
  BY <1>3, <1>4
<1> QED
  BY <1>1, <1>4, <1>5, TornFacts DEF Unreserved, OneAccount, SessionHasCredential

\* Writing a profile: only an admin of the profile route is a new admin.
LEMMA ProfileWrite ==
  ASSUME AccountInv, NEW n \in Names, NEW trust, NEW o \in Outcomes,
         profiles' = SavedProfiles([profiles EXCEPT ![n] = trust], o), elevated \subseteq elevated',
         trust = "admin" => n \in Reserved \/ n \in elevated' \/ profiles[n] = "admin",
         UNCHANGED <<credentials, enrollments, sessions, accounts>>, NoteTorn({o})
  PROVE  AccountInv'
<1> USE DEF AccountInv, AccessTypes
<1>1. profiles' \in {profiles, [profiles EXCEPT ![n] = trust], [m \in Names |-> NoProfile]}
  BY SavedFacts
<1>2. /\ DOMAIN profiles' = Names
      /\ \A m \in Names \ Reserved : profiles'[m] = "admin" => m \in elevated' \/ profiles[m] = "admin"
  BY <1>1 DEF NoProfile
<1>3. Unreserved'
  BY <1>2 DEF Unreserved
<1>4. torn' \in BOOLEAN /\ (torn => torn')
  BY TornFacts
<1>5. OneAccount' /\ SessionHasCredential' /\ AccessTypes'
  BY <1>2, <1>4 DEF OneAccount, SessionHasCredential
<1> QED
  BY <1>3, <1>5

\* The profile route makes admins; the chat writes back the trust it found.
LEMMA ProfileStep ==
  ASSUME AccountInv, NEW o \in Outcomes,
         \/ \E n \in Names, trust \in GivenTrust : CreateProfile(n, trust, o)
         \/ \E token \in Sessions \cup {"no token"}, n \in Names, local \in BOOLEAN : ChatPreflight(token, n, local, o)
  PROVE  AccountInv' /\ sessions' = sessions
<1>1. ASSUME NEW n \in Names, NEW trust, CreateProfile(n, trust, o) PROVE AccountInv' /\ sessions' = sessions
  <2> DEFINE level == NormalizeTrust(trust)
  <2>1. level = "admin" => trust = "admin"
    BY DEF NormalizeTrust
  <2>2. /\ profiles' = SavedProfiles([profiles EXCEPT ![n] = level], o)
        /\ elevated \subseteq elevated' /\ (trust = "admin" => n \in elevated')
        /\ NoteTorn({o}) /\ UNCHANGED <<credentials, enrollments, sessions, accounts>>
    BY <1>1 DEF CreateProfile
  <2> HIDE DEF level
  <2> QED BY <2>1, <2>2, ProfileWrite
<1>2. ASSUME NEW token, NEW claimed, NEW local, ChatPreflight(token, claimed, local, o)
      PROVE  AccountInv' /\ sessions' = sessions
  <2>1. PICK n \in Names \ Reserved :
               /\ profiles' = SavedProfiles([profiles EXCEPT ![n] = Trust(n)], o)
               /\ NoteTorn({o}) /\ UNCHANGED <<credentials, enrollments, sessions, elevated, accounts>>
    BY <1>2, Zenon DEF ChatPreflight
  <2>2. Trust(n) = "admin" => profiles[n] = "admin"
    BY <2>1 DEF Trust
  <2> QED
    BY <2>1, <2>2, ProfileWrite
<1> QED
  BY <1>1, <1>2

\* What saving the credentials may do: no name gets one but by the new file,
\* and without a torn write none loses it.
LEMMA SavedCredential ==
  ASSUME AccountInv, NEW new, AreCredentials(new), NEW o \in Outcomes
  PROVE  /\ AreCredentials(SavedCredentials(new, o))
         /\ \A n \in Names : SavedCredentials(new, o)[n].exists => credentials[n].exists \/ new[n].exists
         /\ o # "torn" => \A n \in Names : credentials[n].exists /\ new[n].exists => SavedCredentials(new, o)[n].exists
         /\ o = "ok" => SavedCredentials(new, o) = new
<1>1. CASE o = "torn"
  BY <1>1 DEF SavedCredentials, NoCredential, AreCredentials
<1>2. CASE o # "torn"
  BY <1>2 DEF SavedCredentials, Outcomes, AccountInv, AccessTypes
<1> QED
  BY <1>1, <1>2

\* A new session is the only change that makes a token valid.
LEMMA NewSessionFacts ==
  ASSUME AccountInv, NEW s \in Sessions, NEW n \in Names, NEW o \in Outcomes, sessions[s].state = "unissued"
  PROVE  /\ NewSession(s, n, o) \in [Sessions -> Tokens]
         /\ \A k \in Sessions : \/ NewSession(s, n, o)[k] = sessions[k]
                                \/ k = s /\ NewSession(s, n, o)[k] = [state |-> "active", name |-> n]
                                \/ /\ sessions[k].state # "unissued"
                                   /\ NewSession(s, n, o)[k] = [state |-> "gone", name |-> sessions[k].name]
<1> DEFINE new == [sessions EXCEPT ![s] = Entry("active", n)]
<1>1. new \in [Sessions -> Tokens]
  BY DEF AccountInv, AccessTypes, Entry, Tokens, TokenStates
<1>2. \A k \in Sessions : new[k] = IF k = s THEN [state |-> "active", name |-> n] ELSE sessions[k]
  BY DEF AccountInv, AccessTypes, Entry
<1> HIDE DEF new
<1>3. NewSession(s, n, o) = SavedTokens(sessions, new, o)
  BY DEF NewSession, new
<1> QED
  BY <1>1, <1>2, <1>3, SavedToken DEF AccountInv, AccessTypes

\* A step that gives nobody a credential, takes none away unless a write is
\* torn, and makes sessions only for a name that has one.
LEMMA CredentialsKept ==
  ASSUME AccountInv, UNCHANGED <<profiles, enrollments, elevated, accounts>>,
         torn' \in BOOLEAN, torn => torn',
         AreCredentials(credentials'), sessions' \in [Sessions -> Tokens],
         \A m \in Names : credentials'[m].exists => credentials[m].exists,
         ~torn' => \A m \in Names : credentials[m].exists => credentials'[m].exists,
         NEW n \in Names, credentials[n].exists,
         \A k \in Sessions : \/ sessions'[k] = sessions[k]
                             \/ sessions[k].state = "unissued" /\ sessions'[k] = [state |-> "active", name |-> n]
                             \/ /\ sessions[k].state # "unissued"
                                /\ sessions'[k] = [state |-> "gone", name |-> sessions[k].name]
  PROVE  AccountInv'
<1> USE DEF AccountInv, AccessTypes
<1>1. /\ \A t \in Enrollments : enrollments[t].name \in Names
      /\ \A k \in Sessions : sessions[k].name \in Names
  BY DEF Tokens
<1>2. AccessTypes'
  OBVIOUS
<1>3. n \notin Reserved
  BY DEF Unreserved
<1>4. Unreserved'
  BY <1>3 DEF Unreserved
<1>5. OneAccount'
  BY <1>1 DEF OneAccount
<1>6. SessionHasCredential'
  BY <1>1 DEF SessionHasCredential
<1> QED
  BY <1>2, <1>4, <1>5, <1>6

\* Logging in counts in the credentials and makes a session for somebody who
\* has one.
LEMMA LoginStep ==
  ASSUME AccountInv, NEW n \in Names, NEW s \in Sessions, NEW right \in BOOLEAN, NEW oc \in Outcomes, NEW os \in Outcomes,
         Login(n, s, right, oc, os)
  PROVE  /\ AccountInv'
         /\ \A k \in Sessions : sessions'[k].state = "active" => sessions[k].state \in {"active", "unissued"}
<1> USE DEF AccountInv, AccessTypes
<1> DEFINE new == [credentials EXCEPT ![n] = Attempted(@, right)]
<1>1. AreCredentials(new) /\ \A m \in Names : new[m].exists = credentials[m].exists
  BY DEF Attempted, AreCredentials
<1> HIDE DEF new
<1>2. /\ credentials' = SavedCredentials(new, oc)
      /\ credentials[n].exists /\ sessions[s].state = "unissued"
      /\ sessions' = IF right THEN NewSession(s, n, os) ELSE sessions
      /\ NoteTorn({oc} \cup (IF right THEN {os} ELSE {}))
      /\ UNCHANGED <<profiles, enrollments, elevated, accounts>>
  BY DEF Login, new
<1>3. /\ AreCredentials(credentials')
      /\ \A m \in Names : credentials'[m].exists => credentials[m].exists
      /\ oc # "torn" => \A m \in Names : credentials[m].exists => credentials'[m].exists
  <2>1. /\ AreCredentials(SavedCredentials(new, oc))
        /\ \A m \in Names : SavedCredentials(new, oc)[m].exists => credentials[m].exists \/ new[m].exists
        /\ oc # "torn" => \A m \in Names : credentials[m].exists /\ new[m].exists => SavedCredentials(new, oc)[m].exists
    <3> HIDE DEF AccountInv
    <3> QED
      BY <1>1, SavedCredential
  <2> HIDE DEF AccountInv, AccessTypes
  <2> QED
    BY <1>1, <1>2, <2>1
<1>4. /\ sessions' \in [Sessions -> Tokens]
      /\ \A k \in Sessions : \/ sessions'[k] = sessions[k]
                             \/ sessions[k].state = "unissued" /\ sessions'[k] = [state |-> "active", name |-> n]
                             \/ /\ sessions[k].state # "unissued"
                                /\ sessions'[k] = [state |-> "gone", name |-> sessions[k].name]
  BY <1>2, NewSessionFacts
<1>5. torn' \in BOOLEAN /\ (torn => torn') /\ (~torn' => oc # "torn")
  BY <1>2, TornFacts
<1>6. AccountInv'
  BY <1>2, <1>3, <1>4, <1>5, CredentialsKept
<1> QED
  BY <1>4, <1>6

\* So does the operator's unlock, which makes no session.
LEMMA UnlockStep ==
  ASSUME AccountInv, NEW n \in Names, NEW o \in Outcomes, Unlock(n, o)
  PROVE  AccountInv' /\ sessions' = sessions
<1> USE DEF AccountInv, AccessTypes
<1> DEFINE new == [credentials EXCEPT ![n] = NewCredential]
<1>1. AreCredentials(new) /\ \A m \in Names : new[m].exists <=> credentials[m].exists
  BY DEF Unlock, NewCredential, AreCredentials
<1> HIDE DEF new
<1>2. /\ credentials' = SavedCredentials(new, o)
      /\ NoteTorn({o}) /\ UNCHANGED <<profiles, enrollments, sessions, elevated, accounts>>
  BY DEF Unlock, new
<1>3. /\ AreCredentials(credentials')
      /\ \A m \in Names : credentials'[m].exists => credentials[m].exists
      /\ o # "torn" => \A m \in Names : credentials[m].exists => credentials'[m].exists
  <2>1. /\ AreCredentials(SavedCredentials(new, o))
        /\ \A m \in Names : SavedCredentials(new, o)[m].exists => credentials[m].exists \/ new[m].exists
        /\ o # "torn" => \A m \in Names : credentials[m].exists /\ new[m].exists => SavedCredentials(new, o)[m].exists
    <3> HIDE DEF AccountInv
    <3> QED
      BY <1>1, SavedCredential
  <2> HIDE DEF AccountInv, AccessTypes
  <2> QED
    BY <1>1, <1>2, <2>1
<1>4. torn' \in BOOLEAN /\ (torn => torn') /\ (~torn' => o # "torn")
  BY <1>2, TornFacts
<1>5. credentials[n].exists
  BY DEF Unlock
<1> QED
  BY <1>2, <1>3, <1>4, <1>5, CredentialsKept

\* The end of an enrolment: four writes, of which any may fail or be torn.
LEMMA EnrollCompleteStep ==
  ASSUME AccountInv, NEW t \in Enrollments, NEW s \in Sessions, NEW strong \in BOOLEAN,
         NEW op \in Outcomes, NEW oc \in Outcomes, NEW ou \in Outcomes, NEW os \in Outcomes,
         EnrollComplete(t, s, strong, op, oc, ou, os)
  PROVE  /\ AccountInv'
         /\ \A k \in Sessions : sessions'[k].state = "active" => sessions[k].state \in {"active", "unissued"}
<1> USE DEF AccountInv, AccessTypes
<1>1. PICK n \in Names : n = enrollments[t].name
  BY DEF Tokens
<1> DEFINE tried   == op = "ok" /\ ~credentials[n].exists /\ strong
           created == tried /\ oc = "ok"
           newc    == [credentials EXCEPT ![n] = NewCredential]
           newe    == [enrollments EXCEPT ![t].state = "used"]
<1>2. /\ enrollments[t].state = "pending" /\ sessions[s].state = "unissued"
      /\ profiles' = SavedProfiles([profiles EXCEPT ![n] = "limited"], op)
      /\ credentials' = IF tried THEN SavedCredentials(newc, oc) ELSE credentials
      /\ accounts' = IF created THEN [accounts EXCEPT ![t] = @ + 1] ELSE accounts
      /\ enrollments' = IF created THEN SavedTokens(enrollments, newe, ou) ELSE enrollments
      /\ sessions' = IF created THEN NewSession(s, n, os) ELSE sessions
      /\ NoteTorn({op} \cup (IF tried THEN {oc} ELSE {}) \cup (IF created THEN {ou, os} ELSE {}))
      /\ UNCHANGED elevated
  BY <1>1 DEF EnrollComplete
<1>3. n \notin Reserved
  BY <1>1, <1>2 DEF Unreserved
<1>4. torn' \in BOOLEAN /\ (torn => torn') /\ (~torn' /\ tried => oc # "torn")
  BY <1>2, TornFacts
<1>5. /\ DOMAIN profiles' = Names
      /\ \A m \in Names : profiles'[m] = "admin" => profiles[m] = "admin"
  <2>1. profiles' \in {profiles, [profiles EXCEPT ![n] = "limited"], [m \in Names |-> NoProfile]}
    BY <1>2, SavedFacts
  <2> QED
    BY <2>1 DEF NoProfile
<1>6. /\ AreCredentials(newc) /\ newc[n].exists
      /\ \A m \in Names : m # n => newc[m] = credentials[m]
  BY DEF AreCredentials, NewCredential
<1>7. /\ newe \in [Enrollments -> Tokens]
      /\ \A k \in Enrollments : newe[k].name = enrollments[k].name /\ (newe[k].state = "unissued" => enrollments[k].state = "unissued")
      /\ \A k \in Enrollments : newe[k].state # "unissued" => enrollments[k].state # "unissued"
  BY <1>2 DEF Tokens, TokenStates
<1> HIDE DEF newc, newe
<1>8. /\ AreCredentials(credentials')
      /\ \A m \in Names : credentials'[m].exists => credentials[m].exists \/ m = n
      /\ ~torn' => \A m \in Names : credentials[m].exists => credentials'[m].exists
      /\ created => credentials'[n].exists
  <2>1. CASE ~tried
    BY <1>2, <2>1
  <2>2. CASE tried
    <3>1. /\ AreCredentials(SavedCredentials(newc, oc))
          /\ \A m \in Names : SavedCredentials(newc, oc)[m].exists => credentials[m].exists \/ newc[m].exists
          /\ oc # "torn" => \A m \in Names : credentials[m].exists /\ newc[m].exists => SavedCredentials(newc, oc)[m].exists
          /\ oc = "ok" => SavedCredentials(newc, oc) = newc
      <4> HIDE DEF AccountInv
      <4> QED
        BY <1>6, SavedCredential
    <3>2. credentials' = SavedCredentials(newc, oc) /\ (~torn' => oc # "torn")
      BY <1>2, <1>4, <2>2
    <3> HIDE DEF AccountInv, AccessTypes
    <3>3. \A m \in Names : newc[m].exists <=> credentials[m].exists \/ m = n
      BY <1>6
    <3>4. created => credentials'[n].exists
      BY <1>6, <3>1, <3>2
    <3> HIDE DEF tried, created
    <3> QED
      BY <3>1, <3>2, <3>3, <3>4
  <2> QED
    BY <2>1, <2>2
<1>9. /\ enrollments' \in [Enrollments -> Tokens]
      /\ \A k \in Enrollments : /\ enrollments'[k].name = enrollments[k].name
                                /\ enrollments'[k].state = "unissued" <=> enrollments[k].state = "unissued"
  <2>1. CASE ~created
    BY <1>2, <2>1
  <2>2. CASE created
    <3>0. enrollments' = SavedTokens(enrollments, newe, ou) /\ newe \in [Enrollments -> Tokens]
      BY <1>2, <1>7, <2>2
    <3>1. /\ enrollments' \in [Enrollments -> Tokens]
          /\ \A k \in Enrollments : \/ enrollments'[k] \in {enrollments[k], newe[k]}
                                    \/ /\ enrollments[k].state # "unissued"
                                       /\ enrollments'[k] = [state |-> "gone", name |-> enrollments[k].name]
      BY <3>0, SavedToken
    <3> QED
      BY <1>7, <3>1
  <2> QED
    BY <2>1, <2>2
<1>10. /\ sessions' \in [Sessions -> Tokens]
       /\ \A k \in Sessions : \/ sessions'[k] = sessions[k]
                              \/ created /\ sessions[k].state = "unissued" /\ sessions'[k] = [state |-> "active", name |-> n]
                              \/ /\ sessions[k].state # "unissued"
                                 /\ sessions'[k] = [state |-> "gone", name |-> sessions[k].name]
  BY <1>2, NewSessionFacts
<1>11. accounts' \in [Enrollments -> Nat]
  BY <1>2
<1>12. AccessTypes'
  BY <1>4, <1>5, <1>8, <1>9, <1>10, <1>11
<1>13. Unreserved'
  <2>1. elevated' = elevated
    BY <1>2
  <2>2. \A k \in Enrollments : enrollments'[k].state # "unissued" => enrollments'[k].name \notin Reserved
    BY <1>9 DEF Unreserved
  <2>3. \A m \in Names : credentials'[m].exists => m \notin Reserved
    BY <1>3, <1>8 DEF Unreserved
  <2>4. \A k \in Sessions : sessions'[k].state # "unissued" => sessions'[k].name \notin Reserved
    BY <1>3, <1>10 DEF Unreserved
  <2>5. \A m \in Names \ Reserved : profiles'[m] = "admin" => m \in elevated'
    BY <1>5, <2>1 DEF Unreserved
  <2> QED
    BY <2>2, <2>3, <2>4, <2>5 DEF Unreserved
<1>14. OneAccount'
  <2>1. \A k \in Enrollments : enrollments[k].name \in Names
    BY DEF Tokens
  <2>2. ~torn /\ created => accounts[t] = 0
    BY <1>1 DEF OneAccount
  <2>3. \A k \in Enrollments : accounts'[k] = IF created /\ k = t THEN accounts[k] + 1 ELSE accounts[k]
    BY <1>2
  <2>4. \A k \in Enrollments : accounts'[k] # 0 => enrollments'[k].state # "unissued"
    BY <1>2, <1>9, <2>3 DEF OneAccount
  <2>5. ASSUME ~torn', NEW k \in Enrollments
        PROVE  accounts'[k] <= 1 /\ (accounts'[k] # 0 => credentials'[enrollments'[k].name].exists)
    <3>1. ~torn /\ enrollments'[k].name = enrollments[k].name /\ enrollments[k].name \in Names
      BY <1>4, <1>9, <2>1, <2>5
    <3>2. CASE created /\ k = t
      BY <1>1, <1>8, <2>2, <2>3, <3>1, <3>2
    <3>3. CASE ~(created /\ k = t)
      <4>1. accounts'[k] = accounts[k]
        BY <2>3, <3>3
      <4>2. accounts[k] <= 1 /\ (accounts[k] # 0 => credentials[enrollments[k].name].exists)
        BY <3>1 DEF OneAccount
      <4> QED
        BY <1>8, <2>5, <3>1, <4>1, <4>2
    <3> QED
      BY <3>2, <3>3
  <2> QED
    BY <2>4, <2>5 DEF OneAccount
<1>15. SessionHasCredential'
  <2>1. \A k \in Sessions : sessions[k].name \in Names
    BY DEF Tokens
  <2> QED
    BY <1>4, <1>8, <1>10, <2>1 DEF SessionHasCredential
<1> QED
  BY <1>10, <1>12, <1>13, <1>14, <1>15

-----------------------------------------------------------------------------
(* The theorems.                                                           *)

\* Every step keeps the invariant, and makes valid only what was valid or new.
LEMMA AccessStep ==
  ASSUME AccountInv, [AccessNext]_accessVars
  PROVE  /\ AccountInv'
         /\ \A k \in Sessions : sessions'[k].state = "active" => sessions[k].state \in {"active", "unissued"}
<1>1. CASE UNCHANGED accessVars
  BY <1>1 DEF accessVars, AccountInv, AccessTypes, Unreserved, OneAccount, SessionHasCredential
<1>2. CASE AccessNext
  <2>1. PICK o \in Outcomes :
    \/ \E n \in Names, t \in Enrollments : EnrollStart(n, t, o)
    \/ \E t \in Enrollments, s \in Sessions, strong \in BOOLEAN, oc, ou, os \in Outcomes :
         EnrollComplete(t, s, strong, o, oc, ou, os)
    \/ \E n \in Names, s \in Sessions, right \in BOOLEAN, os \in Outcomes : Login(n, s, right, o, os)
    \/ \E n \in Names : Unlock(n, o) \/ RevokeAll(n, o)
    \/ \E s \in Sessions : ResolveSession(s, o) \/ Logout(s, o) \/ ExpireSession(s)
    \/ GcExpired(o) \/ GcEnrollments(o)
    \/ \E t \in Enrollments : ExpireEnrollment(t)
    \/ \E n \in Names, trust \in GivenTrust : CreateProfile(n, trust, o)
    \/ \E token \in Sessions \cup {"no token"}, n \in Names, local \in BOOLEAN : ChatPreflight(token, n, local, o)
    BY <1>2, SavedFacts DEF AccessNext
  <2> QED
    BY <2>1, SessionStep, ExpiryStep, EnrollmentStep, ProfileStep, LoginStep, UnlockStep, EnrollCompleteStep
<1> QED
  BY <1>1, <1>2

\* What an account stands for, for any number of people and tokens and whatever
\* writes fail: no trust but that given by the profile route, one account per
\* enrolment token, no session without a credential.
THEOREM AccountsAreSafe == AccessSpec => []AccountsSafe
<1>1. AccountInv => AccountsSafe
  <2> SUFFICES ASSUME AccountInv PROVE AccountsSafe
    OBVIOUS
  <2>1. \A s \in Sessions : sessions[s].name \in Names
    BY DEF AccountInv, AccessTypes, Tokens
  <2>2. NoEscalation
    BY <2>1 DEF AccountInv, Unreserved, NoEscalation, Trust
  <2>3. TokenMakesOneAccount /\ SessionHasCredential
    BY DEF AccountInv, OneAccount, TokenMakesOneAccount
  <2> QED
    BY <2>2, <2>3 DEF AccountsSafe
<1>2. AccountInv /\ [AccessNext]_accessVars => AccountInv'
  BY AccessStep
<1> QED
  BY <1>1, <1>2, AccountInvInit, PTL DEF AccessSpec

\* A token that is no longer valid stays so, through every rewriting of the
\* session file (resolve_session, revoke_session, gc_expired, login).
THEOREM DeadTokensStayDead == AccessSpec => TokensStayDead
<1>1. AccountInv /\ [AccessNext]_accessVars => AccountInv'
  BY AccessStep
<1>2. AccountInv /\ [AccessNext]_accessVars
        => [\A s \in Sessions : sessions[s].state \in {"revoked", "expired", "gone"} => sessions'[s].state # "active"]_accessVars
  BY AccessStep
<1> QED
  BY <1>1, <1>2, AccountInvInit, PTL DEF AccessSpec, TokensStayDead

-----------------------------------------------------------------------------
(* The types of the four files.                                            *)

EnrollmentStates == {"unissued", "pending", "used", "expired", "gone"}
SessionStates == {"unissued", "active", "revoked", "expired", "gone"}

\* An account that is not locked has a wrong password left.
Credential ==
  {c \in [failed : 0 .. MAX_FAILED_LOGIN_ATTEMPTS, locked : BOOLEAN, exists : BOOLEAN] :
     ~c.locked => c.failed < MAX_FAILED_LOGIN_ATTEMPTS}

FilesInv == AccessTypeOK /\ credentials \in [Names -> Credential]

\* A save keeps the type of a file of tokens, of the credentials and of the profiles.
LEMMA SavedTokensType ==
  ASSUME NEW K, NEW States, "gone" \in States,
         NEW file \in [K -> [state : States, name : Names]], NEW new \in [K -> [state : States, name : Names]],
         NEW o \in Outcomes
  PROVE  SavedTokens(file, new, o) \in [K -> [state : States, name : Names]]
<1>1. Emptied(file) \in [K -> [state : States, name : Names]]
  BY DEF Emptied, Entry
<1>2. SavedTokens(file, new, o) \in {file, new, Emptied(file)}
  BY SavedFacts
<1> QED
  BY <1>1, <1>2

\* The same for the credentials.
LEMMA SavedCredentialsType ==
  ASSUME FilesInv, NEW new \in [Names -> Credential], NEW o \in Outcomes
  PROVE  SavedCredentials(new, o) \in [Names -> Credential]
<1>1. NoCredential \in Credential
  BY AccessConstants DEF NoCredential, Credential
<1>2. SavedCredentials(new, o) \in {credentials, new, [n \in Names |-> NoCredential]}
  BY SavedFacts
<1> QED
  BY <1>1, <1>2 DEF FilesInv

\* The same for the profiles.
LEMMA SavedProfilesType ==
  ASSUME FilesInv, NEW n \in Names, NEW trust \in TrustLevels, NEW o \in Outcomes,
         profiles' = SavedProfiles([profiles EXCEPT ![n] = trust], o)
  PROVE  profiles' \in [Names -> TrustLevels \cup {NoProfile}]
<1>1. profiles' \in {profiles, [profiles EXCEPT ![n] = trust], [m \in Names |-> NoProfile]}
  BY SavedFacts
<1> QED
  BY <1>1 DEF FilesInv, AccessTypeOK

\* The log-in counter stops at the limit, where the account is locked.
LEMMA AttemptedType ==
  ASSUME NEW c \in Credential, NEW right \in BOOLEAN, ~c.locked PROVE Attempted(c, right) \in Credential
<1>1. CASE right
  BY <1>1, AccessConstants DEF Attempted, Credential
<1>2. CASE ~right
  <2> DEFINE f == c.failed + 1
             l == (f >= MAX_FAILED_LOGIN_ATTEMPTS)
  <2>1. f \in 0 .. MAX_FAILED_LOGIN_ATTEMPTS /\ l \in BOOLEAN /\ (~l => f < MAX_FAILED_LOGIN_ATTEMPTS)
    BY AccessConstants DEF Credential
  <2>2. Attempted(c, right) = [c EXCEPT !.failed = f, !.locked = l]
    BY <1>2 DEF Attempted, Credential
  <2> HIDE DEF f, l
  <2> QED BY <2>1, <2>2 DEF Credential
<1> QED
  BY <1>1, <1>2

\* The files are empty at the start.
LEMMA FilesInvInit == AccessInit => FilesInv
<1> SUFFICES ASSUME AccessInit PROVE FilesInv
  OBVIOUS
<1>1. NoCredential \in Credential
  BY AccessConstants DEF NoCredential, Credential
<1>2. (CHOOSE n \in Names : TRUE) \in Names
  BY AccessConstants
<1> DEFINE first == CHOOSE n \in Names : TRUE
<1>3. /\ enrollments = [t \in Enrollments |-> Entry("unissued", first)]
      /\ sessions = [s \in Sessions |-> Entry("unissued", first)]
      /\ credentials = [n \in Names |-> NoCredential] /\ profiles = [n \in Names |-> NoProfile]
      /\ elevated = {} /\ torn = FALSE /\ accounts = [t \in Enrollments |-> 0]
  BY DEF AccessInit
<1> HIDE DEF first
<1>4. first \in Names
  BY <1>2 DEF first
<1>5. credentials \in [Names -> Credential]
  BY <1>1, <1>3
<1>6. credentials \in [Names -> [failed : 0..MAX_FAILED_LOGIN_ATTEMPTS, locked : BOOLEAN, exists : BOOLEAN]]
  BY <1>5 DEF Credential
<1>7. AccessTypeOK
  BY <1>3, <1>4, <1>6 DEF AccessTypeOK, Entry
<1> QED
  BY <1>5, <1>7 DEF FilesInv

\* What is left to show when a step has kept each file.
LEMMA FilesTogether ==
  ASSUME profiles' \in [Names -> TrustLevels \cup {NoProfile}], credentials' \in [Names -> Credential],
         enrollments' \in [Enrollments -> [state : EnrollmentStates, name : Names]],
         sessions' \in [Sessions -> [state : SessionStates, name : Names]],
         elevated' \subseteq Names, torn' \in BOOLEAN, DOMAIN accounts' = Enrollments
  PROVE  FilesInv'
<1>1. credentials' \in [Names -> [failed : 0..MAX_FAILED_LOGIN_ATTEMPTS, locked : BOOLEAN, exists : BOOLEAN]]
  BY DEF Credential
<1> QED
  BY Zenon, <1>1 DEF FilesInv, AccessTypeOK, EnrollmentStates, SessionStates

\* NoteTorn keeps a Boolean.
LEMMA TornType == ASSUME FilesInv, NEW os, NoteTorn(os) PROVE torn' \in BOOLEAN
BY Zenon DEF NoteTorn, FilesInv, AccessTypeOK

\* The files as they are.
LEMMA FilesNow ==
  ASSUME FilesInv
  PROVE  /\ profiles \in [Names -> TrustLevels \cup {NoProfile}] /\ credentials \in [Names -> Credential]
         /\ enrollments \in [Enrollments -> [state : EnrollmentStates, name : Names]]
         /\ sessions \in [Sessions -> [state : SessionStates, name : Names]]
         /\ elevated \subseteq Names /\ torn \in BOOLEAN /\ DOMAIN accounts = Enrollments
BY Zenon DEF FilesInv, AccessTypeOK, EnrollmentStates, SessionStates

\* A step that rewrites the sessions only.
LEMMA SessionsTyped ==
  ASSUME FilesInv, NEW o \in Outcomes, NEW new \in [Sessions -> [state : SessionStates, name : Names]],
         sessions' = SavedTokens(sessions, new, o), NoteTorn({o}),
         UNCHANGED <<profiles, credentials, enrollments, elevated, accounts>>
  PROVE  FilesInv'
<1>1. sessions' \in [Sessions -> [state : SessionStates, name : Names]]
  <2>1. "gone" \in SessionStates
    BY DEF SessionStates
  <2> QED BY <2>1, FilesNow, SavedTokensType
<1> QED
  BY <1>1, FilesNow, TornType, FilesTogether

\* A step that rewrites the enrolments only.
LEMMA EnrollmentsTyped ==
  ASSUME FilesInv, NEW o \in Outcomes, NEW new \in [Enrollments -> [state : EnrollmentStates, name : Names]],
         enrollments' = SavedTokens(enrollments, new, o), NoteTorn({o}),
         UNCHANGED <<profiles, credentials, sessions, elevated, accounts>>
  PROVE  FilesInv'
<1>1. enrollments' \in [Enrollments -> [state : EnrollmentStates, name : Names]]
  <2>1. "gone" \in EnrollmentStates
    BY DEF EnrollmentStates
  <2> QED BY <2>1, FilesNow, SavedTokensType
<1> QED
  BY <1>1, FilesNow, TornType, FilesTogether

\* A new session.
LEMMA NewSessionType ==
  ASSUME FilesInv, NEW s \in Sessions, NEW n \in Names, NEW o \in Outcomes
  PROVE  NewSession(s, n, o) \in [Sessions -> [state : SessionStates, name : Names]]
<1> DEFINE new == [sessions EXCEPT ![s] = Entry("active", n)]
<1>1. new \in [Sessions -> [state : SessionStates, name : Names]] /\ "gone" \in SessionStates
  BY FilesNow DEF Entry, SessionStates
<1>2. NewSession(s, n, o) = SavedTokens(sessions, new, o)
  BY DEF NewSession
<1> HIDE DEF new
<1>3. sessions \in [Sessions -> [state : SessionStates, name : Names]]
  BY FilesNow
<1>4. SavedTokens(sessions, new, o) \in [Sessions -> [state : SessionStates, name : Names]]
  BY <1>1, <1>3, SavedTokensType
<1> QED
  BY <1>2, <1>4

\* Every handler keeps the files' types.
LEMMA FilesInvStep == FilesInv /\ [AccessNext]_accessVars => FilesInv'
<1> SUFFICES ASSUME FilesInv, [AccessNext]_accessVars PROVE FilesInv'
  OBVIOUS
<1>0. WriteOutcomes \subseteq Outcomes
  BY SavedFacts
<1>1. ASSUME NEW o \in Outcomes, NEW n \in Names, NEW t \in Enrollments, EnrollStart(n, t, o) PROVE FilesInv'
  <2> DEFINE new == [enrollments EXCEPT ![t] = Entry("pending", n)]
  <2>1. new \in [Enrollments -> [state : EnrollmentStates, name : Names]]
    BY FilesNow DEF Entry, EnrollmentStates
  <2>2. enrollments' = SavedTokens(enrollments, new, o) /\ NoteTorn({o})
        /\ UNCHANGED <<profiles, credentials, sessions, elevated, accounts>>
    BY Zenon, <1>1 DEF EnrollStart
  <2> HIDE DEF new
  <2> QED BY <2>1, <2>2, EnrollmentsTyped
<1>2. ASSUME NEW t \in Enrollments, NEW s \in Sessions, NEW strong \in BOOLEAN,
             NEW op \in Outcomes, NEW oc \in Outcomes, NEW ou \in Outcomes, NEW os \in Outcomes,
             EnrollComplete(t, s, strong, op, oc, ou, os)
      PROVE  FilesInv'
  <2> DEFINE n == enrollments[t].name
  <2>1. n \in Names
    BY FilesNow
  <2> DEFINE newP == [profiles EXCEPT ![n] = "limited"]
             newC == [credentials EXCEPT ![n] = NewCredential]
             newE == [enrollments EXCEPT ![t].state = "used"]
  <2>2. newC \in [Names -> Credential]
    <3>1. NewCredential \in Credential
      BY AccessConstants DEF NewCredential, Credential
    <3> QED BY <2>1, <3>1, FilesNow
  <2>3. newE \in [Enrollments -> [state : EnrollmentStates, name : Names]] /\ "gone" \in EnrollmentStates
    BY FilesNow DEF EnrollmentStates
  <2>4. /\ profiles' = SavedProfiles(newP, op)
        /\ credentials' \in {credentials, SavedCredentials(newC, oc)}
        /\ enrollments' \in {enrollments, SavedTokens(enrollments, newE, ou)}
        /\ sessions' \in {sessions, NewSession(s, n, os)}
        /\ accounts' = accounts \/ accounts' = [accounts EXCEPT ![t] = @ + 1]
        /\ elevated' = elevated
    <3> HIDE DEF n
    <3> QED BY <1>2 DEF EnrollComplete, n
  <2>5. torn' \in BOOLEAN
    BY <1>2, TornType DEF EnrollComplete
  <2>6. profiles' \in [Names -> TrustLevels \cup {NoProfile}]
    <3>1. "limited" \in TrustLevels
      BY DEF TrustLevels
    <3> HIDE DEF n
    <3> QED BY <2>1, <2>4, <3>1, SavedProfilesType
  <2> HIDE DEF n, newP, newC, newE
  <2>7. credentials' \in [Names -> Credential]
    BY <2>2, <2>4, FilesNow, SavedCredentialsType
  <2>8. enrollments' \in [Enrollments -> [state : EnrollmentStates, name : Names]]
    <3>1. enrollments \in [Enrollments -> [state : EnrollmentStates, name : Names]]
      BY FilesNow
    <3>2. SavedTokens(enrollments, newE, ou) \in [Enrollments -> [state : EnrollmentStates, name : Names]]
      BY <2>3, <3>1, SavedTokensType
    <3> QED BY <2>4, <3>1, <3>2
  <2>9. sessions' \in [Sessions -> [state : SessionStates, name : Names]]
    <3>1. sessions \in [Sessions -> [state : SessionStates, name : Names]]
      BY FilesNow
    <3>2. NewSession(s, n, os) \in [Sessions -> [state : SessionStates, name : Names]]
      BY <2>1, NewSessionType
    <3> QED BY <2>4, <3>1, <3>2
  <2>10. DOMAIN accounts' = Enrollments /\ elevated' \subseteq Names
    BY <2>4, FilesNow
  <2> QED BY <2>5, <2>6, <2>7, <2>8, <2>9, <2>10, FilesTogether
<1>3. ASSUME NEW n \in Names, NEW s \in Sessions, NEW right \in BOOLEAN, NEW oc \in Outcomes, NEW os \in Outcomes,
             Login(n, s, right, oc, os)
      PROVE  FilesInv'
  <2> DEFINE newC == [credentials EXCEPT ![n] = Attempted(@, right)]
  <2>1. newC \in [Names -> Credential]
    <3>1. credentials[n] \in Credential /\ ~credentials[n].locked
      BY <1>3, FilesNow DEF Login
    <3>2. Attempted(credentials[n], right) \in Credential
      BY <3>1, AttemptedType
    <3> QED BY <3>2, FilesNow
  <2>2. /\ credentials' = SavedCredentials(newC, oc)
        /\ sessions' \in {sessions, NewSession(s, n, os)}
        /\ UNCHANGED <<profiles, enrollments, elevated, accounts>>
    BY <1>3 DEF Login
  <2>3. torn' \in BOOLEAN
    BY <1>3, TornType DEF Login
  <2> HIDE DEF newC
  <2>4. credentials' \in [Names -> Credential]
    BY <2>1, <2>2, SavedCredentialsType
  <2>5. sessions' \in [Sessions -> [state : SessionStates, name : Names]]
    <3>1. sessions \in [Sessions -> [state : SessionStates, name : Names]]
      BY FilesNow
    <3>2. NewSession(s, n, os) \in [Sessions -> [state : SessionStates, name : Names]]
      BY NewSessionType
    <3> QED BY <2>2, <3>1, <3>2
  <2> QED BY <2>2, <2>3, <2>4, <2>5, FilesNow, FilesTogether
<1>4. ASSUME NEW n \in Names, NEW o \in Outcomes, Unlock(n, o) PROVE FilesInv'
  <2> DEFINE newC == [credentials EXCEPT ![n] = NewCredential]
  <2>1. newC \in [Names -> Credential]
    <3>1. NewCredential \in Credential
      BY AccessConstants DEF NewCredential, Credential
    <3> QED BY <3>1, FilesNow
  <2>2. credentials' = SavedCredentials(newC, o) /\ UNCHANGED <<profiles, enrollments, sessions, elevated, accounts>>
    BY <1>4 DEF Unlock
  <2>3. torn' \in BOOLEAN
    BY <1>4, TornType DEF Unlock
  <2> HIDE DEF newC
  <2>4. credentials' \in [Names -> Credential]
    BY <2>1, <2>2, SavedCredentialsType
  <2> QED BY <2>2, <2>3, <2>4, FilesNow, FilesTogether
<1>5. ASSUME NEW n \in Names, NEW o \in Outcomes, RevokeAll(n, o) PROVE FilesInv'
  <2> DEFINE new == [s \in Sessions |-> IF sessions[s].name = n /\ sessions[s].state \in {"active", "expired"}
                                          THEN Entry("revoked", n) ELSE sessions[s]]
  <2>1. new \in [Sessions -> [state : SessionStates, name : Names]]
    BY FilesNow DEF Entry, SessionStates
  <2>2. sessions' = SavedTokens(sessions, new, o) /\ NoteTorn({o})
        /\ UNCHANGED <<profiles, credentials, enrollments, elevated, accounts>>
    BY Zenon, <1>5 DEF RevokeAll
  <2> HIDE DEF new
  <2> QED BY <2>1, <2>2, SessionsTyped
<1>6. ASSUME NEW s \in Sessions, NEW o \in Outcomes, ResolveSession(s, o) PROVE FilesInv'
  BY <1>6, FilesNow, SessionsTyped DEF ResolveSession
<1>7. ASSUME NEW s \in Sessions, NEW o \in Outcomes, Logout(s, o) PROVE FilesInv'
  <2> DEFINE new == [sessions EXCEPT ![s].state = "revoked"]
  <2>1. new \in [Sessions -> [state : SessionStates, name : Names]]
    BY FilesNow DEF SessionStates
  <2>2. sessions' = SavedTokens(sessions, new, o) /\ NoteTorn({o})
        /\ UNCHANGED <<profiles, credentials, enrollments, elevated, accounts>>
    BY Zenon, <1>7 DEF Logout
  <2> HIDE DEF new
  <2> QED BY <2>1, <2>2, SessionsTyped
<1>8. ASSUME NEW s \in Sessions, ExpireSession(s) PROVE FilesInv'
  <2>1. sessions' \in [Sessions -> [state : SessionStates, name : Names]]
    BY <1>8, FilesNow DEF ExpireSession, SessionStates
  <2> QED BY <1>8, <2>1, FilesNow, FilesTogether DEF ExpireSession
<1>9. ASSUME NEW o \in Outcomes, GcExpired(o) PROVE FilesInv'
  <2> DEFINE new == Collected(sessions, {"revoked", "expired"})
  <2>1. new \in [Sessions -> [state : SessionStates, name : Names]]
    BY FilesNow DEF Collected, Entry, SessionStates
  <2>2. sessions' = SavedTokens(sessions, new, o) /\ NoteTorn({o})
        /\ UNCHANGED <<profiles, credentials, enrollments, elevated, accounts>>
    BY Zenon, <1>9 DEF GcExpired
  <2> HIDE DEF new
  <2> QED BY <2>1, <2>2, SessionsTyped
<1>10. ASSUME NEW o \in Outcomes, GcEnrollments(o) PROVE FilesInv'
  <2> DEFINE new == Collected(enrollments, {"used", "expired"})
  <2>1. new \in [Enrollments -> [state : EnrollmentStates, name : Names]]
    BY FilesNow DEF Collected, Entry, EnrollmentStates
  <2>2. enrollments' = SavedTokens(enrollments, new, o) /\ NoteTorn({o})
        /\ UNCHANGED <<profiles, credentials, sessions, elevated, accounts>>
    BY Zenon, <1>10 DEF GcEnrollments
  <2> HIDE DEF new
  <2> QED BY <2>1, <2>2, EnrollmentsTyped
<1>11. ASSUME NEW t \in Enrollments, ExpireEnrollment(t) PROVE FilesInv'
  <2>1. enrollments' \in [Enrollments -> [state : EnrollmentStates, name : Names]]
    BY <1>11, FilesNow DEF ExpireEnrollment, EnrollmentStates
  <2> QED BY <1>11, <2>1, FilesNow, FilesTogether DEF ExpireEnrollment
<1>12. ASSUME NEW n \in Names, NEW trust \in GivenTrust, NEW o \in Outcomes, CreateProfile(n, trust, o) PROVE FilesInv'
  <2> DEFINE level == NormalizeTrust(trust)
  <2>1. level \in TrustLevels
    BY DEF NormalizeTrust, TrustLevels
  <2>2. profiles' = SavedProfiles([profiles EXCEPT ![n] = level], o) /\ elevated' \subseteq elevated \cup {n}
        /\ UNCHANGED <<credentials, enrollments, sessions, accounts>>
    BY <1>12 DEF CreateProfile
  <2>3. torn' \in BOOLEAN
    BY <1>12, TornType DEF CreateProfile
  <2> HIDE DEF level
  <2>4. profiles' \in [Names -> TrustLevels \cup {NoProfile}]
    BY <2>1, <2>2, SavedProfilesType
  <2>5. elevated' \subseteq Names
    BY <2>2, FilesNow
  <2> QED BY <2>2, <2>3, <2>4, <2>5, FilesNow, FilesTogether
<1>13. ASSUME NEW token, NEW claimed, NEW local, NEW o \in Outcomes, ChatPreflight(token, claimed, local, o)
       PROVE  FilesInv'
  <2>1. PICK n \in Names \ Reserved :
               /\ profiles' = SavedProfiles([profiles EXCEPT ![n] = Trust(n)], o)
               /\ NoteTorn({o}) /\ UNCHANGED <<credentials, enrollments, sessions, elevated, accounts>>
    BY <1>13, Zenon DEF ChatPreflight
  <2> DEFINE level == Trust(n)
  <2>2. level \in TrustLevels
    BY <2>1, FilesNow DEF Trust, TrustLevels
  <2>3. torn' \in BOOLEAN
    BY <2>1, TornType
  <2>4. profiles' = SavedProfiles([profiles EXCEPT ![n] = level], o)
    BY <2>1
  <2> HIDE DEF level
  <2>5. profiles' \in [Names -> TrustLevels \cup {NoProfile}]
    BY <2>2, <2>4, SavedProfilesType
  <2> QED BY <2>1, <2>3, <2>5, FilesNow, FilesTogether
<1>14. CASE UNCHANGED accessVars
  BY <1>14, FilesNow, FilesTogether DEF accessVars
<1> QED
  BY <1>0, <1>1, <1>2, <1>3, <1>4, <1>5, <1>6, <1>7, <1>8, <1>9, <1>10, <1>11, <1>12, <1>13, <1>14 DEF AccessNext

\* The four files keep their types whatever writes fail or tear, and the count of
\* wrong passwords stops at MAX_FAILED_LOGIN_ATTEMPTS, where the account is locked.
THEOREM FilesAreTyped == AccessSpec => []AccessTypeOK
<1>1. FilesInv => AccessTypeOK
  BY DEF FilesInv
<1> QED
  BY <1>1, FilesInvInit, FilesInvStep, PTL DEF AccessSpec
=============================================================================
