-------------------------------- MODULE Accounts --------------------------------
(***************************************************************************)
(* Users, organisations, and what lets somebody in: verification links,    *)
(* password reset tokens, refresh tokens and API keys.                     *)
(*                                                                         *)
(* A request is one transaction.  What it reads before it writes, and that *)
(* another request may change meanwhile, is a step of its own; its writes  *)
(* are one step.  An audit row that cannot be written is only logged.      *)
(***************************************************************************)
EXTENDS Integers, FiniteSets

CONSTANTS
    Users, Orgs, Keys,  \* identities of rows
    Sessions,           \* refresh tokens, each with those it is exchanged for
    Tokens,             \* PasswordResetToken rows
    Emails,
    Requests,           \* requests in flight
    Nobody,             \* no user, organisation, address, token or key
    Founder, FirstOrg, FirstEmail, \* an owner, registered and verified before
    KeyLimit,           \* API_KEY_LIMIT
    MaxOperations       \* bound: requests that are made

ASSUME ConstantsAssumption ==
    /\ IsFiniteSet(Keys)
    /\ Founder \in Users /\ FirstOrg \in Orgs /\ FirstEmail \in Emails
    /\ Nobody \notin Users \cup Orgs \cup Keys \cup Tokens \cup Emails
    /\ KeyLimit \in Nat /\ MaxOperations \in Nat

VARIABLES
    user, org,  \* User and Organization rows
    link,       \* users whose verification link is in the cache
    token,      \* PasswordResetToken rows
    session,    \* refresh tokens
    key,        \* ApiKey rows
    request,    \* what each request is doing
    made,       \* requests that were made so far
    uses,       \* history: passwords set with a reset token
    raced       \* history: users verified while a registration had read them unverified

vars == <<user, org, link, token, session, key, request, made, uses, raced>>

rows    == <<user, org, link, token>>
history == <<uses, raced>>

\* A viewer may do what a member may; superadmins are not among the users.
UserRow == [state: {"none", "live", "gone"}, email: Emails \cup {Nobody},
            org: Orgs \cup {Nobody}, role: {"owner", "admin", "member"},
            verified: BOOLEAN, active: BOOLEAN, password: Nat]

NoUser == [state |-> "none", email |-> Nobody, org |-> Nobody, role |-> "member",
           verified |-> FALSE, active |-> TRUE, password |-> 0]

OrgRow == [state: {"none", "live", "gone"}, owner: Users \cup {Nobody}, active: BOOLEAN]

NoOrg == [state |-> "none", owner |-> Nobody, active |-> TRUE]

TokenRow == [state: {"none", "valid", "over"}, user: Users \cup {Nobody}]

NoToken == [state |-> "none", user |-> Nobody]

\* password is the one the login was checked against; recorded, whether the token is an
\* OutstandingToken, as those of a login are and those of a refresh are not.
SessionRow == [state: {"none", "valid", "over"}, user: Users \cup {Nobody}, password: Nat,
               recorded: BOOLEAN]

NoSession == [state |-> "none", user |-> Nobody, password |-> 0, recorded |-> FALSE]

\* by is created_by; a user that is gone stands for the NULL that its deletion leaves there.
KeyRow == [state: {"none", "live", "revoked", "gone"}, org: Orgs \cup {Nobody},
           by: Users \cup {Nobody}]

NoKey == [state |-> "none", org |-> Nobody, by |-> Nobody]

\* row is the copy of an API key that a request will save.
RequestState ==
    [pc: {"idle", "registering", "verifying", "loggingIn", "resetting", "counted", "authenticated"},
     user: Users \cup {Nobody}, org: Orgs \cup {Nobody}, email: Emails \cup {Nobody},
     token: Tokens \cup {Nobody}, key: Keys \cup {Nobody}, row: KeyRow, password: Nat]

Idle == [pc |-> "idle", user |-> Nobody, org |-> Nobody, email |-> Nobody, token |-> Nobody,
         key |-> Nobody, row |-> NoKey, password |-> 0]

\* The type invariant.
TypeOK ==
    /\ user \in [Users -> UserRow]
    /\ org \in [Orgs -> OrgRow]
    /\ link \subseteq Users
    /\ token \in [Tokens -> TokenRow]
    /\ session \in [Sessions -> SessionRow]
    /\ key \in [Keys -> KeyRow]
    /\ request \in [Requests -> RequestState]
    /\ made \in 0..MaxOperations
    /\ uses \in [Tokens -> Nat]
    /\ raced \subseteq Users

\* Mutant of OwnerOf: the role is taken from what the request says.
OwnerOfAnyRole(o, e) == [NoUser EXCEPT !.state = "live", !.email = e, !.org = o,
                                       !.role = "superadmin"]

OwnerOf(o, e) == [NoUser EXCEPT !.state = "live", !.email = e, !.org = o, !.role = "owner"]

Init ==
    /\ user = [u \in Users |-> IF u = Founder
                               THEN [OwnerOf(FirstOrg, FirstEmail) EXCEPT !.verified = TRUE]
                               ELSE NoUser]
    /\ org = [o \in Orgs |-> IF o = FirstOrg
                             THEN [NoOrg EXCEPT !.state = "live", !.owner = Founder] ELSE NoOrg]
    /\ link = {}
    /\ token = [t \in Tokens |-> NoToken]
    /\ session = [s \in Sessions |-> NoSession]
    /\ key = [k \in Keys |-> NoKey]
    /\ request = [q \in Requests |-> Idle]
    /\ made = 0
    /\ uses = [t \in Tokens |-> 0]
    /\ raced = {}

LiveUsers == {u \in Users : user[u].state = "live"}

LiveOrgs == {o \in Orgs : org[o].state = "live"}

Made == made < MaxOperations /\ made' = made + 1

Begin(q, state) ==
    /\ Made
    /\ request[q].pc = "idle"
    /\ request' = [request EXCEPT ![q] = state]

End(q) == request' = [request EXCEPT ![q] = Idle]

\* The request is refused, fails or is lost, and its transaction is rolled back.
Abort(q) ==
    /\ request[q].pc # "idle"
    /\ End(q)
    /\ UNCHANGED <<rows, session, key, history, made>>

\* JWTAuthentication requires that the user is active; ApiKeyAuthentication does not ask that
\* of the creator of a key, only that the organisation of the key is.
Authenticated(u) ==
    \/ user[u].active
    \/ \E k \in Keys : key[k].state = "live" /\ key[k].by = u /\ org[key[k].org].active

\* RequiresOrg and IsAdmin.
IsAdminOf(u, o) ==
    /\ u \in LiveUsers /\ Authenticated(u) /\ user[u].verified
    /\ o \in LiveOrgs /\ org[o].active /\ user[u].org = o
    /\ user[u].role \in {"owner", "admin"}

\* Mutant of OrgFree: the organisation is read without select_for_update.
OrgNotLocked(o) == TRUE

\* No creation of an API key holds the row lock of the organisation.
OrgFree(o) == \A q \in Requests : request[q].pc = "counted" => request[q].org # o

-----------------------------------------------------------------------------
(* register *)

\* Mutant of Replaceable: any account of that address.
ReplaceableAny(e) == {u \in LiveUsers : user[u].email = e}

\* Accounts of that address whose verification is outstanding: a registration replaces them.
Replaceable(e) == {u \in LiveUsers : user[u].email = e /\ ~user[u].verified}

\* The unverified account of the address, and its organisation, are read without a lock;
\* a verified one ends the request.
RegisterRead(q, e) ==
    /\ \/ \E u \in Replaceable(e) :
            Begin(q, [Idle EXCEPT !.pc = "registering", !.email = e, !.user = u,
                                  !.org = user[u].org])
       \/ /\ \A u \in LiveUsers : user[u].email # e
          /\ Begin(q, [Idle EXCEPT !.pc = "registering", !.email = e])
    /\ UNCHANGED <<rows, session, key, history>>

\* Both are deleted by primary key, whatever they have become; with the organisation go its
\* API keys and all its members lose it, with the user go the reset tokens.  Then the new
\* owner and organisation are created, and the link is cached when they are committed,
\* unless the process is lost.
RegisterCommit(q, new, o) ==
    LET e    == request[q].email
        old  == request[q].user
        oldO == request[q].org IN
    /\ request[q].pc = "registering"
    /\ user[new].state = "none" /\ org[o].state = "none"
    /\ \A u \in LiveUsers \ {old} : user[u].email # e
    /\ \A p \in LiveOrgs \ {oldO} : org[p].owner # old
    /\ oldO # Nobody => OrgFree(oldO)
    /\ user' = [u \in Users |->
                   IF u = new THEN OwnerOf(o, e)
                   ELSE IF u = old THEN [NoUser EXCEPT !.state = "gone"]
                   ELSE IF oldO # Nobody /\ user[u].org = oldO
                        THEN [user[u] EXCEPT !.org = Nobody] ELSE user[u]]
    /\ org' = [p \in Orgs |-> IF p = o THEN [NoOrg EXCEPT !.state = "live", !.owner = new]
                              ELSE IF p = oldO THEN [NoOrg EXCEPT !.state = "gone"] ELSE org[p]]
    /\ token' = [t \in Tokens |-> IF token[t].user = old /\ old # Nobody
                                  THEN [NoToken EXCEPT !.state = "over"] ELSE token[t]]
    /\ key' = [k \in Keys |-> IF oldO # Nobody /\ key[k].org = oldO
                               THEN [NoKey EXCEPT !.state = "gone"] ELSE key[k]]
    /\ \E stored \in {{new}, {}} : link' = (link \ {old}) \cup stored
    /\ End(q)
    /\ UNCHANGED <<session, history, made>>

-----------------------------------------------------------------------------
(* verify_email *)

VerifyRead(q, u) ==
    /\ u \in link \cap LiveUsers
    /\ Begin(q, [Idle EXCEPT !.pc = "verifying", !.user = u])
    /\ UNCHANGED <<rows, session, key, history>>

\* The link leaves the cache before the transaction ends: the flag may be lost with it.
VerifyCommit(q) ==
    LET u == request[q].user IN
    /\ request[q].pc = "verifying"
    /\ u \in LiveUsers
    /\ link' = link \ {u}
    /\ \/ /\ user' = [user EXCEPT ![u].verified = TRUE]
          /\ raced' = raced \cup {w \in {u} : \E r \in Requests : /\ request[r].pc = "registering"
                                                                  /\ request[r].user = w}
       \/ UNCHANGED <<user, raced>>
    /\ End(q)
    /\ UNCHANGED <<org, token, session, key, made, uses>>

\* The entry has a lifetime of 24 hours.
LinkExpires(u) ==
    /\ u \in link
    /\ link' = link \ {u}
    /\ UNCHANGED <<user, org, token, session, key, request, history, made>>

-----------------------------------------------------------------------------
(* login, refresh, logout *)

\* The password is right; a suspended organisation, a deactivated or unverified account
\* ends the request.
LoginCheck(q, u) ==
    /\ u \in LiveUsers
    /\ user[u].org # Nobody => org[user[u].org].active
    /\ user[u].active /\ user[u].verified
    /\ Begin(q, [Idle EXCEPT !.pc = "loggingIn", !.user = u, !.password = user[u].password])
    /\ UNCHANGED <<rows, session, key, history>>

\* RefreshToken.for_user records the token.
LoginIssue(q, s) ==
    /\ request[q].pc = "loggingIn"
    /\ request[q].user \in LiveUsers
    /\ session[s].state = "none"
    /\ session' = [session EXCEPT ![s] = [state |-> "valid", user |-> request[q].user,
                                          password |-> request[q].password,
                                          recorded |-> TRUE]]
    /\ End(q)
    /\ UNCHANGED <<rows, key, history, made>>

\* TokenRefreshView blacklists the token and answers with one that it does not record.
Refresh(s) ==
    /\ Made
    /\ session[s].state = "valid"
    /\ session' = [session EXCEPT ![s].recorded = FALSE]
    /\ UNCHANGED <<rows, key, request, history>>

Logout(s) ==
    /\ Made
    /\ session[s].state = "valid"
    /\ session' = [session EXCEPT ![s] = [NoSession EXCEPT !.state = "over"]]
    /\ UNCHANGED <<rows, key, request, history>>

-----------------------------------------------------------------------------
(* Password reset *)

CreateResetToken(t, u) ==
    /\ Made
    /\ u \in LiveUsers /\ user[u].active /\ user[u].email # Nobody
    /\ token[t].state = "none"
    /\ token' = [token EXCEPT ![t] = [state |-> "valid", user |-> u]]
    /\ UNCHANGED <<user, org, link, session, key, request, history>>

\* Mutant of TokenFree: the token is read without select_for_update.
TokenNotLocked(t) == TRUE

TokenFree(t) == \A q \in Requests : request[q].token # t

ConsumeRead(q, t) ==
    /\ token[t].state = "valid" /\ TokenFree(t)
    /\ Begin(q, [Idle EXCEPT !.pc = "resetting", !.token = t, !.user = token[t].user])
    /\ UNCHANGED <<rows, session, key, history>>

\* The password is set, and the recorded tokens of the user are blacklisted.
ConsumeCommit(q) ==
    LET t == request[q].token
        u == request[q].user IN
    /\ request[q].pc = "resetting"
    /\ u \in LiveUsers
    /\ token' = [token EXCEPT ![t].state = "over"]
    /\ uses' = [uses EXCEPT ![t] = @ + 1]
    /\ user' = [user EXCEPT ![u].password = @ + 1]
    /\ session' = [s \in Sessions |->
                      IF session[s].user = u /\ session[s].recorded
                      THEN [NoSession EXCEPT !.state = "over"] ELSE session[s]]
    /\ End(q)
    /\ UNCHANGED <<org, link, key, made, raced>>

\* A token lives for an hour; purge_expired_data deletes it later.
TokenExpires(t) ==
    /\ token[t].state = "valid" /\ TokenFree(t)
    /\ token' = [token EXCEPT ![t].state = "over"]
    /\ UNCHANGED <<user, org, link, session, key, request, history, made>>

-----------------------------------------------------------------------------
(* Members *)

\* Mutant of Joinable: an existing user is taken over from another organisation.
JoinableAny(u, o) == user[u].org # o

\* A user who belongs to an organisation already is refused.
Joinable(u, o) == user[u].org = Nobody

\* add_org_member: an existing user joins, or one is created that nobody sends a link to.
AddMember(c, o, e, role) ==
    /\ Made
    /\ IsAdminOf(c, o)
    /\ \/ \E u \in LiveUsers :
            /\ user[u].email = e /\ Joinable(u, o)
            /\ user' = [user EXCEPT ![u].org = o, ![u].role = role]
       \/ /\ \A u \in LiveUsers : user[u].email # e
          /\ \E u \in Users :
               /\ user[u].state = "none"
               /\ user' = [user EXCEPT ![u] = [NoUser EXCEPT !.state = "live", !.email = e,
                                                             !.org = o, !.role = role]]
    /\ UNCHANGED <<org, link, token, session, key, request, history>>

RemoveMember(c, o, u) ==
    /\ Made
    /\ IsAdminOf(c, o)
    /\ u \in LiveUsers /\ user[u].org = o
    /\ org[o].owner # u /\ u # c
    /\ user' = [user EXCEPT ![u].org = Nobody, ![u].role = "member"]
    /\ UNCHANGED <<org, link, token, session, key, request, history>>

\* gdpr_erase_user: the address is replaced and the account deactivated.
Erase(u) ==
    /\ Made
    /\ u \in LiveUsers /\ user[u].active
    /\ user' = [user EXCEPT ![u].email = Nobody, ![u].active = FALSE]
    /\ UNCHANGED <<org, link, token, session, key, request, history>>

\* PATCH of a user or of an organisation by a superadmin.
SuperadminPatch ==
    /\ Made
    /\ \/ \E u \in LiveUsers :
            /\ \/ \E active \in BOOLEAN : user' = [user EXCEPT ![u].active = active]
               \/ \E role \in {"owner", "admin", "member"} :
                    user' = [user EXCEPT ![u].role = role]
            /\ UNCHANGED org
       \/ \E o \in LiveOrgs :
            /\ OrgFree(o)
            /\ \E active \in BOOLEAN : org' = [org EXCEPT ![o].active = active]
            /\ UNCHANGED user
    /\ UNCHANGED <<link, token, session, key, request, uses, raced>>

-----------------------------------------------------------------------------
(* API keys; the plan's api_access may change between any two checks of it, so that each
   check may pass or fail *)

KeysOf(o) == {k \in Keys : key[k].state = "live" /\ key[k].org = o}

\* create_api_key: the organisation is locked and its keys are counted under the lock.
KeyCount(q, u, o) ==
    /\ IsAdminOf(u, o) /\ OrgFree(o)
    /\ Cardinality(KeysOf(o)) < KeyLimit
    /\ Begin(q, [Idle EXCEPT !.pc = "counted", !.user = u, !.org = o])
    /\ UNCHANGED <<rows, session, key, history>>

\* A name that is taken, also by a revoked key, makes the request fail.
KeyInsert(q, k) ==
    /\ request[q].pc = "counted"
    /\ key[k].state = "none"
    /\ request[q].user \in LiveUsers /\ request[q].org \in LiveOrgs
    /\ key' = [key EXCEPT ![k] = [state |-> "live", org |-> request[q].org,
                                     by |-> request[q].user]]
    /\ End(q)
    /\ UNCHANGED <<rows, session, history, made>>

\* revoke_api_key, by an admin of the organisation.
KeyRevoke(u, k) ==
    /\ Made
    /\ key[k].state = "live" /\ IsAdminOf(u, key[k].org)
    /\ key' = [key EXCEPT ![k].state = "revoked"]
    /\ UNCHANGED <<rows, session, request, history>>

\* ApiKeyAuthentication reads the key with its organisation.
KeyAuthenticate(q, k) ==
    /\ key[k].state = "live" /\ org[key[k].org].active
    /\ Begin(q, [Idle EXCEPT !.pc = "authenticated", !.key = k, !.row = key[k]])
    /\ UNCHANGED <<rows, session, key, history>>

\* Mutant of Touched: save() without update_fields writes the whole copy.
TouchedWhole(row, copy) == copy

\* save(update_fields=["last_used_at"]) leaves every other column alone.
Touched(row, copy) == row

KeyTouch(q) ==
    LET k == request[q].key IN
    /\ request[q].pc = "authenticated"
    /\ key[k].state # "gone"
    /\ key' = [key EXCEPT ![k] = Touched(@, request[q].row)]
    /\ End(q)
    /\ UNCHANGED <<rows, session, history, made>>

-----------------------------------------------------------------------------
RequestStep(q) ==
    \/ \E e \in Emails : RegisterRead(q, e)
    \/ \E u \in Users :
         \/ VerifyRead(q, u) \/ LoginCheck(q, u)
         \/ \E o \in Orgs : RegisterCommit(q, u, o) \/ KeyCount(q, u, o)
    \/ \E s \in Sessions : LoginIssue(q, s)
    \/ \E t \in Tokens : ConsumeRead(q, t)
    \/ \E k \in Keys : KeyInsert(q, k) \/ KeyAuthenticate(q, k)
    \/ VerifyCommit(q) \/ ConsumeCommit(q) \/ KeyTouch(q)
    \/ Abort(q)

Next ==
    \/ \E q \in Requests : RequestStep(q)
    \/ \E u \in Users :
         \/ LinkExpires(u) \/ Erase(u)
         \/ \E t \in Tokens : CreateResetToken(t, u)
         \/ \E k \in Keys : KeyRevoke(u, k)
         \/ \E o \in Orgs :
              \/ \E w \in Users : RemoveMember(u, o, w)
              \/ \E e \in Emails, role \in {"admin", "member"} : AddMember(u, o, e, role)
    \/ \E s \in Sessions : Refresh(s) \/ Logout(s)
    \/ \E t \in Tokens : TokenExpires(t)
    \/ SuperadminPatch

Spec == Init /\ [][Next]_vars

-----------------------------------------------------------------------------
(* Properties *)

\* An organisation always has an owner, who exists and belongs to it, and a user belongs to
\* no organisation that is deleted, whatever is registered, invited, removed and erased.
OwnerBelongs ==
    /\ \A o \in LiveOrgs : org[o].owner \in LiveUsers /\ user[org[o].owner].org = o
    /\ \A u \in LiveUsers : user[u].org \in LiveOrgs \cup {Nobody}

\* "Email already registered": no registration deletes a verified account -- but one that
\* was verified after the registration had read it.
VerifiedKept ==
    [][\A u \in LiveUsers : user[u].verified /\ user'[u].state = "gone" => u \in raced]_vars

\* A reset token sets one password, also when its link is followed twice at once.
ResetOnce == \A t \in Tokens : uses[t] <= 1

\* "Maximum 10 API keys per organization", however many requests create keys at once.
KeysWithinLimit == \A o \in Orgs : Cardinality(KeysOf(o)) <= KeyLimit

\* A key that is revoked stays so: a request that authenticated with it before, and notes
\* its use after, does not bring it back.
RevokedForever ==
    [][\A k \in Keys : key[k].state = "revoked" => key'[k].state \in {"revoked", "gone"}]_vars

\* "tokens_blacklisted": after a password reset no refresh token that goes back to the old
\* password is good for anything.
ResetEndsSessions ==
    \A s \in Sessions : session[s].state = "valid" /\ session[s].user \in LiveUsers
                           => session[s].password = user[session[s].user].password
=============================================================================
