----------------------------- MODULE AccountsProofs -----------------------------
(***************************************************************************)
(* Theorems about Accounts, for every set of users, organisations, tokens, *)
(* keys and requests: the type invariant, that organisations keep their    *)
(* owners, that no registration deletes a verified account, that a reset   *)
(* token is used once, that API keys stay within the limit and that a      *)
(* revoked one stays revoked.                                              *)
(***************************************************************************)
EXTENDS Accounts, FiniteSetTheorems, TLAPS

\* A registration has an address, and one whose account is verified by now has raced.
Racing ==
    /\ \A q \in Requests : request[q].pc = "registering" => request[q].email \in Emails
    /\ \A q \in Requests, u \in LiveUsers :
          request[q].pc = "registering" /\ request[q].user = u /\ user[u].verified => u \in raced

\* Whoever resets a password has locked a token that is valid as long as its user exists.
Resetting ==
    /\ \A t \in Tokens :
          /\ uses[t] <= 1
          /\ token[t].state \in {"none", "valid"} => uses[t] = 0
          /\ token[t].state = "valid" => /\ token[t].user \in Users
                                         /\ user[token[t].user].state # "none"
    /\ \A q \in Requests : request[q].pc = "resetting" =>
          /\ request[q].token \in Tokens /\ request[q].user \in Users
          /\ user[request[q].user].state # "none"
          /\ request[q].user \in LiveUsers =>
                /\ token[request[q].token].state = "valid"
                /\ token[request[q].token].user = request[q].user
    /\ \A q, r \in Requests :
          request[q].token # Nobody /\ request[q].token = request[r].token => q = r

\* Whoever has counted keys below the limit is alone with the organisation.
Counting ==
    /\ \A q \in Requests : request[q].pc = "counted" =>
          /\ request[q].org \in Orgs
          /\ Cardinality(KeysOf(request[q].org)) < KeyLimit
    /\ \A q, r \in Requests :
          /\ request[q].pc = "counted" /\ request[r].pc = "counted"
          /\ request[q].org = request[r].org
          => q = r

\* The inductive invariant.
AccountsInv == TypeOK /\ OwnerBelongs /\ Racing /\ Resetting /\ Counting /\ KeysWithinLimit

LEMMA BlankTypes ==
  /\ NoUser \in UserRow /\ NoUser.state = "none" /\ NoUser.verified = FALSE
  /\ NoUser.org = Nobody
  /\ NoOrg \in OrgRow /\ NoOrg.state = "none" /\ NoOrg.owner = Nobody
  /\ NoToken \in TokenRow /\ NoToken.state = "none" /\ NoToken.user = Nobody
  /\ NoSession \in SessionRow
  /\ NoKey \in KeyRow /\ NoKey.state = "none" /\ NoKey.org = Nobody
  BY DEF NoUser, UserRow, NoOrg, OrgRow, NoToken, TokenRow, NoSession, SessionRow, NoKey, KeyRow

LEMMA IdleType == /\ Idle \in RequestState
                  /\ Idle.pc = "idle" /\ Idle.token = Nobody /\ Idle.user = Nobody
  BY BlankTypes DEF Idle, RequestState

LEMMA OwnerType ==
  ASSUME NEW o \in Orgs, NEW e \in Emails
  PROVE  /\ OwnerOf(o, e) \in UserRow
         /\ OwnerOf(o, e).state = "live" /\ OwnerOf(o, e).org = o
         /\ OwnerOf(o, e).verified = FALSE
  BY BlankTypes DEF OwnerOf, UserRow

-----------------------------------------------------------------------------
(* Reads *)

\* A request that begins with a read, or ends with nothing written.
Reads == UNCHANGED <<rows, session, key, history>>

\* What a request has read when it begins.
Begun(q, state) ==
    /\ state \in RequestState /\ state.pc # "idle"
    /\ request[q].pc = "idle"
    /\ made' \in 0..MaxOperations
    /\ request' = [request EXCEPT ![q] = state]

\* What each read finds.
Found(state) ==
    /\ state.pc = "registering" => state.email \in Emails
    /\ state.pc = "registering" /\ state.user \in LiveUsers => ~user[state.user].verified
    /\ state.pc = "resetting" =>
          /\ state.token \in Tokens /\ TokenFree(state.token)
          /\ token[state.token].state = "valid" /\ token[state.token].user = state.user
    /\ state.pc # "resetting" => state.token = Nobody
    /\ state.pc = "counted" =>
          /\ state.org \in Orgs /\ OrgFree(state.org)
          /\ Cardinality(KeysOf(state.org)) < KeyLimit

\* The requests that begin.
ReadStep(q) == \/ \E e \in Emails : RegisterRead(q, e)
               \/ \E u \in Users : VerifyRead(q, u) \/ LoginCheck(q, u)
               \/ \E u \in Users, o \in Orgs : KeyCount(q, u, o)
               \/ \E t \in Tokens : ConsumeRead(q, t)
               \/ \E k \in Keys : KeyAuthenticate(q, k)

LEMMA MadeStep == TypeOK /\ Made => made' \in 0..MaxOperations
  BY ConstantsAssumption DEF TypeOK, Made

LEMMA ReadSteps ==
  ASSUME AccountsInv, NEW q \in Requests, ReadStep(q)
  PROVE  Reads /\ \E state : Begun(q, state) /\ Found(state)
<1> USE BlankTypes, IdleType, MadeStep DEF AccountsInv
<1>1. CASE \E e \in Emails : RegisterRead(q, e)
  <2>1. PICK e \in Emails : RegisterRead(q, e)
    BY <1>1
  <2>2. CASE \E u \in Replaceable(e) :
               Begin(q, [Idle EXCEPT !.pc = "registering", !.email = e, !.user = u,
                                     !.org = user[u].org])
    <3>1. PICK u \in Replaceable(e) :
               Begin(q, [Idle EXCEPT !.pc = "registering", !.email = e, !.user = u,
                                     !.org = user[u].org])
      BY <2>2
    <3> DEFINE state == [Idle EXCEPT !.pc = "registering", !.email = e, !.user = u,
                                     !.org = user[u].org]
    <3>2. u \in Users /\ user[u].org \in Orgs \cup {Nobody} /\ ~user[u].verified
      BY DEF TypeOK, Replaceable, LiveUsers, UserRow
    <3>3. /\ state \in RequestState
          /\ state.pc = "registering" /\ state.user = u /\ state.token = Nobody
          /\ state.email = e
      BY <3>2 DEF RequestState
    <3>4. Begun(q, state)
      BY <3>1, <3>3 DEF Begun, Begin
    <3>5. Found(state)
      BY <3>2, <3>3 DEF Found
    <3> QED
      BY <2>1, <3>4, <3>5 DEF RegisterRead, Reads
  <2>3. CASE Begin(q, [Idle EXCEPT !.pc = "registering", !.email = e])
    <3> DEFINE state == [Idle EXCEPT !.pc = "registering", !.email = e]
    <3>1. /\ state \in RequestState
          /\ state.pc = "registering" /\ state.user = Nobody /\ state.token = Nobody
          /\ state.email = e
      BY DEF RequestState
    <3>2. Begun(q, state)
      BY <2>3, <3>1 DEF Begun, Begin
    <3>3. Found(state)
      BY <3>1, ConstantsAssumption DEF Found, LiveUsers
    <3> QED
      BY <2>1, <3>2, <3>3 DEF RegisterRead, Reads
  <2> QED
    BY <2>1, <2>2, <2>3 DEF RegisterRead
<1>2. ASSUME NEW u \in Users, VerifyRead(q, u)
      PROVE  Reads /\ \E state : Begun(q, state) /\ Found(state)
  <2> DEFINE state == [Idle EXCEPT !.pc = "verifying", !.user = u]
  <2>1. state \in RequestState /\ state.pc = "verifying" /\ state.token = Nobody
    BY DEF RequestState
  <2>2. Begun(q, state) /\ Found(state)
    BY <1>2, <2>1 DEF VerifyRead, Begin, Begun, Found
  <2> QED
    BY <1>2, <2>2 DEF VerifyRead, Reads
<1>3. ASSUME NEW u \in Users, LoginCheck(q, u)
      PROVE  Reads /\ \E state : Begun(q, state) /\ Found(state)
  <2> DEFINE state == [Idle EXCEPT !.pc = "loggingIn", !.user = u, !.password = user[u].password]
  <2>1. state \in RequestState /\ state.pc = "loggingIn" /\ state.token = Nobody
    BY DEF RequestState, TypeOK, UserRow
  <2>2. Begun(q, state) /\ Found(state)
    BY <1>3, <2>1 DEF LoginCheck, Begin, Begun, Found
  <2> QED
    BY <1>3, <2>2 DEF LoginCheck, Reads
<1>4. ASSUME NEW u \in Users, NEW o \in Orgs, KeyCount(q, u, o)
      PROVE  Reads /\ \E state : Begun(q, state) /\ Found(state)
  <2> DEFINE state == [Idle EXCEPT !.pc = "counted", !.user = u, !.org = o]
  <2>1. state \in RequestState /\ state.pc = "counted" /\ state.org = o /\ state.token = Nobody
    BY DEF RequestState
  <2>2. Begun(q, state) /\ Found(state)
    BY <1>4, <2>1 DEF KeyCount, Begin, Begun, Found
  <2> QED
    BY <1>4, <2>2 DEF KeyCount, Reads
<1>5. ASSUME NEW t \in Tokens, ConsumeRead(q, t)
      PROVE  Reads /\ \E state : Begun(q, state) /\ Found(state)
  <2> DEFINE state == [Idle EXCEPT !.pc = "resetting", !.token = t, !.user = token[t].user]
  <2>1. /\ state \in RequestState
        /\ state.pc = "resetting" /\ state.token = t /\ state.user = token[t].user
    BY DEF RequestState, TypeOK, TokenRow
  <2>2. Begun(q, state) /\ Found(state)
    BY <1>5, <2>1 DEF ConsumeRead, Begin, Begun, Found
  <2> QED
    BY <1>5, <2>2 DEF ConsumeRead, Reads
<1>6. ASSUME NEW k \in Keys, KeyAuthenticate(q, k)
      PROVE  Reads /\ \E state : Begun(q, state) /\ Found(state)
  <2> DEFINE state == [Idle EXCEPT !.pc = "authenticated", !.key = k, !.row = key[k]]
  <2>1. state \in RequestState /\ state.pc = "authenticated" /\ state.token = Nobody
    BY DEF RequestState, TypeOK
  <2>2. Begun(q, state) /\ Found(state)
    BY <1>6, <2>1 DEF KeyAuthenticate, Begin, Begun, Found
  <2> QED
    BY <1>6, <2>2 DEF KeyAuthenticate, Reads
<1> QED
  BY <1>1, <1>2, <1>3, <1>4, <1>5, <1>6 DEF ReadStep

\* A read keeps the invariant.
LEMMA ReadKeeps ==
  ASSUME AccountsInv, NEW q \in Requests, ReadStep(q)
  PROVE  AccountsInv'
<1>1. Reads
  BY ReadSteps
<1>2. PICK state : Begun(q, state) /\ Found(state)
  BY ReadSteps
<1>3. /\ request' \in [Requests -> RequestState] /\ made' \in 0..MaxOperations
      /\ request'[q] = state
      /\ \A r \in Requests : r # q => request'[r] = request[r]
  BY <1>2 DEF Begun, AccountsInv, TypeOK
<1>4. TypeOK'
  BY <1>1, <1>3 DEF AccountsInv, TypeOK, Reads, rows, history
<1>5. OwnerBelongs'
  BY <1>1 DEF AccountsInv, OwnerBelongs, LiveOrgs, LiveUsers, Reads, rows
<1>6. Racing'
  BY <1>1, <1>2, <1>3 DEF AccountsInv, Racing, Found, LiveUsers, Reads, rows, history
<1>7. Resetting'
  <2>1. state.token # Nobody => state.token \in Tokens /\ TokenFree(state.token)
    BY <1>2 DEF Found
  <2>2. state.pc = "resetting" =>
           /\ state.token \in Tokens /\ state.user \in Users
           /\ user[state.user].state # "none"
           /\ token[state.token].state = "valid" /\ token[state.token].user = state.user
    BY <1>2 DEF Found, AccountsInv, Resetting
  <2>3. \A p, r \in Requests :
           request'[p].token # Nobody /\ request'[p].token = request'[r].token => p = r
    BY <1>3, <2>1 DEF AccountsInv, Resetting, TokenFree
  <2> QED
    BY <1>1, <1>3, <2>2, <2>3 DEF AccountsInv, Resetting, LiveUsers, Reads, rows, history
<1>8. Counting' /\ KeysWithinLimit'
  <2>1. state.pc = "counted" =>
           /\ state.org \in Orgs /\ OrgFree(state.org)
           /\ Cardinality(KeysOf(state.org)) < KeyLimit
    BY <1>2 DEF Found
  <2>2. UNCHANGED <<org, key>>
    BY <1>1 DEF Reads, rows
  <2> QED
    BY <1>3, <2>1, <2>2
    DEF AccountsInv, Counting, KeysWithinLimit, KeysOf, OrgFree, LiveOrgs
<1> QED
  BY <1>4, <1>5, <1>6, <1>7, <1>8 DEF AccountsInv

-----------------------------------------------------------------------------
(* Writes *)

\* The requests after one has ended: it holds nothing, and the others go on.
Ended(q) == /\ request' \in [Requests -> RequestState]
            /\ request'[q] = Idle
            /\ \A r \in Requests : r # q => request'[r] = request[r]

LEMMA EndStep == ASSUME TypeOK, NEW q \in Requests, End(q) PROVE Ended(q)
  BY IdleType DEF TypeOK, End, Ended

\* What the invariant says of requests is kept where their rows are.
LEMMA RequestsKept ==
  ASSUME AccountsInv, UNCHANGED request \/ \E q \in Requests : Ended(q)
  PROVE  /\ request' \in [Requests -> RequestState]
         /\ UNCHANGED <<user, raced>> => Racing'
         /\ UNCHANGED <<user, token, uses>> => Resetting'
         /\ UNCHANGED key => Counting'
<1> USE IdleType DEF AccountsInv
<1>1. request' \in [Requests -> RequestState]
  BY DEF TypeOK, Ended
<1>2. \A q \in Requests : request'[q] = request[q] \/ request'[q] = Idle
  BY DEF Ended
<1>3. ASSUME UNCHANGED <<user, raced>> PROVE Racing'
  BY <1>2, <1>3 DEF Racing, LiveUsers
<1>4. ASSUME UNCHANGED <<user, token, uses>> PROVE Resetting'
  BY <1>2, <1>4 DEF Resetting, LiveUsers
<1>5. ASSUME UNCHANGED key PROVE Counting'
  BY <1>2, <1>5 DEF Counting, KeysOf
<1> QED
  BY <1>1, <1>3, <1>4, <1>5

LEMMA AbortStep == ASSUME AccountsInv, NEW q \in Requests, Abort(q) PROVE AccountsInv'
<1>1. Ended(q) /\ UNCHANGED <<rows, session, key, history, made>>
  BY EndStep DEF Abort, AccountsInv
<1>2. TypeOK' /\ OwnerBelongs' /\ KeysWithinLimit'
  BY <1>1 DEF AccountsInv, TypeOK, OwnerBelongs, KeysWithinLimit, KeysOf, LiveUsers, LiveOrgs,
              Ended, rows, history
<1> QED
  BY <1>1, <1>2, RequestsKept DEF AccountsInv, rows, history

LEMMA VerifyCommitStep ==
  ASSUME AccountsInv, NEW q \in Requests, VerifyCommit(q)
  PROVE  AccountsInv'
<1> PICK u : u = request[q].user
  OBVIOUS
<1>1. /\ u \in LiveUsers /\ u \in Users /\ Ended(q)
      /\ link' = link \ {u}
      /\ UNCHANGED <<org, token, session, key, made, uses>>
      /\ \/ /\ user' = [user EXCEPT ![u].verified = TRUE]
            /\ raced' = raced \cup {w \in {u} : \E r \in Requests : /\ request[r].pc = "registering"
                                                                    /\ request[r].user = w}
         \/ UNCHANGED <<user, raced>>
  BY EndStep DEF VerifyCommit, AccountsInv, LiveUsers
<1>2. CASE UNCHANGED <<user, raced>>
  <2>1. TypeOK' /\ OwnerBelongs' /\ KeysWithinLimit'
    BY <1>1, <1>2 DEF AccountsInv, TypeOK, OwnerBelongs, KeysWithinLimit, KeysOf, LiveUsers,
                      LiveOrgs, Ended
  <2> QED
    BY <1>1, <1>2, <2>1, RequestsKept DEF AccountsInv
<1>3. CASE /\ user' = [user EXCEPT ![u].verified = TRUE]
           /\ raced' = raced \cup {w \in {u} : \E r \in Requests : /\ request[r].pc = "registering"
                                                                   /\ request[r].user = w}
  <2>1. /\ user' \in [Users -> UserRow]
        /\ \A w \in Users : /\ user'[w].state = user[w].state /\ user'[w].org = user[w].org
                            /\ w # u => user'[w] = user[w]
    <3>1. user \in [Users -> UserRow]
      BY DEF AccountsInv, TypeOK
    <3> DEFINE row == [user[u] EXCEPT !.verified = TRUE]
    <3>2. row \in UserRow /\ row.state = user[u].state /\ row.org = user[u].org
      BY <1>1, <3>1 DEF UserRow
    <3>3. user' = [user EXCEPT ![u] = row]
      BY <1>3
    <3> HIDE DEF row
    <3> QED
      BY <1>1, <3>1, <3>2, <3>3
  <2>2. LiveUsers' = LiveUsers /\ LiveOrgs' = LiveOrgs
    BY <1>1, <2>1 DEF LiveUsers, LiveOrgs
  <2>3. raced' \subseteq Users
    BY <1>1, <1>3 DEF AccountsInv, TypeOK
  <2>4. TypeOK'
    BY <1>1, <2>1, <2>3 DEF AccountsInv, TypeOK, Ended
  <2>5. OwnerBelongs' /\ KeysWithinLimit'
    BY <1>1, <2>1, <2>2 DEF AccountsInv, OwnerBelongs, KeysWithinLimit, KeysOf, LiveUsers, LiveOrgs
  <2>6. Racing'
    <3>1. ASSUME NEW r \in Requests, NEW w \in LiveUsers, request'[r].pc = "registering",
                 request'[r].user = w, user'[w].verified
          PROVE  w \in raced'
      <4>1. request'[r] = request[r]
        BY <1>1, <3>1, IdleType DEF Ended
      <4>2. CASE w = u
        BY <1>3, <3>1, <4>1, <4>2
      <4>3. CASE w # u
        <5>1. w \in raced
          BY <2>1, <3>1, <4>1, <4>3 DEF AccountsInv, Racing, LiveUsers
        <5> QED
          BY <1>3, <5>1
      <4> QED
        BY <4>2, <4>3
    <3>2. \A r \in Requests : request'[r] = request[r] \/ request'[r] = Idle
      BY <1>1 DEF Ended
    <3>3. \A r \in Requests : request'[r].pc = "registering" => request'[r].email \in Emails
      BY <3>2, IdleType DEF AccountsInv, Racing
    <3> QED
      BY <2>2, <3>1, <3>3 DEF Racing
  <2>7. Resetting'
    <3>1. \A r \in Requests : request'[r] = request[r] \/ request'[r] = Idle
      BY <1>1 DEF Ended
    <3> QED
      BY <1>1, <2>1, <2>2, <3>1, IdleType DEF AccountsInv, Resetting, TypeOK
  <2>8. Counting'
    BY <1>1, RequestsKept
  <2> QED
    BY <2>4, <2>5, <2>6, <2>7, <2>8 DEF AccountsInv
<1> QED
  BY <1>1, <1>2, <1>3

\* Steps that write neither users nor organisations nor tokens nor keys.
LEMMA SessionStep ==
  ASSUME AccountsInv,
         \/ \E q \in Requests, s \in Sessions : LoginIssue(q, s)
         \/ \E s \in Sessions : Refresh(s) \/ Logout(s)
         \/ \E u \in Users : LinkExpires(u)
  PROVE  AccountsInv'
<1>1. /\ UNCHANGED <<user, org, token, key, uses, raced>>
      /\ link' \subseteq link
      /\ made' \in 0..MaxOperations
  BY MadeStep DEF LoginIssue, Refresh, Logout, LinkExpires, rows, history, AccountsInv, TypeOK
<1>2. UNCHANGED request \/ \E q \in Requests : Ended(q)
  BY EndStep DEF LoginIssue, Refresh, Logout, LinkExpires, AccountsInv
<1>3. session' \in [Sessions -> SessionRow]
  <2>1. ASSUME NEW q \in Requests, NEW s \in Sessions, LoginIssue(q, s)
        PROVE  session' \in [Sessions -> SessionRow]
    BY <2>1 DEF LoginIssue, AccountsInv, TypeOK, RequestState, SessionRow, LiveUsers
  <2>2. ASSUME NEW s \in Sessions, Refresh(s) \/ Logout(s)
        PROVE  session' \in [Sessions -> SessionRow]
    <3>1. session \in [Sessions -> SessionRow]
      BY DEF AccountsInv, TypeOK
    <3>2. CASE Refresh(s)
      BY <3>1, <3>2 DEF Refresh, SessionRow
    <3>3. CASE Logout(s)
      BY <3>1, <3>3, BlankTypes DEF Logout, SessionRow
    <3> QED
      BY <2>2, <3>2, <3>3
  <2>3. ASSUME NEW u \in Users, LinkExpires(u) PROVE session' \in [Sessions -> SessionRow]
    BY <2>3 DEF LinkExpires, AccountsInv, TypeOK
  <2> QED
    BY <2>1, <2>2, <2>3
<1>4. TypeOK'
  BY <1>1, <1>2, <1>3, RequestsKept DEF AccountsInv, TypeOK
<1>5. OwnerBelongs' /\ KeysWithinLimit'
  BY <1>1 DEF AccountsInv, OwnerBelongs, KeysWithinLimit, KeysOf, LiveUsers, LiveOrgs
<1> QED
  BY <1>1, <1>2, <1>4, <1>5, RequestsKept DEF AccountsInv

\* What writes to users leave of the requests' part: nobody comes back, and nobody becomes
\* verified.
LEMMA UsersWritten ==
  ASSUME AccountsInv, UNCHANGED <<token, uses, raced>>,
         UNCHANGED request \/ \E q \in Requests : Ended(q),
         \A u \in Users : /\ user[u].state # "none" => user'[u].state # "none"
                          /\ user[u].state # "none" /\ user'[u].state = "live"
                                => user[u].state = "live"
                          /\ user'[u].state = "live" /\ user'[u].verified
                                => user[u].state = "live" /\ user[u].verified
  PROVE  Racing' /\ Resetting'
<1>1. \A q \in Requests : request'[q] = request[q] \/ request'[q] = Idle
  BY DEF Ended
<1>2. Racing'
  BY <1>1, IdleType DEF AccountsInv, Racing, LiveUsers
<1>3. \A t \in Tokens : token[t].state = "valid" => /\ token[t].user \in Users
                                                    /\ user'[token[t].user].state # "none"
  BY DEF AccountsInv, Resetting
<1>4. ASSUME NEW q \in Requests, request'[q].pc = "resetting"
      PROVE  /\ request'[q].token \in Tokens /\ request'[q].user \in Users
             /\ user'[request'[q].user].state # "none"
             /\ request'[q].user \in LiveUsers' =>
                   /\ token[request'[q].token].state = "valid"
                   /\ token[request'[q].token].user = request'[q].user
  BY <1>1, <1>4, IdleType DEF AccountsInv, Resetting, LiveUsers
<1>5. \A q, r \in Requests :
         request'[q].token # Nobody /\ request'[q].token = request'[r].token => q = r
  BY <1>1, IdleType DEF AccountsInv, Resetting
<1> QED
  BY <1>2, <1>3, <1>4, <1>5 DEF AccountsInv, Resetting

LEMMA AddMemberStep ==
  ASSUME AccountsInv, NEW c \in Users, NEW o \in Orgs, NEW e \in Emails,
         NEW role \in {"admin", "member"}, AddMember(c, o, e, role)
  PROVE  AccountsInv'
<1>1. /\ UNCHANGED <<org, link, token, session, key, request, uses, raced>>
      /\ made' \in 0..MaxOperations /\ o \in LiveOrgs
  BY MadeStep DEF AddMember, IsAdminOf, history, AccountsInv
<1>2. user \in [Users -> UserRow]
  BY DEF AccountsInv, TypeOK
<1>3. PICK u \in Users : \E row :
         /\ user' = [user EXCEPT ![u] = row]
         /\ row \in UserRow /\ row.state = "live" /\ row.org = o
         /\ \/ u \in LiveUsers /\ user[u].org = Nobody /\ row.verified = user[u].verified
            \/ user[u].state = "none" /\ row.verified = FALSE
  <2>1. ASSUME NEW u \in LiveUsers, user[u].org = Nobody,
               user' = [user EXCEPT ![u].org = o, ![u].role = role]
        PROVE  /\ u \in Users
               /\ user' = [user EXCEPT ![u] = [user[u] EXCEPT !.org = o, !.role = role]]
               /\ [user[u] EXCEPT !.org = o, !.role = role] \in UserRow
               /\ [user[u] EXCEPT !.org = o, !.role = role].state = "live"
               /\ [user[u] EXCEPT !.org = o, !.role = role].org = o
               /\ [user[u] EXCEPT !.org = o, !.role = role].verified = user[u].verified
    <3>1. u \in Users /\ user[u] \in UserRow /\ user[u].state = "live"
      BY <1>2 DEF LiveUsers
    <3>2. user' = [user EXCEPT ![u] = [user[u] EXCEPT !.org = o, !.role = role]]
      BY <1>2, <2>1, <3>1
    <3> QED
      BY <3>1, <3>2 DEF UserRow
  <2>2. ASSUME NEW u \in Users, user[u].state = "none",
               user' = [user EXCEPT ![u] = [NoUser EXCEPT !.state = "live", !.email = e,
                                                          !.org = o, !.role = role]]
        PROVE  \E row : /\ user' = [user EXCEPT ![u] = row]
                        /\ row \in UserRow /\ row.state = "live" /\ row.org = o
                        /\ row.verified = FALSE
    <3> DEFINE row == [NoUser EXCEPT !.state = "live", !.email = e, !.org = o, !.role = role]
    <3>1. row \in UserRow /\ row.state = "live" /\ row.org = o /\ row.verified = FALSE
      BY BlankTypes DEF UserRow
    <3> QED
      BY <2>2, <3>1
  <2> QED
    BY <2>1, <2>2 DEF AddMember, Joinable
<1>4. PICK row :
         /\ user' = [user EXCEPT ![u] = row]
         /\ row \in UserRow /\ row.state = "live" /\ row.org = o
         /\ \/ u \in LiveUsers /\ user[u].org = Nobody /\ row.verified = user[u].verified
            \/ user[u].state = "none" /\ row.verified = FALSE
  BY <1>3
<1>5. /\ user' \in [Users -> UserRow] /\ user'[u] = row
      /\ \A w \in Users : w # u => user'[w] = user[w]
  BY <1>2, <1>4
<1>6. TypeOK' /\ KeysWithinLimit' /\ Counting'
  BY <1>1, <1>5, RequestsKept DEF AccountsInv, TypeOK, KeysWithinLimit, KeysOf, LiveOrgs
<1>7. OwnerBelongs'
  <2>1. \A p \in LiveOrgs : org[p].owner # u
    BY <1>2, <1>4, ConstantsAssumption DEF AccountsInv, OwnerBelongs, LiveUsers, LiveOrgs
  <2> QED
    BY <1>1, <1>4, <1>5, <2>1 DEF AccountsInv, OwnerBelongs, LiveUsers, LiveOrgs
<1>8. Racing' /\ Resetting'
  <2>1. \A w \in Users : /\ user[w].state # "none" => user'[w].state # "none"
                         /\ user[w].state # "none" /\ user'[w].state = "live"
                               => user[w].state = "live"
                         /\ user'[w].state = "live" /\ user'[w].verified
                               => user[w].state = "live" /\ user[w].verified
    BY <1>4, <1>5 DEF LiveUsers
  <2> QED
    BY <1>1, <2>1, UsersWritten
<1> QED
  BY <1>6, <1>7, <1>8 DEF AccountsInv

\* The other writes to a user keep its existence and its verification, and no owner leaves.
LEMMA UserPatchStep ==
  ASSUME AccountsInv, NEW u \in LiveUsers, NEW row \in UserRow,
         user' = [user EXCEPT ![u] = row],
         row.state = "live", row.verified = user[u].verified,
         row.org = user[u].org \/ (row.org = Nobody /\ \A o \in LiveOrgs : org[o].owner # u),
         UNCHANGED <<org, link, token, session, key, request, uses, raced>>,
         made' \in 0..MaxOperations
  PROVE  AccountsInv'
<1>1. user \in [Users -> UserRow] /\ u \in Users
  BY DEF AccountsInv, TypeOK, LiveUsers
<1>2. /\ user' \in [Users -> UserRow] /\ user'[u] = row
      /\ \A w \in Users : w # u => user'[w] = user[w]
  BY <1>1
<1>3. TypeOK' /\ KeysWithinLimit' /\ Counting'
  BY <1>2, RequestsKept DEF AccountsInv, TypeOK, KeysWithinLimit, KeysOf, LiveOrgs
<1>4. OwnerBelongs'
  BY <1>1, <1>2 DEF AccountsInv, OwnerBelongs, LiveUsers, LiveOrgs
<1>5. Racing' /\ Resetting'
  <2>1. \A w \in Users : /\ user[w].state # "none" => user'[w].state # "none"
                         /\ user[w].state # "none" /\ user'[w].state = "live"
                               => user[w].state = "live"
                         /\ user'[w].state = "live" /\ user'[w].verified
                               => user[w].state = "live" /\ user[w].verified
    BY <1>2 DEF LiveUsers
  <2> QED
    BY <2>1, UsersWritten
<1> QED
  BY <1>3, <1>4, <1>5 DEF AccountsInv

LEMMA RemoveMemberStep ==
  ASSUME AccountsInv, NEW c \in Users, NEW o \in Orgs, NEW u \in Users, RemoveMember(c, o, u)
  PROVE  AccountsInv'
<1> DEFINE row == [user[u] EXCEPT !.org = Nobody, !.role = "member"]
<1>1. u \in LiveUsers /\ user[u] \in UserRow /\ user[u].state = "live"
  BY DEF RemoveMember, AccountsInv, TypeOK, LiveUsers
<1>2. /\ row \in UserRow /\ row.state = "live" /\ row.verified = user[u].verified
      /\ row.org = Nobody
  BY <1>1 DEF UserRow
<1>3. user' = [user EXCEPT ![u] = row]
  BY <1>1 DEF RemoveMember, AccountsInv, TypeOK
<1>4. \A p \in LiveOrgs : org[p].owner # u
  BY DEF RemoveMember, AccountsInv, OwnerBelongs, LiveOrgs
<1>5. /\ UNCHANGED <<org, link, token, session, key, request, uses, raced>>
      /\ made' \in 0..MaxOperations
  BY MadeStep DEF RemoveMember, history, AccountsInv
<1> HIDE DEF row
<1> QED
  BY <1>1, <1>2, <1>3, <1>4, <1>5, UserPatchStep

LEMMA EraseStep == ASSUME AccountsInv, NEW u \in Users, Erase(u) PROVE AccountsInv'
<1> DEFINE row == [user[u] EXCEPT !.email = Nobody, !.active = FALSE]
<1>1. u \in LiveUsers /\ user[u] \in UserRow /\ user[u].state = "live"
  BY DEF Erase, AccountsInv, TypeOK, LiveUsers
<1>2. /\ row \in UserRow /\ row.state = "live" /\ row.verified = user[u].verified
      /\ row.org = user[u].org
  BY <1>1 DEF UserRow
<1>3. user' = [user EXCEPT ![u] = row]
  BY <1>1 DEF Erase, AccountsInv, TypeOK
<1>4. /\ UNCHANGED <<org, link, token, session, key, request, uses, raced>>
      /\ made' \in 0..MaxOperations
  BY MadeStep DEF Erase, history, AccountsInv
<1> HIDE DEF row
<1> QED
  BY <1>1, <1>2, <1>3, <1>4, UserPatchStep

LEMMA SuperadminStep == ASSUME AccountsInv, SuperadminPatch PROVE AccountsInv'
<1>1. UNCHANGED <<link, token, session, key, request, uses, raced>> /\ made' \in 0..MaxOperations
  BY MadeStep DEF SuperadminPatch, AccountsInv
<1>2. user \in [Users -> UserRow] /\ org \in [Orgs -> OrgRow]
  BY DEF AccountsInv, TypeOK
<1>3. ASSUME NEW u \in LiveUsers, NEW active \in BOOLEAN, UNCHANGED org,
             user' = [user EXCEPT ![u].active = active]
      PROVE  AccountsInv'
  <2> DEFINE row == [user[u] EXCEPT !.active = active]
  <2>1. user[u] \in UserRow /\ user[u].state = "live"
    BY <1>2 DEF LiveUsers
  <2>2. /\ row \in UserRow /\ row.state = "live" /\ row.verified = user[u].verified
        /\ row.org = user[u].org
    BY <2>1 DEF UserRow
  <2>3. user' = [user EXCEPT ![u] = row]
    BY <1>3
  <2> HIDE DEF row
  <2> QED
    BY <1>1, <1>3, <2>2, <2>3, UserPatchStep
<1>4. ASSUME NEW u \in LiveUsers, NEW role \in {"owner", "admin", "member"}, UNCHANGED org,
             user' = [user EXCEPT ![u].role = role]
      PROVE  AccountsInv'
  <2> DEFINE row == [user[u] EXCEPT !.role = role]
  <2>1. user[u] \in UserRow /\ user[u].state = "live"
    BY <1>2 DEF LiveUsers
  <2>2. /\ row \in UserRow /\ row.state = "live" /\ row.verified = user[u].verified
        /\ row.org = user[u].org
    BY <2>1 DEF UserRow
  <2>3. user' = [user EXCEPT ![u] = row]
    BY <1>4
  <2> HIDE DEF row
  <2> QED
    BY <1>1, <1>4, <2>2, <2>3, UserPatchStep
<1>5. ASSUME NEW o \in LiveOrgs, NEW active \in BOOLEAN, UNCHANGED user,
             org' = [org EXCEPT ![o].active = active]
      PROVE  AccountsInv'
  <2> DEFINE row == [org[o] EXCEPT !.active = active]
  <2>1. o \in Orgs /\ row \in OrgRow /\ row.state = org[o].state /\ row.owner = org[o].owner
    BY <1>2 DEF LiveOrgs, OrgRow
  <2>2. org' = [org EXCEPT ![o] = row]
    BY <1>5
  <2> HIDE DEF row
  <2>3. /\ org' \in [Orgs -> OrgRow]
        /\ \A p \in Orgs : org'[p].state = org[p].state /\ org'[p].owner = org[p].owner
    BY <1>2, <2>1, <2>2
  <2>4. LiveOrgs' = LiveOrgs /\ LiveUsers' = LiveUsers
    BY <1>5, <2>3 DEF LiveOrgs, LiveUsers
  <2>5. TypeOK'
    BY <1>1, <1>5, <2>3 DEF AccountsInv, TypeOK
  <2>6. OwnerBelongs'
    BY <1>5, <2>3, <2>4 DEF AccountsInv, OwnerBelongs, LiveOrgs
  <2>7. Racing' /\ Resetting' /\ Counting'
    BY <1>1, <1>5, RequestsKept
  <2>8. KeysWithinLimit'
    BY <1>1, <2>4 DEF AccountsInv, KeysWithinLimit, KeysOf
  <2> QED
    BY <2>5, <2>6, <2>7, <2>8 DEF AccountsInv
<1> QED
  BY <1>3, <1>4, <1>5 DEF SuperadminPatch

-----------------------------------------------------------------------------
(* Reset tokens *)

LEMMA CreateResetTokenStep ==
  ASSUME AccountsInv, NEW t \in Tokens, NEW u \in Users, CreateResetToken(t, u)
  PROVE  AccountsInv'
<1>1. /\ UNCHANGED <<user, org, link, session, key, request, uses, raced>>
      /\ made' \in 0..MaxOperations
      /\ token[t].state = "none" /\ u \in LiveUsers
      /\ token' = [token EXCEPT ![t] = [state |-> "valid", user |-> u]]
  BY MadeStep DEF CreateResetToken, history, AccountsInv
<1>2. /\ token' \in [Tokens -> TokenRow]
      /\ token'[t].state = "valid" /\ token'[t].user = u
      /\ \A x \in Tokens : x # t => token'[x] = token[x]
  BY <1>1 DEF AccountsInv, TypeOK, TokenRow
<1>3. TypeOK' /\ OwnerBelongs' /\ KeysWithinLimit'
  BY <1>1, <1>2 DEF AccountsInv, TypeOK, OwnerBelongs, KeysWithinLimit, KeysOf, LiveUsers, LiveOrgs
<1>4. Racing' /\ Counting'
  BY <1>1, RequestsKept
<1>5. Resetting'
  <2>1. \A x \in Tokens :
           /\ uses[x] <= 1
           /\ token'[x].state \in {"none", "valid"} => uses[x] = 0
           /\ token'[x].state = "valid" => /\ token'[x].user \in Users
                                           /\ user[token'[x].user].state # "none"
    BY <1>1, <1>2 DEF AccountsInv, Resetting, LiveUsers
  <2>2. \A q \in Requests : request[q].pc = "resetting" =>
           /\ request[q].token \in Tokens /\ request[q].user \in Users
           /\ user[request[q].user].state # "none"
           /\ request[q].user \in LiveUsers =>
                 /\ token'[request[q].token].state = "valid"
                 /\ token'[request[q].token].user = request[q].user
    BY <1>1, <1>2 DEF AccountsInv, Resetting
  <2> QED
    BY <1>1, <2>1, <2>2 DEF AccountsInv, Resetting, LiveUsers
<1> QED
  BY <1>3, <1>4, <1>5 DEF AccountsInv

LEMMA TokenExpiresStep ==
  ASSUME AccountsInv, NEW t \in Tokens, TokenExpires(t)
  PROVE  AccountsInv'
<1>1. /\ UNCHANGED <<user, org, link, session, key, request, uses, raced, made>>
      /\ token[t].state = "valid" /\ TokenFree(t)
      /\ token' = [token EXCEPT ![t].state = "over"]
  BY DEF TokenExpires, history
<1>2. /\ token' \in [Tokens -> TokenRow]
      /\ token'[t].state = "over"
      /\ \A x \in Tokens : x # t => token'[x] = token[x]
  BY <1>1 DEF AccountsInv, TypeOK, TokenRow
<1>3. TypeOK' /\ OwnerBelongs' /\ KeysWithinLimit'
  BY <1>1, <1>2 DEF AccountsInv, TypeOK, OwnerBelongs, KeysWithinLimit, KeysOf, LiveUsers, LiveOrgs
<1>4. Racing' /\ Counting'
  BY <1>1, RequestsKept
<1>5. Resetting'
  <2>1. \A x \in Tokens :
           /\ uses[x] <= 1
           /\ token'[x].state \in {"none", "valid"} => uses[x] = 0
           /\ token'[x].state = "valid" => /\ token'[x].user \in Users
                                           /\ user[token'[x].user].state # "none"
    BY <1>1, <1>2 DEF AccountsInv, Resetting
  <2>2. \A q \in Requests : request[q].pc = "resetting" =>
           /\ request[q].token \in Tokens /\ request[q].user \in Users
           /\ user[request[q].user].state # "none"
           /\ request[q].user \in LiveUsers =>
                 /\ token'[request[q].token].state = "valid"
                 /\ token'[request[q].token].user = request[q].user
    BY <1>1, <1>2 DEF AccountsInv, Resetting, TokenFree
  <2> QED
    BY <1>1, <2>1, <2>2 DEF AccountsInv, Resetting, LiveUsers
<1> QED
  BY <1>3, <1>4, <1>5 DEF AccountsInv

LEMMA ConsumeCommitStep ==
  ASSUME AccountsInv, NEW q \in Requests, ConsumeCommit(q)
  PROVE  AccountsInv'
<1> PICK t, u : t = request[q].token /\ u = request[q].user
  OBVIOUS
<1>1. /\ UNCHANGED <<org, link, key, made, raced>> /\ Ended(q)
      /\ u \in LiveUsers /\ t \in Tokens
      /\ token[t].state = "valid" /\ uses[t] = 0
      /\ token' = [token EXCEPT ![t].state = "over"]
      /\ uses' = [uses EXCEPT ![t] = uses[t] + 1]
      /\ user' = [user EXCEPT ![u].password = user[u].password + 1]
  BY EndStep DEF ConsumeCommit, AccountsInv, Resetting
<1>2. session' \in [Sessions -> SessionRow]
  BY BlankTypes DEF ConsumeCommit, AccountsInv, TypeOK, SessionRow
<1>3. /\ token' \in [Tokens -> TokenRow]
      /\ token'[t].state = "over"
      /\ \A x \in Tokens : x # t => token'[x] = token[x]
  BY <1>1 DEF AccountsInv, TypeOK, TokenRow
<1>4. /\ uses' \in [Tokens -> Nat] /\ uses'[t] = 1
      /\ \A x \in Tokens : x # t => uses'[x] = uses[x]
  BY <1>1 DEF AccountsInv, TypeOK
<1>5. /\ user' \in [Users -> UserRow]
      /\ \A w \in Users : /\ user'[w].state = user[w].state /\ user'[w].org = user[w].org
                          /\ user'[w].verified = user[w].verified
  <2> DEFINE row == [user[u] EXCEPT !.password = user[u].password + 1]
  <2>1. user \in [Users -> UserRow] /\ u \in Users
    BY <1>1 DEF AccountsInv, TypeOK, LiveUsers
  <2>2. /\ row \in UserRow /\ row.state = user[u].state /\ row.org = user[u].org
        /\ row.verified = user[u].verified
    BY <2>1 DEF UserRow
  <2>3. user' = [user EXCEPT ![u] = row]
    BY <1>1
  <2> HIDE DEF row
  <2> QED
    BY <2>1, <2>2, <2>3
<1>6. LiveUsers' = LiveUsers /\ LiveOrgs' = LiveOrgs
  BY <1>1, <1>5 DEF LiveUsers, LiveOrgs
<1>7. TypeOK'
  BY <1>1, <1>2, <1>3, <1>4, <1>5 DEF AccountsInv, TypeOK, Ended
<1>8. OwnerBelongs' /\ KeysWithinLimit'
  BY <1>1, <1>5, <1>6 DEF AccountsInv, OwnerBelongs, KeysWithinLimit, KeysOf, LiveUsers, LiveOrgs
<1>9. \A r \in Requests : request'[r] = request[r] \/ request'[r] = Idle
  BY <1>1 DEF Ended
<1>10. Racing'
  BY <1>1, <1>5, <1>6, <1>9, IdleType DEF AccountsInv, Racing, LiveUsers
<1>11. Counting'
  BY <1>1, RequestsKept
<1>12. Resetting'
  <2>1. \A x \in Tokens :
           /\ uses'[x] <= 1
           /\ token'[x].state \in {"none", "valid"} => uses'[x] = 0
           /\ token'[x].state = "valid" => /\ token'[x].user \in Users
                                           /\ user'[token'[x].user].state # "none"
    BY <1>3, <1>4, <1>5 DEF AccountsInv, Resetting
  <2>2. \A r \in Requests : r # q => request[r].token # t
    BY <1>1, ConstantsAssumption DEF AccountsInv, Resetting
  <2>3. \A r \in Requests : request'[r].pc = "resetting" =>
           /\ request'[r].token \in Tokens /\ request'[r].user \in Users
           /\ user'[request'[r].user].state # "none"
           /\ request'[r].user \in LiveUsers =>
                 /\ token'[request'[r].token].state = "valid"
                 /\ token'[request'[r].token].user = request'[r].user
    BY <1>1, <1>3, <1>5, <2>2, IdleType DEF AccountsInv, Resetting, Ended
  <2>4. \A r, p \in Requests :
           request'[r].token # Nobody /\ request'[r].token = request'[p].token => r = p
    BY <1>9, IdleType DEF AccountsInv, Resetting
  <2> QED
    BY <1>6, <2>1, <2>3, <2>4 DEF Resetting
<1> QED
  BY <1>7, <1>8, <1>10, <1>11, <1>12 DEF AccountsInv

-----------------------------------------------------------------------------
(* API keys *)

LEMMA FiniteKeys ==
  ASSUME NEW S, S \subseteq Keys
  PROVE  IsFiniteSet(S) /\ Cardinality(S) \in Nat
  BY ConstantsAssumption, FS_Subset, FS_CardinalityType

\* Fewer keys are within the limit as well.
LEMMA KeysShrink ==
  ASSUME AccountsInv, UNCHANGED request \/ \E q \in Requests : Ended(q),
         \A o \in Orgs : KeysOf(o)' \subseteq KeysOf(o)
  PROVE  Counting' /\ KeysWithinLimit'
<1>1. \A o \in Orgs : /\ Cardinality(KeysOf(o)') <= Cardinality(KeysOf(o))
                      /\ Cardinality(KeysOf(o)') \in Nat /\ Cardinality(KeysOf(o)) \in Nat
  <2>1. ASSUME NEW o \in Orgs
        PROVE  /\ Cardinality(KeysOf(o)') <= Cardinality(KeysOf(o))
               /\ Cardinality(KeysOf(o)') \in Nat /\ Cardinality(KeysOf(o)) \in Nat
    <3>1. KeysOf(o) \subseteq Keys /\ KeysOf(o)' \subseteq KeysOf(o)
      BY DEF KeysOf
    <3>2. IsFiniteSet(KeysOf(o)) /\ Cardinality(KeysOf(o)) \in Nat
      BY <3>1, FiniteKeys
    <3> QED
      BY <3>1, <3>2, FS_Subset, FS_CardinalityType
  <2> QED
    BY <2>1
<1>2. KeysWithinLimit'
  BY <1>1, ConstantsAssumption DEF AccountsInv, KeysWithinLimit
<1>3. \A q \in Requests : request'[q] = request[q] \/ request'[q] = Idle
  BY DEF Ended
<1>4. ASSUME NEW q \in Requests, request'[q].pc = "counted"
      PROVE  /\ request'[q].org \in Orgs
             /\ Cardinality(KeysOf(request[q].org))' < KeyLimit
  <2> PICK o : o = request'[q].org
    OBVIOUS
  <2>1. o \in Orgs /\ Cardinality(KeysOf(o)) < KeyLimit
    BY <1>3, <1>4, IdleType DEF AccountsInv, Counting
  <2>2. KeysOf(request[q].org)' = KeysOf(o)'
    BY DEF KeysOf
  <2> QED
    BY <1>1, <2>1, <2>2, ConstantsAssumption
<1>5. \A q, r \in Requests :
         /\ request'[q].pc = "counted" /\ request'[r].pc = "counted"
         /\ request'[q].org = request'[r].org
         => q = r
  BY <1>3, IdleType DEF AccountsInv, Counting
<1> QED
  BY <1>2, <1>4, <1>5 DEF Counting

LEMMA KeyStep ==
  ASSUME AccountsInv,
         \/ \E u \in Users, k \in Keys : KeyRevoke(u, k)
         \/ \E q \in Requests : KeyTouch(q)
  PROVE  AccountsInv'
<1>1. UNCHANGED <<user, org, link, token, session, uses, raced>> /\ made' \in 0..MaxOperations
  BY MadeStep DEF KeyRevoke, KeyTouch, rows, history, AccountsInv, TypeOK
<1>2. UNCHANGED request \/ \E q \in Requests : Ended(q)
  BY EndStep DEF KeyRevoke, KeyTouch, AccountsInv
<1>3. /\ key' \in [Keys -> KeyRow]
      /\ \A k \in Keys : key'[k] = key[k] \/ key'[k].state = "revoked"
  BY DEF KeyRevoke, KeyTouch, Touched, AccountsInv, TypeOK, KeyRow
<1>4. \A o \in Orgs : KeysOf(o)' \subseteq KeysOf(o)
  BY <1>3 DEF KeysOf
<1>5. TypeOK' /\ OwnerBelongs'
  BY <1>1, <1>2, <1>3, RequestsKept
  DEF AccountsInv, TypeOK, OwnerBelongs, LiveUsers, LiveOrgs
<1> QED
  BY <1>1, <1>2, <1>4, <1>5, KeysShrink, RequestsKept DEF AccountsInv

LEMMA KeyInsertStep ==
  ASSUME AccountsInv, NEW q \in Requests, NEW k \in Keys, KeyInsert(q, k)
  PROVE  AccountsInv'
<1> PICK o : o = request[q].org
  OBVIOUS
<1>1. /\ UNCHANGED <<user, org, link, token, session, uses, raced, made>> /\ Ended(q)
      /\ key[k].state = "none" /\ request[q].user \in Users
      /\ key' = [key EXCEPT ![k] = [state |-> "live", org |-> o, by |-> request[q].user]]
      /\ request[q].pc = "counted"
  BY EndStep DEF KeyInsert, LiveUsers, rows, history, AccountsInv
<1>2. o \in Orgs /\ Cardinality(KeysOf(o)) < KeyLimit
  BY <1>1 DEF AccountsInv, Counting
<1>3. /\ key' \in [Keys -> KeyRow]
      /\ key'[k].state = "live" /\ key'[k].org = o
      /\ \A x \in Keys : x # k => key'[x] = key[x]
  BY <1>1, <1>2 DEF AccountsInv, TypeOK, KeyRow
<1>4. \A p \in Orgs : p # o => KeysOf(p)' = KeysOf(p)
  BY <1>1, <1>3 DEF KeysOf
<1>5. Cardinality(KeysOf(o)') <= KeyLimit
  <2>1. KeysOf(o)' = KeysOf(o) \cup {k} /\ k \notin KeysOf(o)
    BY <1>1, <1>3 DEF KeysOf
  <2>2. IsFiniteSet(KeysOf(o)) /\ Cardinality(KeysOf(o)) \in Nat
    BY FiniteKeys DEF KeysOf
  <2>3. Cardinality(KeysOf(o)') = Cardinality(KeysOf(o)) + 1
    BY <2>1, <2>2, FS_AddElement
  <2> QED
    BY <1>2, <2>2, <2>3, ConstantsAssumption
<1>6. KeysWithinLimit'
  <2>1. \A p \in LiveOrgs' : p \in LiveOrgs
    BY <1>1 DEF LiveOrgs
  <2> QED
    BY <1>4, <1>5 DEF AccountsInv, KeysWithinLimit
<1>7. Counting'
  <2>1. ASSUME NEW r \in Requests, request'[r].pc = "counted"
        PROVE  /\ request'[r].org \in Orgs
               /\ Cardinality(KeysOf(request[r].org))' < KeyLimit
    <3> PICK p : p = request'[r].org
      OBVIOUS
    <3>1. r # q /\ request'[r] = request[r]
      BY <1>1, <2>1, IdleType DEF Ended
    <3>2. p \in Orgs /\ p # o /\ Cardinality(KeysOf(p)) < KeyLimit
      BY <1>1, <2>1, <3>1 DEF AccountsInv, Counting
    <3>3. KeysOf(request[r].org)' = KeysOf(p)'
      BY DEF KeysOf
    <3> QED
      BY <1>4, <3>2, <3>3
  <2>2. \A r, p \in Requests :
           /\ request'[r].pc = "counted" /\ request'[p].pc = "counted"
           /\ request'[r].org = request'[p].org
           => r = p
    BY <1>1, IdleType DEF AccountsInv, Counting, Ended
  <2> QED
    BY <2>1, <2>2 DEF Counting
<1>8. TypeOK' /\ OwnerBelongs'
  BY <1>1, <1>3 DEF AccountsInv, TypeOK, OwnerBelongs, LiveUsers, LiveOrgs, Ended
<1> QED
  BY <1>1, <1>6, <1>7, <1>8, RequestsKept DEF AccountsInv

-----------------------------------------------------------------------------
(* register *)

\* What the rows are after a registration has committed.
Registered(new, o, old, oldO) ==
    /\ user' \in [Users -> UserRow] /\ org' \in [Orgs -> OrgRow]
    /\ token' \in [Tokens -> TokenRow] /\ key' \in [Keys -> KeyRow]
    /\ user[new].state = "none" /\ user'[new].state = "live" /\ user'[new].org = o
    /\ user'[new].verified = FALSE
    /\ old \in Users => user'[old].state = "gone" \/ old = new
    /\ \A u \in Users : u # new /\ u # old =>
          /\ user'[u].state = user[u].state /\ user'[u].verified = user[u].verified
          /\ user'[u].org = user[u].org \/ user'[u].org = Nobody
          /\ oldO # Nobody => user'[u].org # oldO
          /\ oldO = Nobody \/ user[u].org # oldO => user'[u].org = user[u].org
    /\ org[o].state = "none" /\ org'[o].state = "live" /\ org'[o].owner = new
    /\ \A p \in Orgs : p # o /\ p # oldO => org'[p] = org[p]
    /\ oldO # o /\ oldO \in Orgs => org'[oldO].state = "gone"

LEMMA RegisterRows ==
  ASSUME AccountsInv, NEW q \in Requests, NEW new \in Users, NEW o \in Orgs,
         RegisterCommit(q, new, o), NEW old, old = request[q].user,
         NEW oldO, oldO = request[q].org
  PROVE  Registered(new, o, old, oldO)
<1>1. user \in [Users -> UserRow] /\ request[q] \in RequestState
  BY DEF AccountsInv, TypeOK
<1>2. old \in Users \cup {Nobody} /\ oldO \in Orgs \cup {Nobody}
  BY <1>1 DEF RequestState
<1>3. request[q].email \in Emails
  BY DEF AccountsInv, Racing, RegisterCommit
<1> PICK e : e = request[q].email
  OBVIOUS
<1>4. /\ user[new].state = "none" /\ org[o].state = "none"
      /\ user' = [u \in Users |->
                     IF u = new THEN OwnerOf(o, e)
                     ELSE IF u = old THEN [NoUser EXCEPT !.state = "gone"]
                     ELSE IF oldO # Nobody /\ user[u].org = oldO
                          THEN [user[u] EXCEPT !.org = Nobody] ELSE user[u]]
      /\ org' = [p \in Orgs |-> IF p = o THEN [NoOrg EXCEPT !.state = "live", !.owner = new]
                                ELSE IF p = oldO THEN [NoOrg EXCEPT !.state = "gone"] ELSE org[p]]
  BY DEF RegisterCommit
<1>5. /\ token' \in [Tokens -> TokenRow] /\ key' \in [Keys -> KeyRow]
  BY BlankTypes DEF RegisterCommit, AccountsInv, TypeOK, TokenRow, KeyRow
<1>6. /\ [NoOrg EXCEPT !.state = "live", !.owner = new] \in OrgRow
      /\ [NoOrg EXCEPT !.state = "live", !.owner = new].state = "live"
      /\ [NoOrg EXCEPT !.state = "live", !.owner = new].owner = new
      /\ [NoOrg EXCEPT !.state = "gone"] \in OrgRow
      /\ [NoOrg EXCEPT !.state = "gone"].state = "gone"
  BY BlankTypes DEF OrgRow
<1>7. /\ org' \in [Orgs -> OrgRow]
      /\ org'[o].state = "live" /\ org'[o].owner = new
      /\ \A p \in Orgs : p # o /\ p # oldO => org'[p] = org[p]
      /\ oldO # o /\ oldO \in Orgs => org'[oldO].state = "gone"
  BY <1>4, <1>6 DEF AccountsInv, TypeOK
<1>8. [NoUser EXCEPT !.state = "gone"] \in UserRow /\ [NoUser EXCEPT !.state = "gone"].state = "gone"
  BY BlankTypes DEF UserRow
<1>9. ASSUME NEW u \in Users
      PROVE  /\ [user[u] EXCEPT !.org = Nobody] \in UserRow
             /\ [user[u] EXCEPT !.org = Nobody].state = user[u].state
             /\ [user[u] EXCEPT !.org = Nobody].verified = user[u].verified
             /\ [user[u] EXCEPT !.org = Nobody].org = Nobody
  BY <1>1 DEF UserRow
<1>10. user' \in [Users -> UserRow]
  BY <1>1, <1>3, <1>4, <1>8, <1>9, OwnerType
<1>11. user'[new] = OwnerOf(o, e) /\ (old \in Users => user'[old].state = "gone" \/ old = new)
  BY <1>4, <1>8
<1>12. \A u \in Users : u # new /\ u # old =>
          /\ user'[u].state = user[u].state /\ user'[u].verified = user[u].verified
          /\ user'[u].org = user[u].org \/ user'[u].org = Nobody
          /\ oldO # Nobody => user'[u].org # oldO
          /\ oldO = Nobody \/ user[u].org # oldO => user'[u].org = user[u].org
  BY <1>4, <1>9
<1> QED
  BY <1>3, <1>4, <1>5, <1>7, <1>10, <1>11, <1>12, OwnerType DEF Registered

LEMMA RegisterCommitStep ==
  ASSUME AccountsInv, NEW q \in Requests, NEW new \in Users, NEW o \in Orgs,
         RegisterCommit(q, new, o)
  PROVE  AccountsInv'
<1> PICK old, oldO : old = request[q].user /\ oldO = request[q].org
  OBVIOUS
<1>a. Registered(new, o, old, oldO)
  BY RegisterRows
<1>1. /\ user' \in [Users -> UserRow] /\ org' \in [Orgs -> OrgRow]
      /\ token' \in [Tokens -> TokenRow] /\ key' \in [Keys -> KeyRow]
      /\ user[new].state = "none" /\ user'[new].state = "live" /\ user'[new].org = o
      /\ user'[new].verified = FALSE
      /\ old \in Users => user'[old].state = "gone" \/ old = new
      /\ \A u \in Users : u # new /\ u # old =>
            /\ user'[u].state = user[u].state /\ user'[u].verified = user[u].verified
            /\ user'[u].org = user[u].org \/ user'[u].org = Nobody
            /\ oldO # Nobody => user'[u].org # oldO
            /\ oldO = Nobody \/ user[u].org # oldO => user'[u].org = user[u].org
      /\ org[o].state = "none" /\ org'[o].state = "live" /\ org'[o].owner = new
      /\ \A p \in Orgs : p # o /\ p # oldO => org'[p] = org[p]
      /\ oldO # o /\ oldO \in Orgs => org'[oldO].state = "gone"
  BY <1>a DEF Registered
<1>2. /\ UNCHANGED <<session, uses, raced, made>> /\ Ended(q)
      /\ \A p \in LiveOrgs \ {oldO} : org[p].owner # old
  BY EndStep DEF RegisterCommit, history, AccountsInv
<1>3. link' \subseteq Users
  BY DEF RegisterCommit, AccountsInv, TypeOK
<1>4. TypeOK'
  BY <1>1, <1>2, <1>3 DEF AccountsInv, TypeOK, Ended
<1>5. \A r \in Requests : request'[r] = request[r] \/ request'[r] = Idle
  BY <1>2 DEF Ended
<1>6. OwnerBelongs'
  <2>1. ASSUME NEW p \in LiveOrgs'
        PROVE  org'[p].owner \in LiveUsers' /\ user'[org'[p].owner].org = p
    <3>1. CASE p = o
      BY <1>1, <3>1 DEF LiveUsers
    <3>2. CASE p # o
      <4>1. p \in LiveOrgs /\ p # oldO /\ org'[p] = org[p]
        BY <1>1, <2>1, <3>2 DEF LiveOrgs
      <4> PICK w : w = org[p].owner
        OBVIOUS
      <4>2. w \in LiveUsers /\ user[w].org = p /\ w # old /\ w # new
        BY <1>1, <1>2, <4>1 DEF AccountsInv, OwnerBelongs, LiveUsers
      <4> QED
        BY <1>1, <4>1, <4>2 DEF LiveUsers
    <3> QED
      BY <3>1, <3>2
  <2>2. ASSUME NEW u \in LiveUsers' PROVE user'[u].org \in LiveOrgs' \cup {Nobody}
    <3>1. CASE u = new
      BY <1>1, <3>1 DEF LiveOrgs
    <3>2. CASE u # new
      <4>1. u # old /\ u \in LiveUsers
        BY <1>1, <2>2, <3>2 DEF LiveUsers
      <4> PICK p : p = user[u].org
        OBVIOUS
      <4>2. p \in LiveOrgs \cup {Nobody} /\ p # o
        BY <1>1, <4>1, ConstantsAssumption DEF AccountsInv, OwnerBelongs, LiveOrgs
      <4>3. CASE p = oldO \/ p = Nobody
        BY <1>1, <2>2, <3>2, <4>1, <4>3 DEF LiveUsers
      <4>4. CASE p # oldO /\ p # Nobody
        BY <1>1, <2>2, <3>2, <4>1, <4>2, <4>4 DEF LiveUsers, LiveOrgs
      <4> QED
        BY <4>3, <4>4
    <3> QED
      BY <3>1, <3>2
  <2> QED
    BY <2>1, <2>2 DEF OwnerBelongs
<1>7. Racing'
  <2>1. \A u \in LiveUsers' : user'[u].verified => u \in LiveUsers /\ user[u].verified
    BY <1>1 DEF LiveUsers
  <2> QED
    BY <1>2, <1>5, <2>1, IdleType DEF AccountsInv, Racing, LiveUsers
<1>8. Resetting'
  <2>1. \A t \in Tokens : \/ token'[t] = token[t] /\ (token[t].user # old \/ old = Nobody)
                          \/ token'[t].state = "over" /\ token[t].user = old
    BY BlankTypes DEF RegisterCommit
  <2>2. \A t \in Tokens :
           /\ uses[t] <= 1
           /\ token'[t].state \in {"none", "valid"} => uses[t] = 0
           /\ token'[t].state = "valid" => /\ token'[t].user \in Users
                                           /\ user'[token'[t].user].state # "none"
    BY <1>1, <2>1, ConstantsAssumption DEF AccountsInv, Resetting
  <2>3. ASSUME NEW r \in Requests, request'[r].pc = "resetting"
        PROVE  /\ request'[r].token \in Tokens /\ request'[r].user \in Users
               /\ user'[request'[r].user].state # "none"
               /\ request'[r].user \in LiveUsers' =>
                     /\ token'[request'[r].token].state = "valid"
                     /\ token'[request'[r].token].user = request'[r].user
    <3> PICK t, u : t = request[r].token /\ u = request[r].user
      OBVIOUS
    <3>1. /\ request'[r] = request[r] /\ t \in Tokens /\ u \in Users /\ user[u].state # "none"
          /\ u \in LiveUsers => token[t].state = "valid" /\ token[t].user = u
      BY <1>5, <2>3, IdleType DEF AccountsInv, Resetting
    <3>2. u # new /\ user'[u].state # "none"
      BY <1>1, <3>1
    <3>3. ASSUME u \in LiveUsers' PROVE token'[t] = token[t] /\ u \in LiveUsers
      <4>1. u # old /\ u \in LiveUsers
        BY <1>1, <3>2, <3>3 DEF LiveUsers
      <4> QED
        BY <2>1, <3>1, <4>1
    <3> QED
      BY <3>1, <3>2, <3>3
  <2>4. \A r, p \in Requests :
           request'[r].token # Nobody /\ request'[r].token = request'[p].token => r = p
    BY <1>5, IdleType DEF AccountsInv, Resetting
  <2> QED
    BY <1>2, <2>2, <2>3, <2>4 DEF Resetting
<1>9. Counting' /\ KeysWithinLimit'
  <2>1. \A k \in Keys : key'[k] = key[k] \/ key'[k].state = "gone"
    BY BlankTypes DEF RegisterCommit, KeyRow
  <2>2. \A p \in Orgs : KeysOf(p)' \subseteq KeysOf(p)
    BY <2>1 DEF KeysOf
  <2> QED
    BY <1>2, <2>2, KeysShrink
<1> QED
  BY <1>4, <1>6, <1>7, <1>8, <1>9 DEF AccountsInv

-----------------------------------------------------------------------------
(* The invariant *)

LEMMA InvInit == Init => AccountsInv
<1> SUFFICES ASSUME Init PROVE AccountsInv
  OBVIOUS
<1> DEFINE founder == [OwnerOf(FirstOrg, FirstEmail) EXCEPT !.verified = TRUE]
           first == [NoOrg EXCEPT !.state = "live", !.owner = Founder]
<1>1. /\ founder \in UserRow /\ founder.state = "live" /\ founder.org = FirstOrg
      /\ first \in OrgRow /\ first.state = "live" /\ first.owner = Founder
  <2> PICK own : own = OwnerOf(FirstOrg, FirstEmail)
    OBVIOUS
  <2>1. own \in UserRow /\ own.state = "live" /\ own.org = FirstOrg
    BY ConstantsAssumption, OwnerType
  <2>2. founder = [own EXCEPT !.verified = TRUE]
    OBVIOUS
  <2>3. founder \in UserRow /\ founder.state = "live" /\ founder.org = FirstOrg
    BY <2>1, <2>2 DEF UserRow
  <2>4. first \in OrgRow /\ first.state = "live" /\ first.owner = Founder
    BY ConstantsAssumption, BlankTypes DEF OrgRow
  <2> QED
    BY <2>3, <2>4
<1>2. /\ user = [u \in Users |-> IF u = Founder THEN founder ELSE NoUser]
      /\ org = [o \in Orgs |-> IF o = FirstOrg THEN first ELSE NoOrg]
      /\ link = {} /\ token = [t \in Tokens |-> NoToken]
      /\ session = [s \in Sessions |-> NoSession] /\ key = [k \in Keys |-> NoKey]
      /\ request = [q \in Requests |-> Idle] /\ made = 0
      /\ uses = [t \in Tokens |-> 0] /\ raced = {}
  BY DEF Init
<1> HIDE DEF founder, first
<1>3. TypeOK
  <2>1. user \in [Users -> UserRow] /\ org \in [Orgs -> OrgRow]
    BY <1>1, <1>2, BlankTypes
  <2>2. /\ token \in [Tokens -> TokenRow] /\ session \in [Sessions -> SessionRow]
        /\ key \in [Keys -> KeyRow] /\ request \in [Requests -> RequestState]
        /\ uses \in [Tokens -> Nat]
    BY <1>2, BlankTypes, IdleType
  <2>3. made \in 0..MaxOperations
    BY <1>2, ConstantsAssumption
  <2> QED
    BY <1>2, <2>1, <2>2, <2>3 DEF TypeOK
<1>4. LiveUsers = {Founder} /\ LiveOrgs = {FirstOrg}
  BY <1>1, <1>2, BlankTypes, ConstantsAssumption DEF LiveUsers, LiveOrgs
<1>5. OwnerBelongs
  BY <1>1, <1>2, <1>4, ConstantsAssumption DEF OwnerBelongs
<1>6. Racing /\ Resetting /\ Counting
  BY <1>2, IdleType, BlankTypes DEF Racing, Resetting, Counting
<1>7. KeysWithinLimit
  <2>1. \A o \in Orgs : KeysOf(o) = {}
    BY <1>2, BlankTypes DEF KeysOf
  <2> QED
    BY <2>1, FS_EmptySet, ConstantsAssumption DEF KeysWithinLimit, LiveOrgs
<1> QED
  BY <1>3, <1>5, <1>6, <1>7 DEF AccountsInv

\* The steps, by what they write.
LEMMA StepsByKind ==
  ASSUME Next
  PROVE  \/ \E q \in Requests :
              \/ ReadStep(q) \/ VerifyCommit(q) \/ ConsumeCommit(q) \/ Abort(q)
              \/ \E u \in Users, o \in Orgs : RegisterCommit(q, u, o)
              \/ \E k \in Keys : KeyInsert(q, k)
         \/ \/ \E q \in Requests, s \in Sessions : LoginIssue(q, s)
            \/ \E s \in Sessions : Refresh(s) \/ Logout(s)
            \/ \E u \in Users : LinkExpires(u)
         \/ \/ \E u \in Users, k \in Keys : KeyRevoke(u, k)
            \/ \E q \in Requests : KeyTouch(q)
         \/ \E t \in Tokens : TokenExpires(t) \/ \E u \in Users : CreateResetToken(t, u)
         \/ \E c \in Users, o \in Orgs :
              \/ \E u \in Users : RemoveMember(c, o, u)
              \/ \E e \in Emails, role \in {"admin", "member"} : AddMember(c, o, e, role)
         \/ (\E u \in Users : Erase(u)) \/ SuperadminPatch
  BY DEF Next, RequestStep, ReadStep

LEMMA InvStep == AccountsInv /\ [Next]_vars => AccountsInv'
<1> SUFFICES ASSUME AccountsInv, [Next]_vars PROVE AccountsInv'
  OBVIOUS
<1>1. CASE Next
  BY <1>1, StepsByKind, ReadKeeps, VerifyCommitStep, ConsumeCommitStep, AbortStep,
     RegisterCommitStep, KeyInsertStep, SessionStep, KeyStep, TokenExpiresStep,
     CreateResetTokenStep, RemoveMemberStep, AddMemberStep, EraseStep, SuperadminStep
<1>2. CASE UNCHANGED vars
  <2>1. TypeOK' /\ OwnerBelongs' /\ KeysWithinLimit'
    BY <1>2 DEF AccountsInv, TypeOK, OwnerBelongs, KeysWithinLimit, KeysOf, LiveUsers, LiveOrgs,
                vars
  <2> QED
    BY <1>2, <2>1, RequestsKept DEF AccountsInv, vars
<1> QED
  BY <1>1, <1>2

-----------------------------------------------------------------------------
(* Theorems *)

\* Every state that registration, login, members, tokens and keys reach is well typed.
THEOREM AccountsTypeCorrect == Spec => []TypeOK
<1>1. AccountsInv => TypeOK
  BY DEF AccountsInv
<1> QED
  BY InvInit, InvStep, <1>1, PTL DEF Spec

\* register, add_org_member, remove_org_member and gdpr_erase_user leave every organisation
\* with an owner who belongs to it, and no user with an organisation that is gone.
THEOREM OwnersStay == Spec => []OwnerBelongs
<1>1. AccountsInv => OwnerBelongs
  BY DEF AccountsInv
<1> QED
  BY InvInit, InvStep, <1>1, PTL DEF Spec

\* consume_reset_token: one token sets one password, however many requests present it.
THEOREM TokenUsedOnce == Spec => []ResetOnce
<1>1. AccountsInv => ResetOnce
  BY DEF AccountsInv, Resetting, ResetOnce
<1> QED
  BY InvInit, InvStep, <1>1, PTL DEF Spec

\* create_api_key keeps every organisation within the limit, however many requests create.
THEOREM KeyLimitKept == Spec => []KeysWithinLimit
<1>1. AccountsInv => KeysWithinLimit
  BY DEF AccountsInv
<1> QED
  BY InvInit, InvStep, <1>1, PTL DEF Spec

\* No registration deletes a verified account, but one verified since it was read.
THEOREM VerifiedStay == Spec => VerifiedKept
<1> DEFINE Kept == \A u \in LiveUsers : user[u].verified /\ user'[u].state = "gone" => u \in raced
<1>1. ASSUME AccountsInv, [Next]_vars PROVE Kept
  <2>1. ASSUME NEW q \in Requests, NEW new \in Users, NEW o \in Orgs, RegisterCommit(q, new, o)
        PROVE  Kept
    <3> PICK old, oldO : old = request[q].user /\ oldO = request[q].org
      OBVIOUS
    <3>a. Registered(new, o, old, oldO)
      BY <1>1, <2>1, RegisterRows
    <3>1. \A u \in Users : u # new /\ u # old => user'[u].state = user[u].state
      BY <1>1, <2>1, <3>a DEF Registered
    <3>2. user[new].state = "none" /\ request[q].pc = "registering"
      BY <2>1 DEF RegisterCommit
    <3>3. ASSUME NEW u \in LiveUsers, user[u].verified, user'[u].state = "gone"
          PROVE  u \in raced
      <4>1. u = old
        BY <3>1, <3>2, <3>3 DEF LiveUsers
      <4> QED
        BY <1>1, <3>2, <3>3, <4>1 DEF AccountsInv, Racing
    <3> QED
      BY <3>3
  <2>2. ASSUME ~ \E q \in Requests, u \in Users, o \in Orgs : RegisterCommit(q, u, o)
        PROVE  \A u \in LiveUsers : user'[u].state = "live"
    <3>1. user \in [Users -> UserRow]
      BY <1>1 DEF AccountsInv, TypeOK
    <3>2. ASSUME \/ \E q \in Requests : ReadStep(q)
                 \/ UNCHANGED vars
          PROVE  UNCHANGED user
      BY <1>1, <3>2, ReadSteps DEF Reads, rows, vars
    <3>3. ASSUME \/ \E q \in Requests, s \in Sessions : LoginIssue(q, s)
                 \/ \E s \in Sessions : Refresh(s) \/ Logout(s)
                 \/ \E u \in Users : LinkExpires(u)
                 \/ \E u \in Users, k \in Keys : KeyRevoke(u, k)
                 \/ \E q \in Requests : \/ KeyTouch(q) \/ Abort(q)
                                        \/ \E k \in Keys : KeyInsert(q, k)
                 \/ \E t \in Tokens : TokenExpires(t) \/ \E u \in Users : CreateResetToken(t, u)
          PROVE  UNCHANGED user
      BY <3>3 DEF LoginIssue, Refresh, Logout, LinkExpires, KeyRevoke, KeyTouch, Abort, KeyInsert,
                  TokenExpires, CreateResetToken, rows
    <3>4. ASSUME \/ \E q \in Requests : VerifyCommit(q) \/ ConsumeCommit(q)
                 \/ \E c \in Users, o \in Orgs :
                      \/ \E u \in Users : RemoveMember(c, o, u)
                      \/ \E e \in Emails, role \in {"admin", "member"} : AddMember(c, o, e, role)
                 \/ (\E u \in Users : Erase(u)) \/ SuperadminPatch
          PROVE  \A u \in LiveUsers : user'[u].state = "live"
      <4>1. ASSUME NEW q \in Requests, VerifyCommit(q)
            PROVE  \A u \in LiveUsers : user'[u].state = "live"
        BY <3>1, <4>1 DEF VerifyCommit, LiveUsers, UserRow
      <4>2. ASSUME NEW q \in Requests, ConsumeCommit(q)
            PROVE  \A u \in LiveUsers : user'[u].state = "live"
        BY <3>1, <4>2 DEF ConsumeCommit, LiveUsers, UserRow
      <4>3. ASSUME NEW c \in Users, NEW o \in Orgs, NEW w \in Users, RemoveMember(c, o, w)
            PROVE  \A u \in LiveUsers : user'[u].state = "live"
        BY <3>1, <4>3 DEF RemoveMember, LiveUsers, UserRow
      <4>4. ASSUME NEW c \in Users, NEW o \in Orgs, NEW e \in Emails,
                   NEW role \in {"admin", "member"}, AddMember(c, o, e, role)
            PROVE  \A u \in LiveUsers : user'[u].state = "live"
        BY <3>1, <4>4 DEF AddMember, LiveUsers, UserRow, NoUser
      <4>5. ASSUME NEW w \in Users, Erase(w)
            PROVE  \A u \in LiveUsers : user'[u].state = "live"
        BY <3>1, <4>5 DEF Erase, LiveUsers, UserRow
      <4>6. ASSUME SuperadminPatch PROVE \A u \in LiveUsers : user'[u].state = "live"
        BY <3>1, <4>6 DEF SuperadminPatch, LiveUsers, UserRow
      <4> QED
        BY <3>4, <4>1, <4>2, <4>3, <4>4, <4>5, <4>6
    <3> QED
      BY <1>1, <2>2, <3>2, <3>3, <3>4, StepsByKind DEF LiveUsers
  <2> QED
    BY <2>1, <2>2
<1> QED
  BY InvInit, InvStep, <1>1, PTL DEF Spec, VerifiedKept

\* ApiKeyAuthentication notes the use of a key in a write of its own, and create_api_key
\* only inserts: a key that revoke_api_key revoked is never live again.
THEOREM RevokedStays == Spec => RevokedForever
<1> DEFINE Stays == \A k \in Keys : key[k].state = "revoked" => key'[k].state \in {"revoked", "gone"}
<1>1. ASSUME AccountsInv, [Next]_vars PROVE Stays
  <2>1. key \in [Keys -> KeyRow]
    BY <1>1 DEF AccountsInv, TypeOK
  <2>2. ASSUME UNCHANGED key PROVE Stays
    BY <2>2
  <2>3. ASSUME NEW q \in Requests, NEW new \in Users, NEW o \in Orgs, RegisterCommit(q, new, o)
        PROVE  Stays
    BY <2>1, <2>3, BlankTypes DEF RegisterCommit, NoKey, KeyRow
  <2>4. ASSUME NEW q \in Requests, NEW k \in Keys, KeyInsert(q, k) PROVE Stays
    BY <2>1, <2>4 DEF KeyInsert
  <2>5. ASSUME NEW u \in Users, NEW k \in Keys, KeyRevoke(u, k) PROVE Stays
    BY <2>1, <2>5 DEF KeyRevoke, KeyRow
  <2>6. ASSUME NEW q \in Requests, KeyTouch(q) PROVE Stays
    BY <2>1, <2>6 DEF KeyTouch, Touched
  <2>7. ASSUME \/ \E q \in Requests : ReadStep(q) \/ Abort(q)
               \/ UNCHANGED vars
        PROVE  UNCHANGED key
    BY <1>1, <2>7, ReadSteps DEF Reads, Abort, rows, vars, AccountsInv
  <2>8. ASSUME \/ \E q \in Requests : \/ VerifyCommit(q) \/ ConsumeCommit(q)
                                      \/ \E s \in Sessions : LoginIssue(q, s)
               \/ \E s \in Sessions : Refresh(s) \/ Logout(s)
               \/ \E u \in Users : LinkExpires(u) \/ Erase(u)
               \/ \E t \in Tokens : TokenExpires(t) \/ \E u \in Users : CreateResetToken(t, u)
        PROVE  UNCHANGED key
    BY <2>8 DEF VerifyCommit, ConsumeCommit, LoginIssue, Refresh, Logout, LinkExpires, Erase,
                TokenExpires, CreateResetToken
  <2>9. ASSUME \/ \E c \in Users, o \in Orgs :
                    \/ \E u \in Users : RemoveMember(c, o, u)
                    \/ \E e \in Emails, role \in {"admin", "member"} : AddMember(c, o, e, role)
               \/ SuperadminPatch
        PROVE  UNCHANGED key
    BY <2>9 DEF RemoveMember, AddMember, SuperadminPatch
  <2> HIDE DEF Stays
  <2> QED
    BY <1>1, <2>2, <2>3, <2>4, <2>5, <2>6, <2>7, <2>8, <2>9, StepsByKind
<1> QED
  BY InvInit, InvStep, <1>1, PTL DEF Spec, RevokedForever
=============================================================================
