----------------------------- MODULE E2EAppProofs -----------------------------
(***************************************************************************)
(* Theorems about the end-to-end test application, for any number of       *)
(* handlers, accounts and credentials.                                     *)
(*                                                                         *)
(* The inductive invariant relates the indexes of the store to each other, *)
(* says what a handler has established at each of its points, where a      *)
(* token can be, and what every write in the history had seen.  As in      *)
(* QuickstartProofs its parts take the state they speak of as parameters.  *)
(***************************************************************************)
EXTENDS E2EApp, CeremonyProofs

Kinds == {"registration", "authentication"}

\* The address has an account with this handle.
Account(emails, email, user) == email \in DOMAIN emails /\ emails[email] = user

\* Addresses and handles are inverse to each other.
UsersSound(emails, handles) ==
    /\ \A e \in DOMAIN emails :
           /\ e \in Emails /\ emails[e] \in UserHandles
           /\ emails[e] \in DOMAIN handles /\ handles[emails[e]] = e
    /\ \A h \in DOMAIN handles : Account(emails, handles[h], h)

\* A ceremony as the handlers saved it.
SavedSound(saved, id, emails) ==
    /\ saved.kind \in Kinds
    /\ saved.state.challenge = id
    /\ saved.kind = "registration" =>
           /\ saved.email # None /\ Account(emails, saved.email, saved.state.user)
           /\ saved.state.rpId = RP.rpId
    /\ saved.kind = "authentication" /\ saved.email # None =>
           Account(emails, saved.email, saved.state.expected)

StatesSound(open, emails, tokens) ==
    \A id \in DOMAIN open : id \in CeremonyIDs \cap tokens /\ SavedSound(open[id], id, emails)

Listed(index, user) == IF user \in DOMAIN index THEN index[user] ELSE {}

CredentialsSound(stored, index, emails) ==
    /\ DOMAIN stored \subseteq CredentialIDs
    /\ \A c \in DOMAIN stored :
           /\ stored[c] \in CredentialRecord /\ stored[c].id = c
           /\ \E e \in DOMAIN emails : emails[e] = stored[c].user
    /\ \A h \in UserHandles : Listed(index, h) = {c \in DOMAIN stored : stored[c].user = h}

\* The stored credential still has the owner and the key of the record.
Current(record, stored) ==
    /\ record.id \in DOMAIN stored
    /\ stored[record.id].user = record.user /\ stored[record.id].key = record.key

\* What verification established before a credential was written.
Evidence(kind, id, saved, email, response, record, at, emails) ==
    /\ response.clientData.challenge = id
    /\ at < saved.state.expires
    /\ saved.email # None => saved.email = email /\ Account(emails, email, record.user)
    /\ kind = "authentication" => response.signature.key = record.key

LoginOf(call) == [user |-> call.user, ceremony |-> call.id]
LoggedIn(history) == {[user |-> c.record.user, ceremony |-> c.ceremony] : c \in history}

\* What a handler has established by the time it is at its point.
CallSound(call, stored, emails, history, tokens) ==
    /\ call.pc \in {"idle", "save", "list", "registration", "authentication", "insert",
                    "verify", "update", "set session"}
    /\ call.pc # "idle" => call.id \in CeremonyIDs \cap tokens
    /\ call.pc = "save" => SavedSound(call.saved, call.id, emails)
    /\ call.pc = "list" => Account(emails, call.email, call.user)
    /\ call.pc \in Kinds =>
           /\ SavedSound(call.saved, call.id, emails) /\ call.saved.kind = call.pc
           /\ call.saved.email # None => call.saved.email = call.email
    /\ call.pc = "insert" =>
           /\ call.record \in CredentialRecord
           /\ Account(emails, call.saved.email, call.record.user)
           /\ Evidence("registration", call.id, call.saved, call.email, call.response,
                       call.record, call.at, emails)
    /\ call.pc \in {"verify", "update"} =>
           /\ call.response \in Assertions
           /\ call.record \in CredentialRecord /\ Current(call.record, stored)
    /\ call.pc = "verify" =>
           /\ SavedSound(call.saved, call.id, emails) /\ call.saved.kind = "authentication"
           /\ call.saved.email # None => call.saved.email = call.email
    /\ call.pc = "update" =>
           /\ Evidence("authentication", call.id, call.saved, call.email, call.response,
                       call.record, call.at, emails)
           /\ ~CloneRisk(call.record.signCount, call.response.authData.signCount)
    /\ call.pc = "set session" => LoginOf(call) \in LoggedIn(history)

CommitsSound(history, stored, emails, tokens) ==
    \A c \in history :
        /\ c.ceremony \in tokens
        /\ Current(c.record, stored)
        /\ Evidence(c.kind, c.ceremony, c.saved, c.email, c.response, c.record, c.at, emails)

SessionsSound(entries, history, tokens) ==
    \A s \in DOMAIN entries : s \in SessionIDs \cap tokens /\ entries[s] \in LoggedIn(history)

\* A token is in one place.
SpentIn(history) == {c.ceremony : c \in history}

TokensApart(handlers, open, spent) ==
    /\ open \cap spent = {}
    /\ \A r \in Requests : handlers[r].pc # "idle" =>
           /\ handlers[r].id \notin open
           /\ handlers[r].pc # "set session" => handlers[r].id \notin spent
           /\ \A q \in Requests \ {r} :
                  handlers[q].pc # "idle" => handlers[q].id # handlers[r].id

E2EInv ==
    /\ DOMAIN calls = Requests
    /\ \A r \in Requests : CallSound(calls[r], byID, usersByEmail, commits, issued)
    /\ UsersSound(usersByEmail, usersByHandle)
    /\ StatesSound(states, usersByEmail, issued)
    /\ CredentialsSound(byID, byUser, usersByEmail)
    /\ CommitsSound(commits, byID, usersByEmail, issued)
    /\ SessionsSound(sessions, commits, issued)
    /\ TokensApart(calls, DOMAIN states, SpentIn(commits))

-----------------------------------------------------------------------------
(***************************************************************************)
(* Carrying the parts of the invariant over to the next state.             *)
(***************************************************************************)

\* No account goes away or changes its handle.
UsersKept(emails, next) == \A e \in DOMAIN emails : Account(next, e, emails[e])

\* No credential goes away or changes its owner or its key.
CredentialsKept(stored, next) ==
    \A c \in DOMAIN stored :
        c \in DOMAIN next /\ next[c].user = stored[c].user /\ next[c].key = stored[c].key

LEMMA AccountStays ==
    ASSUME NEW emails, NEW emails2, UsersKept(emails, emails2), NEW email, NEW user,
           Account(emails, email, user)
    PROVE  Account(emails2, email, user)
  BY DEF UsersKept, Account

LEMMA SavedStaysSound ==
    ASSUME NEW emails, NEW emails2, UsersKept(emails, emails2), NEW saved, NEW id,
           SavedSound(saved, id, emails)
    PROVE  SavedSound(saved, id, emails2)
  BY AccountStays DEF SavedSound

LEMMA EvidenceStays ==
    ASSUME NEW emails, NEW emails2, UsersKept(emails, emails2), NEW kind, NEW id, NEW saved,
           NEW email, NEW response, NEW record, NEW at,
           Evidence(kind, id, saved, email, response, record, at, emails)
    PROVE  Evidence(kind, id, saved, email, response, record, at, emails2)
  BY AccountStays DEF Evidence

LEMMA CurrentStays ==
    ASSUME NEW stored, NEW stored2, CredentialsKept(stored, stored2), NEW record,
           Current(record, stored)
    PROVE  Current(record, stored2)
  BY DEF CredentialsKept, Current

LEMMA CallStaysSound ==
    ASSUME NEW call, NEW stored, NEW stored2, NEW emails, NEW emails2,
           NEW history, NEW history2, NEW tokens, NEW tokens2,
           CallSound(call, stored, emails, history, tokens),
           CredentialsKept(stored, stored2), UsersKept(emails, emails2),
           history \subseteq history2, tokens \subseteq tokens2
    PROVE  CallSound(call, stored2, emails2, history2, tokens2)
  <1>1. LoggedIn(history) \subseteq LoggedIn(history2)
    BY DEF LoggedIn
  <1> QED BY <1>1, AccountStays, SavedStaysSound, EvidenceStays, CurrentStays DEF CallSound

LEMMA CommitsStaySound ==
    ASSUME NEW history, NEW stored, NEW stored2, NEW emails, NEW emails2,
           NEW tokens, NEW tokens2, CommitsSound(history, stored, emails, tokens),
           CredentialsKept(stored, stored2), UsersKept(emails, emails2),
           tokens \subseteq tokens2
    PROVE  CommitsSound(history, stored2, emails2, tokens2)
  BY EvidenceStays, CurrentStays DEF CommitsSound

LEMMA StatesStaySound ==
    ASSUME NEW open, NEW open2, NEW emails, NEW emails2, NEW tokens, NEW tokens2,
           StatesSound(open, emails, tokens), UsersKept(emails, emails2),
           tokens \subseteq tokens2,
           \A id \in DOMAIN open2 : id \in DOMAIN open /\ open2[id] = open[id]
    PROVE  StatesSound(open2, emails2, tokens2)
  BY SavedStaysSound DEF StatesSound

LEMMA SessionsStaySound ==
    ASSUME NEW entries, NEW entries2, NEW history, NEW history2, NEW tokens, NEW tokens2,
           SessionsSound(entries, history, tokens), history \subseteq history2,
           tokens \subseteq tokens2,
           \A s \in DOMAIN entries2 : s \in DOMAIN entries /\ entries2[s] = entries[s]
    PROVE  SessionsSound(entries2, history2, tokens2)
  <1>1. LoggedIn(history) \subseteq LoggedIn(history2)
    BY DEF LoggedIn
  <1> QED BY <1>1 DEF SessionsSound

LEMMA CredentialsStaySound ==
    ASSUME NEW stored, NEW index, NEW emails, NEW emails2,
           CredentialsSound(stored, index, emails), UsersKept(emails, emails2)
    PROVE  CredentialsSound(stored, index, emails2)
  <1>1. \A c \in DOMAIN stored : \E e \in DOMAIN emails2 : emails2[e] = stored[c].user
    BY DEF CredentialsSound, UsersKept, Account
  <1> QED BY <1>1 DEF CredentialsSound

LEMMA NothingLost ==
    /\ \A emails : UsersKept(emails, emails)
    /\ \A stored : CredentialsKept(stored, stored)
  BY DEF UsersKept, CredentialsKept, Account

LEMMA IdleSound ==
    ASSUME NEW stored, NEW emails, NEW history, NEW tokens
    PROVE  CallSound(Idle, stored, emails, history, tokens) /\ Idle.pc = "idle"
  BY DEF CallSound, Idle, Kinds

\* A handler moves one token: into its own hands, into the store, or to the
\* spent ones.
LEMMA TokenMoves ==
    ASSUME E2EInv, NEW r \in Requests, NEW call, Goto(r, call),
           NEW token, NEW open, NEW spent,
           open \subseteq DOMAIN states \cup {token},
           spent \subseteq SpentIn(commits) \cup {token},
           ~(token \in open /\ token \in spent),
           \A q \in Requests \ {r} : calls[q].pc # "idle" => calls[q].id # token,
           call.pc # "idle" =>
               /\ call.id = token /\ token \notin open
               /\ call.pc # "set session" => token \notin spent
    PROVE  TokensApart(calls', open, spent)
  <1>1. \A q \in Requests : calls'[q] = IF q = r THEN call ELSE calls[q]
    BY DEF E2EInv, Goto
  <1>2. TokensApart(calls, DOMAIN states, SpentIn(commits))
    BY DEF E2EInv
  <1>3. ASSUME NEW i \in open, i \in spent PROVE FALSE
    BY <1>2, <1>3 DEF TokensApart
  <1>4. ASSUME NEW p \in Requests, calls'[p].pc # "idle"
        PROVE  /\ calls'[p].id \notin open
               /\ calls'[p].pc # "set session" => calls'[p].id \notin spent
               /\ \A q \in Requests \ {p} :
                      calls'[q].pc # "idle" => calls'[q].id # calls'[p].id
    <2>1. CASE p = r
      <3>1. calls'[p] = call /\ \A q \in Requests \ {p} : calls'[q] = calls[q]
        BY <1>1, <2>1
      <3> QED BY <1>4, <2>1, <3>1
    <2>2. CASE p # r
      <3>1. calls'[p] = calls[p] /\ calls[p].id # token
        BY <1>1, <1>4, <2>2
      <3>2. /\ calls'[p].id \notin open
            /\ calls'[p].pc # "set session" => calls'[p].id \notin spent
        BY <1>2, <1>4, <3>1 DEF TokensApart
      <3>3. ASSUME NEW q \in Requests \ {p}, calls'[q].pc # "idle"
            PROVE  calls'[q].id # calls'[p].id
        <4>1. CASE q = r
          BY <1>1, <3>1, <3>3, <4>1
        <4>2. CASE q # r
          BY <1>1, <1>2, <1>4, <3>1, <3>3, <4>2 DEF TokensApart
        <4> QED BY <4>1, <4>2
      <3> QED BY <3>2, <3>3
    <2> QED BY <2>1, <2>2
  <1> QED BY <1>3, <1>4 DEF TokensApart

\* A handler lets go of its token, or has none.
LEMMA TokenReleased ==
    ASSUME E2EInv, NEW r \in Requests, Return(r), NEW open \in SUBSET DOMAIN states
    PROVE  TokensApart(calls', open, SpentIn(commits))
  <1>1. \A q \in Requests : calls'[q] = IF q = r THEN Idle ELSE calls[q]
    BY DEF E2EInv, Return, Goto
  <1>2. TokensApart(calls, DOMAIN states, SpentIn(commits))
    BY DEF E2EInv
  <1>3. open \cap SpentIn(commits) = {}
    BY <1>2 DEF TokensApart
  <1>4. ASSUME NEW p \in Requests, calls'[p].pc # "idle"
        PROVE  /\ calls'[p].id \notin open
               /\ calls'[p].pc # "set session" => calls'[p].id \notin SpentIn(commits)
               /\ \A q \in Requests \ {p} :
                      calls'[q].pc # "idle" => calls'[q].id # calls'[p].id
    <2>1. p # r /\ calls'[p] = calls[p]
      BY <1>1, <1>4, IdleSound
    <2>2. \A q \in Requests \ {p} : calls'[q].pc # "idle" => calls'[q] = calls[q]
      BY <1>1, IdleSound
    <2> QED BY <1>2, <1>4, <2>1, <2>2 DEF TokensApart
  <1> QED BY <1>3, <1>4 DEF TokensApart

\* The token a handler holds is its own.
LEMMA TokenHeld ==
    ASSUME E2EInv, NEW r \in Requests, calls[r].pc # "idle"
    PROVE  /\ calls[r].id \notin DOMAIN states
           /\ calls[r].pc # "set session" => calls[r].id \notin SpentIn(commits)
           /\ \A q \in Requests \ {r} : calls[q].pc # "idle" => calls[q].id # calls[r].id
  BY DEF E2EInv, TokensApart

\* A token that was never drawn is nowhere.
LEMMA TokenFresh ==
    ASSUME E2EInv, NEW id, id \notin issued
    PROVE  /\ id \notin DOMAIN states
           /\ id \notin SpentIn(commits)
           /\ \A q \in Requests : calls[q].pc # "idle" => calls[q].id # id
  <1>1. id \notin DOMAIN states
    BY DEF E2EInv, StatesSound
  <1>2. id \notin SpentIn(commits)
    BY DEF E2EInv, CommitsSound, SpentIn
  <1>3. \A q \in Requests : calls[q].pc # "idle" => calls[q].id # id
    BY DEF E2EInv, CallSound
  <1> QED BY <1>1, <1>2, <1>3

\* A handler moves on: the parts that are about the stores are given.
LEMMA HandlerStep ==
    ASSUME E2EInv, NEW r \in Requests, NEW call, Goto(r, call),
           CallSound(call, byID', usersByEmail', commits', issued'),
           UsersKept(usersByEmail, usersByEmail'), CredentialsKept(byID, byID'),
           commits \subseteq commits', issued \subseteq issued',
           UsersSound(usersByEmail', usersByHandle'),
           StatesSound(states', usersByEmail', issued'),
           CredentialsSound(byID', byUser', usersByEmail'),
           CommitsSound(commits', byID', usersByEmail', issued'),
           SessionsSound(sessions', commits', issued'),
           TokensApart(calls', DOMAIN states', SpentIn(commits'))
    PROVE  E2EInv'
  <1>1. /\ DOMAIN calls' = Requests
        /\ \A q \in Requests : calls'[q] = IF q = r THEN call ELSE calls[q]
    BY DEF Goto, E2EInv
  <1>2. \A q \in Requests : CallSound(calls'[q], byID', usersByEmail', commits', issued')
    BY <1>1, CallStaysSound DEF E2EInv
  <1> QED BY <1>1, <1>2 DEF E2EInv

\* Nothing is written to the credentials or the history.
LEMMA QuietStep ==
    ASSUME E2EInv, NEW r \in Requests, NEW call, Goto(r, call),
           UNCHANGED <<Credentials, commits>>, issued \subseteq issued',
           UsersKept(usersByEmail, usersByEmail'),
           UsersSound(usersByEmail', usersByHandle'),
           CallSound(call, byID, usersByEmail', commits, issued'),
           StatesSound(states', usersByEmail', issued'),
           SessionsSound(sessions', commits, issued'),
           TokensApart(calls', DOMAIN states', SpentIn(commits))
    PROVE  E2EInv'
  <1>1. byID' = byID /\ byUser' = byUser /\ commits' = commits
    BY DEF Credentials
  <1>2. CommitsSound(commits, byID, usersByEmail', issued')
    BY NothingLost, CommitsStaySound DEF E2EInv
  <1>3. CredentialsSound(byID, byUser, usersByEmail')
    BY CredentialsStaySound DEF E2EInv
  <1> QED BY <1>1, <1>2, <1>3, NothingLost, HandlerStep

\* A local step of a handler, which keeps its token.
LEMMA LocalStep ==
    ASSUME E2EInv, NEW r \in Requests, NEW call, Goto(r, call),
           UNCHANGED <<Users, states, Credentials, sessions, issued, commits>>,
           CallSound(call, byID, usersByEmail, commits, issued),
           calls[r].pc \notin {"idle", "set session"},
           call.id = calls[r].id, call.pc # "set session"
    PROVE  E2EInv'
  <1>1. usersByEmail' = usersByEmail /\ usersByHandle' = usersByHandle
    BY DEF Users
  <1>2. TokensApart(calls', DOMAIN states', SpentIn(commits))
    <2>1. PICK token : token = calls[r].id
      OBVIOUS
    <2>2. /\ token \notin DOMAIN states /\ token \notin SpentIn(commits)
          /\ \A q \in Requests \ {r} : calls[q].pc # "idle" => calls[q].id # token
      BY <2>1, TokenHeld
    <2>3. call.pc # "idle" =>
              /\ call.id = token /\ token \notin DOMAIN states
              /\ call.pc # "set session" => token \notin SpentIn(commits)
      BY <2>1, <2>2
    <2>4. TokensApart(calls', DOMAIN states, SpentIn(commits))
      BY <2>2, <2>3, TokenMoves, ZenonT(40)
    <2> QED BY <2>4
  <1> QED BY <1>1, <1>2, NothingLost, QuietStep DEF E2EInv

LEMMA LocalReturn ==
    ASSUME E2EInv, NEW r \in Requests, Return(r),
           UNCHANGED <<Users, states, Credentials, sessions, issued, commits>>
    PROVE  E2EInv'
  <1>1. usersByEmail' = usersByEmail /\ usersByHandle' = usersByHandle
    BY DEF Users
  <1>2. TokensApart(calls', DOMAIN states', SpentIn(commits))
    BY TokenReleased
  <1> QED BY <1>1, <1>2, IdleSound, NothingLost, QuietStep DEF E2EInv, Return

-----------------------------------------------------------------------------
(***************************************************************************)
(* The invariant is inductive: one lemma per action.                       *)
(***************************************************************************)

LEMMA InitSound == Init => E2EInv
  <1> SUFFICES ASSUME Init PROVE E2EInv
    OBVIOUS
  <1>1. DOMAIN calls = Requests /\ \A r \in Requests : calls[r] = Idle /\ calls[r].pc = "idle"
    BY IdleSound DEF Init
  <1>2. \A r \in Requests : CallSound(calls[r], byID, usersByEmail, commits, issued)
    BY <1>1, IdleSound
  <1>3. DOMAIN states = {} /\ DOMAIN sessions = {} /\ commits = {}
    BY DEF Init, NoEntries
  <1>4. UsersSound(usersByEmail, usersByHandle)
    <2>1. /\ DOMAIN usersByHandle = {InitialUsers[e] : e \in DOMAIN InitialUsers}
          /\ \A h \in DOMAIN usersByHandle :
                 usersByHandle[h] = CHOOSE e \in DOMAIN InitialUsers : InitialUsers[e] = h
          /\ usersByEmail = InitialUsers
      BY DEF Init
    <2>2. ASSUME NEW h \in DOMAIN usersByHandle
          PROVE  usersByHandle[h] \in DOMAIN InitialUsers /\ InitialUsers[usersByHandle[h]] = h
      <3>1. PICK e \in DOMAIN InitialUsers : InitialUsers[e] = h
        BY <2>1
      <3> QED BY <2>1, <3>1
    <2>3. ASSUME NEW e \in DOMAIN InitialUsers
          PROVE  InitialUsers[e] \in DOMAIN usersByHandle /\ usersByHandle[InitialUsers[e]] = e
      <3>1. InitialUsers[e] \in DOMAIN usersByHandle
        BY <2>1
      <3> QED BY <2>2, <3>1, InitialStoreAssumption
    <2> QED BY <2>1, <2>2, <2>3, InitialStoreAssumption DEF UsersSound, Account
  <1>5. CredentialsSound(byID, byUser, usersByEmail)
    <2>1. /\ DOMAIN byID \subseteq CredentialIDs
          /\ \A c \in DOMAIN byID :
                 /\ byID[c] \in CredentialRecord /\ byID[c].id = c
                 /\ \E e \in DOMAIN usersByEmail : usersByEmail[e] = byID[c].user
      BY InitialStoreAssumption DEF Init
    <2>2. /\ DOMAIN byUser = {byID[c].user : c \in DOMAIN byID}
          /\ \A h \in DOMAIN byUser : byUser[h] = {c \in DOMAIN byID : byID[c].user = h}
      BY DEF Init
    <2>3. \A h : Listed(byUser, h) = {c \in DOMAIN byID : byID[c].user = h}
      BY <2>2 DEF Listed
    <2> QED BY <2>1, <2>3 DEF CredentialsSound
  <1>6. TokensApart(calls, DOMAIN states, SpentIn(commits))
    BY <1>1, <1>3 DEF TokensApart
  <1>7. /\ StatesSound(states, usersByEmail, issued)
        /\ CommitsSound(commits, byID, usersByEmail, issued)
        /\ SessionsSound(sessions, commits, issued)
    BY <1>3 DEF StatesSound, CommitsSound, SessionsSound
  <1> QED BY <1>1, <1>2, <1>4, <1>5, <1>6, <1>7 DEF E2EInv

LEMMA TokenDrawn ==
    ASSUME E2EInv, NEW r \in Requests, NEW call, Goto(r, call),
           NEW id, id \notin issued, call.id = id, call.pc # "set session"
    PROVE  TokensApart(calls', DOMAIN states, SpentIn(commits))
  <1>1. /\ id \notin DOMAIN states /\ id \notin SpentIn(commits)
        /\ \A q \in Requests \ {r} : calls[q].pc # "idle" => calls[q].id # id
    BY TokenFresh
  <1>2. call.pc # "idle" =>
            /\ call.id = id /\ id \notin DOMAIN states
            /\ call.pc # "set session" => id \notin SpentIn(commits)
    BY <1>1
  <1> QED BY <1>1, <1>2, TokenMoves, ZenonT(40)

\* A handler arrives with a token of its own.
LEMMA ArriveStep ==
    ASSUME E2EInv, NEW r \in Requests, NEW id \in CeremonyIDs, NEW call, Goto(r, call),
           Fresh(id), call.id = id, call.pc # "set session",
           UNCHANGED <<states, Credentials, sessions, commits>>,
           UsersKept(usersByEmail, usersByEmail'),
           UsersSound(usersByEmail', usersByHandle'),
           CallSound(call, byID, usersByEmail', commits, issued')
    PROVE  E2EInv'
  <1>1. id \notin issued /\ issued' = issued \cup {id}
    BY DEF Fresh
  <1>2. StatesSound(states', usersByEmail', issued')
    BY <1>1, StatesStaySound DEF E2EInv
  <1>3. SessionsSound(sessions', commits, issued')
    BY <1>1, SessionsStaySound DEF E2EInv
  <1>4. TokensApart(calls', DOMAIN states, SpentIn(commits))
    BY <1>1, TokenDrawn
  <1> QED BY <1>1, <1>2, <1>3, <1>4, QuietStep

LEMMA UsersStay ==
    ASSUME E2EInv, UNCHANGED Users
    PROVE  /\ UsersKept(usersByEmail, usersByEmail')
           /\ UsersSound(usersByEmail', usersByHandle')
           /\ usersByEmail' = usersByEmail
  BY NothingLost DEF Users, E2EInv

\* getOrCreateUser keeps the two indexes inverse to each other.
LEMMA GetOrCreateUserSound ==
    ASSUME E2EInv, NEW email \in Emails, NEW handle \in UserHandles,
           GetOrCreateUser(email, handle)
    PROVE  /\ UsersKept(usersByEmail, usersByEmail')
           /\ UsersSound(usersByEmail', usersByHandle')
           /\ Account(usersByEmail', email, handle)
  <1>1. UsersSound(usersByEmail, usersByHandle)
    BY DEF E2EInv
  <1>2. CASE email \in DOMAIN usersByEmail
    <2>1. handle = usersByEmail[email] /\ UNCHANGED Users
      BY <1>2 DEF GetOrCreateUser
    <2> QED BY <1>2, <2>1, UsersStay DEF Account
  <1>3. CASE email \notin DOMAIN usersByEmail
    <2>1. /\ handle \notin DOMAIN usersByHandle
          /\ usersByEmail' = With(usersByEmail, email, handle)
          /\ usersByHandle' = With(usersByHandle, handle, email)
      BY <1>3 DEF GetOrCreateUser
    <2>2. /\ DOMAIN usersByEmail' = DOMAIN usersByEmail \cup {email}
          /\ usersByEmail'[email] = handle
          /\ \A e \in DOMAIN usersByEmail : usersByEmail'[e] = usersByEmail[e]
      BY <1>3, <2>1 DEF With
    <2>3. /\ DOMAIN usersByHandle' = DOMAIN usersByHandle \cup {handle}
          /\ usersByHandle'[handle] = email
          /\ \A h \in DOMAIN usersByHandle : usersByHandle'[h] = usersByHandle[h]
      BY <2>1 DEF With
    <2>4. UsersKept(usersByEmail, usersByEmail') /\ Account(usersByEmail', email, handle)
      BY <2>2 DEF UsersKept, Account
    <2>5. UsersSound(usersByEmail', usersByHandle')
      BY <1>1, <2>2, <2>3 DEF UsersSound, Account
    <2> QED BY <2>4, <2>5
  <1> QED BY <1>2, <1>3

LEMMA RegisterOptionsSound ==
    ASSUME E2EInv, NEW r \in Requests, NEW email \in Emails, NEW mode,
           NEW handle \in UserHandles, NEW id \in CeremonyIDs,
           RegisterOptions(r, email, mode, handle, id)
    PROVE  E2EInv'
  <1> DEFINE rp == Relying(UserVerificationForMode(mode))
             state == RegistrationState(rp, handle, NoExtensions, FALSE, id, now)
             saved == [kind |-> "registration", email |-> email, state |-> state]
             call == [pc |-> "save", id |-> id, saved |-> saved]
  <1>1. /\ Fresh(id) /\ GetOrCreateUser(email, handle) /\ Goto(r, call)
        /\ UNCHANGED <<now, states, Credentials, sessions, commits>>
    BY DEF RegisterOptions
  <1>2. /\ UsersKept(usersByEmail, usersByEmail')
        /\ UsersSound(usersByEmail', usersByHandle')
        /\ Account(usersByEmail', email, handle)
    BY <1>1, GetOrCreateUserSound
  <1>3. rp.rpId = RP.rpId
    BY DEF Relying
  <1>4. state.challenge = id /\ state.user = handle /\ state.rpId = RP.rpId
    BY <1>3 DEF RegistrationState
  <1> HIDE DEF state
  <1>5. saved.kind = "registration" /\ saved.email = email /\ saved.state = state
    OBVIOUS
  <1> HIDE DEF saved
  <1>6. call.pc = "save" /\ call.id = id /\ call.saved = saved
    OBVIOUS
  <1> HIDE DEF call
  <1>7. email # None
    BY E2EAppAssumption
  <1>8. SavedSound(saved, id, usersByEmail')
    BY <1>2, <1>4, <1>5, <1>7 DEF SavedSound, Kinds
  <1>9. CallSound(call, byID, usersByEmail', commits, issued')
    BY <1>1, <1>6, <1>8 DEF CallSound, Kinds, Fresh
  <1> QED BY <1>1, <1>2, <1>6, <1>9, ArriveStep

LEMMA LoginOptionsRoamingSound ==
    ASSUME E2EInv, NEW r \in Requests, NEW email, NEW id \in CeremonyIDs,
           LoginOptionsRoaming(r, email, id)
    PROVE  E2EInv'
  <1> DEFINE call == [pc |-> "list", id |-> id, email |-> email,
                      user |-> usersByEmail[email]]
  <1>1. /\ Fresh(id) /\ Goto(r, call) /\ email \in DOMAIN usersByEmail
        /\ UNCHANGED <<Users, states, Credentials, sessions, commits>>
    BY DEF LoginOptionsRoaming
  <1>2. /\ call.pc = "list" /\ call.id = id /\ call.email = email
        /\ call.user = usersByEmail[email]
    OBVIOUS
  <1> HIDE DEF call
  <1>3. CallSound(call, byID, usersByEmail', commits, issued')
    BY <1>1, <1>2, UsersStay DEF CallSound, Kinds, Fresh, Account
  <1> QED BY <1>1, <1>2, <1>3, UsersStay, ArriveStep

\* The ceremony of a login as it is saved.
LEMMA SavedLoginSound ==
    ASSUME NEW mode, NEW email, NEW expected, NEW allow, NEW id, NEW emails,
           email # None => Account(emails, email, expected)
    PROVE  SavedSound(SavedLogin(mode, email, expected, allow, id), id, emails)
  BY DEF SavedSound, SavedLogin, AuthenticationState, Kinds

LEMMA LoginOptionsSound ==
    ASSUME E2EInv, NEW r \in Requests, NEW id \in CeremonyIDs, LoginOptions(r, id)
    PROVE  E2EInv'
  <1> DEFINE saved == SavedLogin("platform", None, None, {}, id)
             call == [pc |-> "save", id |-> id, saved |-> saved]
  <1>1. /\ Fresh(id) /\ Goto(r, call)
        /\ UNCHANGED <<Users, states, Credentials, sessions, commits>>
    BY DEF LoginOptions
  <1>2. SavedSound(saved, id, usersByEmail)
    BY SavedLoginSound
  <1> HIDE DEF saved
  <1>3. call.pc = "save" /\ call.id = id /\ call.saved = saved
    OBVIOUS
  <1> HIDE DEF call
  <1>4. CallSound(call, byID, usersByEmail', commits, issued')
    BY <1>1, <1>2, <1>3, UsersStay DEF CallSound, Kinds, Fresh
  <1> QED BY <1>1, <1>3, <1>4, UsersStay, ArriveStep

LEMMA ListCredentialsSound ==
    ASSUME E2EInv, NEW r \in Requests, ListCredentials(r)
    PROVE  E2EInv'
  <1> DEFINE call == calls[r]
             saved == SavedLogin("roaming", call.email, call.user, byUser[call.user], call.id)
             next == [pc |-> "save", id |-> call.id, saved |-> saved]
  <1>1. /\ call.pc = "list"
        /\ UNCHANGED <<now, Users, states, Credentials, sessions, issued, commits>>
        /\ Return(r) \/ Goto(r, next)
    BY DEF ListCredentials, At
  <1>2. CASE Return(r)
    BY <1>1, <1>2, LocalReturn
  <1>3. CASE Goto(r, next)
    <2>1. Account(usersByEmail, call.email, call.user) /\ call.id \in CeremonyIDs \cap issued
      BY <1>1 DEF E2EInv, CallSound
    <2>2. SavedSound(saved, call.id, usersByEmail)
      BY <2>1, SavedLoginSound
    <2> HIDE DEF saved
    <2>3. next.pc = "save" /\ next.id = call.id /\ next.saved = saved
      OBVIOUS
    <2> HIDE DEF next
    <2>4. CallSound(next, byID, usersByEmail, commits, issued)
      BY <2>1, <2>2, <2>3 DEF CallSound, Kinds
    <2> QED BY <1>1, <1>3, <2>3, <2>4, LocalStep
  <1> QED BY <1>1, <1>2, <1>3

LEMMA SaveStateSound ==
    ASSUME E2EInv, NEW r \in Requests, SaveState(r)
    PROVE  E2EInv'
  <1> DEFINE call == calls[r]
  <1>1. /\ call.pc = "save" /\ Return(r)
        /\ states' = With(states, call.id, call.saved)
        /\ UNCHANGED <<now, Users, Credentials, sessions, issued, commits>>
    BY DEF SaveState, At
  <1>2. SavedSound(call.saved, call.id, usersByEmail) /\ call.id \in CeremonyIDs \cap issued
    BY <1>1 DEF E2EInv, CallSound
  <1>3. /\ DOMAIN states' = DOMAIN states \cup {call.id}
        /\ \A i \in DOMAIN states' :
               states'[i] = IF i = call.id THEN call.saved ELSE states[i]
    BY <1>1 DEF With
  <1>4. StatesSound(states', usersByEmail, issued)
    BY <1>2, <1>3 DEF E2EInv, StatesSound
  <1>5. TokensApart(calls', DOMAIN states', SpentIn(commits))
    <2>1. PICK token : token = call.id
      OBVIOUS
    <2>2. /\ token \notin SpentIn(commits)
          /\ \A q \in Requests \ {r} : calls[q].pc # "idle" => calls[q].id # token
      BY <1>1, <2>1, TokenHeld
    <2>3. PICK open : open = DOMAIN states'
      OBVIOUS
    <2>4. open \subseteq DOMAIN states \cup {token}
      BY <1>3, <2>1, <2>3
    <2>5. TokensApart(calls', open, SpentIn(commits))
      BY <1>1, <2>2, <2>4, IdleSound, TokenMoves, ZenonT(40) DEF Return
    <2> QED BY <2>3, <2>5
  <1> QED BY <1>1, <1>4, <1>5, IdleSound, UsersStay, QuietStep DEF E2EInv, Return

LEMMA ConsumeSound ==
    ASSUME E2EInv, NEW r \in Requests, NEW kind \in Kinds, NEW email,
           NEW id \in CeremonyIDs, Consume(r, kind, email, id)
    PROVE  E2EInv'
  <1> DEFINE found == [pc |-> kind, id |-> id, email |-> email, saved |-> states[id]]
  <1>1. /\ calls[r].pc = "idle"
        /\ states' = IF Open(kind, id) THEN Without(states, {id}) ELSE states
        /\ UNCHANGED <<now, Users, Credentials, sessions, issued, commits>>
        /\ \/ Return(r)
           \/ Goto(r, found) /\ Open(kind, id) /\ EmailMatches(states[id], email)
    BY DEF Consume, At
  <1>2. \A i \in DOMAIN states' : i \in DOMAIN states /\ states'[i] = states[i]
    BY <1>1 DEF Without
  <1>3. StatesSound(states', usersByEmail, issued)
    <2>1. StatesSound(states, usersByEmail, issued)
      BY DEF E2EInv
    <2> QED BY <1>2, <2>1, NothingLost, StatesStaySound
  <1>4. CASE Return(r)
    <2>1. PICK open : open = DOMAIN states'
      OBVIOUS
    <2>2. open \in SUBSET DOMAIN states
      BY <1>2, <2>1
    <2>3. TokensApart(calls', open, SpentIn(commits))
      BY <1>4, <2>2, TokenReleased
    <2>4. TokensApart(calls', DOMAIN states', SpentIn(commits))
      BY <2>1, <2>3
    <2> QED BY <1>1, <1>3, <1>4, <2>4, IdleSound, UsersStay, QuietStep DEF E2EInv, Return
  <1>5. CASE Goto(r, found) /\ Open(kind, id) /\ EmailMatches(states[id], email)
    <2>1. id \in DOMAIN states /\ states[id].kind = kind
      BY <1>5 DEF Open
    <2>2. SavedSound(states[id], id, usersByEmail) /\ id \in CeremonyIDs \cap issued
      BY <2>1 DEF E2EInv, StatesSound
    <2>3. states[id].email # None => states[id].email = email
      BY <1>5 DEF EmailMatches
    <2>4. /\ found.pc = kind /\ found.id = id /\ found.email = email
          /\ found.saved = states[id]
      OBVIOUS
    <2> HIDE DEF found
    <2>5. CallSound(found, byID, usersByEmail, commits, issued)
      BY <2>1, <2>2, <2>3, <2>4 DEF CallSound, Kinds
    <2>6. TokensApart(calls', DOMAIN states', SpentIn(commits))
      <3>1. /\ id \notin SpentIn(commits)
            /\ \A q \in Requests \ {r} : calls[q].pc # "idle" => calls[q].id # id
        BY <2>1 DEF E2EInv, TokensApart
      <3>2. PICK open : open = DOMAIN states'
        OBVIOUS
      <3>3. open \subseteq DOMAIN states \cup {id} /\ id \notin open
        BY <1>1, <1>5, <3>2 DEF Without
      <3>4. found.pc # "idle" =>
                /\ found.id = id /\ id \notin open
                /\ found.pc # "set session" => id \notin SpentIn(commits)
        BY <2>4, <3>1, <3>3
      <3>5. TokensApart(calls', open, SpentIn(commits))
        BY <1>5, <3>1, <3>3, <3>4, TokenMoves, ZenonT(40)
      <3> QED BY <3>2, <3>5
    <2> QED BY <1>1, <1>3, <1>5, <2>5, <2>6, UsersStay, QuietStep DEF E2EInv
  <1> QED BY <1>1, <1>4, <1>5

\* The shim changes no member that verification reports on.
LEMMA NormalizedKeeps ==
    ASSUME NEW response
    PROVE  /\ Normalized(response).clientData = response.clientData
           /\ Normalized(response).attestationType = response.attestationType
  BY DEF Normalized

LEMMA VerifyRegistrationSound ==
    ASSUME E2EInv, NEW r \in Requests, NEW response \in Registrations,
           VerifyRegistration(r, response)
    PROVE  E2EInv'
  <1> DEFINE call == calls[r]
             state == call.saved.state
             record == RegisteredCredential(state, response)
             next == [pc |-> "insert", id |-> call.id, saved |-> call.saved,
                      email |-> call.email, response |-> response,
                      record |-> record, at |-> now]
  <1>1. /\ call.pc = "registration"
        /\ UNCHANGED <<now, Users, states, Credentials, sessions, issued, commits>>
        /\ \/ Return(r)
           \/ /\ Goto(r, next)
              /\ FinishRegistrationAccepts(Relying(state.uv), state, Normalized(response), now)
    BY DEF VerifyRegistration, At
  <1>2. CASE Return(r)
    BY <1>1, <1>2, LocalReturn
  <1>3. CASE /\ Goto(r, next)
             /\ FinishRegistrationAccepts(Relying(state.uv), state, Normalized(response), now)
    <2>1. /\ SavedSound(call.saved, call.id, usersByEmail)
          /\ call.saved.kind = "registration"
          /\ call.saved.email # None => call.saved.email = call.email
          /\ call.id \in CeremonyIDs \cap issued
      BY <1>1 DEF E2EInv, CallSound, Kinds
    <2>2. /\ call.saved.email # None /\ Account(usersByEmail, call.saved.email, state.user)
          /\ state.rpId \in RPIDs /\ state.challenge = call.id
      BY <2>1, E2EAppAssumption DEF SavedSound
    <2>3. state.user \in UserHandles
      BY <2>2 DEF E2EInv, UsersSound, Account
    <2>4. /\ Established(Relying(state.uv), state, Normalized(response), now)
          /\ Normalized(response).attestationType \in KnownAttestationType
      BY <1>3, RegistrationAccepted
    <2>5. /\ response.clientData.challenge = call.id /\ now < state.expires
          /\ response.attestationType \in KnownAttestationType
      BY <2>2, <2>4, NormalizedKeeps DEF Established
    <2>6. record \in CredentialRecord
      BY <2>2, <2>3, <2>5, ResponsesAssumption, RegisteredTyped
    <2>7. record.user = state.user
      BY DEF RegisteredCredential
    <2> HIDE DEF record
    <2>8. /\ next.pc = "insert" /\ next.id = call.id /\ next.saved = call.saved
          /\ next.email = call.email /\ next.response = response
          /\ next.record = record /\ next.at = now
      OBVIOUS
    <2> HIDE DEF next
    <2>9. Evidence("registration", next.id, next.saved, next.email, next.response,
                   next.record, next.at, usersByEmail)
      BY <2>1, <2>2, <2>5, <2>7, <2>8 DEF Evidence
    <2>10. CallSound(next, byID, usersByEmail, commits, issued)
      BY <2>1, <2>2, <2>6, <2>7, <2>8, <2>9 DEF CallSound, Kinds
    <2> QED BY <1>1, <1>3, <2>8, <2>10, LocalStep
  <1> QED BY <1>1, <1>2, <1>3

LEMMA LookupSound ==
    ASSUME E2EInv, NEW r \in Requests, NEW response \in Assertions, Lookup(r, response)
    PROVE  E2EInv'
  <1> DEFINE call == calls[r]
             record == byID[response.rawId]
             next == [pc |-> "verify", id |-> call.id, saved |-> call.saved,
                      email |-> call.email, response |-> response, record |-> record]
  <1>1. /\ call.pc = "authentication"
        /\ UNCHANGED <<now, Users, states, Credentials, sessions, issued, commits>>
        /\ Return(r) \/ (Goto(r, next) /\ response.rawId \in DOMAIN byID)
    BY DEF Lookup, At
  <1>2. CASE Return(r)
    BY <1>1, <1>2, LocalReturn
  <1>3. CASE Goto(r, next) /\ response.rawId \in DOMAIN byID
    <2>1. /\ SavedSound(call.saved, call.id, usersByEmail)
          /\ call.saved.kind = "authentication"
          /\ call.saved.email # None => call.saved.email = call.email
          /\ call.id \in CeremonyIDs \cap issued
      BY <1>1 DEF E2EInv, CallSound, Kinds
    <2>2. record \in CredentialRecord /\ Current(record, byID)
      BY <1>3 DEF E2EInv, CredentialsSound, Current
    <2>3. /\ next.pc = "verify" /\ next.id = call.id /\ next.saved = call.saved
          /\ next.email = call.email /\ next.response = response /\ next.record = record
      OBVIOUS
    <2> HIDE DEF next, record
    <2>4. CallSound(next, byID, usersByEmail, commits, issued)
      BY <2>1, <2>2, <2>3 DEF CallSound, Kinds
    <2> QED BY <1>1, <1>3, <2>3, <2>4, LocalStep
  <1> QED BY <1>1, <1>2, <1>3

LEMMA VerifyAuthenticationSound ==
    ASSUME E2EInv, NEW r \in Requests, VerifyAuthentication(r)
    PROVE  E2EInv'
  <1> DEFINE call == calls[r]
             state == call.saved.state
             rp == Relying(state.uv)
             next == [pc |-> "update", id |-> call.id, saved |-> call.saved,
                      email |-> call.email, response |-> call.response,
                      record |-> call.record, at |-> now]
  <1>1. /\ call.pc = "verify"
        /\ UNCHANGED <<now, Users, states, Credentials, sessions, issued, commits>>
        /\ \/ Return(r)
           \/ /\ Goto(r, next)
              /\ FinishAuthenticationAccepts(rp, state, call.response, call.record, now)
    BY DEF VerifyAuthentication, At
  <1>2. CASE Return(r)
    BY <1>1, <1>2, LocalReturn
  <1>3. CASE /\ Goto(r, next)
             /\ FinishAuthenticationAccepts(rp, state, call.response, call.record, now)
    <2>1. CallSound(call, byID, usersByEmail, commits, issued)
      BY DEF E2EInv
    <2>2. /\ SavedSound(call.saved, call.id, usersByEmail)
          /\ call.saved.kind = "authentication"
          /\ call.saved.email # None => call.saved.email = call.email
          /\ call.id \in CeremonyIDs \cap issued
          /\ call.response \in Assertions
          /\ call.record \in CredentialRecord /\ Current(call.record, byID)
      BY <1>1, <2>1 DEF CallSound
    <2>3. rp.rejectCloneRisk
      BY E2EAppAssumption DEF Relying
    <2> HIDE DEF rp
    <2>4. /\ Established(rp, state, call.response, now)
          /\ state.expected \in {None, call.record.user}
          /\ call.response.signature.key = call.record.key
          /\ ~CloneRisk(call.record.signCount, call.response.authData.signCount)
      BY <1>3, <2>3, AssertionAccepted
    <2>5. /\ call.response.clientData.challenge = call.id /\ now < state.expires
      BY <2>2, <2>4 DEF Established, SavedSound
    <2>6. call.saved.email # None =>
              call.saved.email = call.email /\ Account(usersByEmail, call.email, call.record.user)
      <3> SUFFICES ASSUME call.saved.email # None
                   PROVE  Account(usersByEmail, call.email, call.record.user)
        BY <2>2
      <3>1. Account(usersByEmail, call.saved.email, state.expected)
        BY <2>2 DEF SavedSound
      <3>2. state.expected \in UserHandles
        BY <3>1 DEF E2EInv, UsersSound, Account
      <3>3. state.expected = call.record.user
        BY <2>4, <3>2, NoneAssumption
      <3> QED BY <2>2, <3>1, <3>3
    <2>7. /\ next.pc = "update" /\ next.id = call.id /\ next.saved = call.saved
          /\ next.email = call.email /\ next.response = call.response
          /\ next.record = call.record /\ next.at = now
      OBVIOUS
    <2> HIDE DEF next
    <2>8. Evidence("authentication", next.id, next.saved, next.email, next.response,
                   next.record, next.at, usersByEmail)
      BY <2>4, <2>5, <2>6, <2>7 DEF Evidence
    <2>9. CallSound(next, byID, usersByEmail, commits, issued)
      BY <2>2, <2>4, <2>7, <2>8 DEF CallSound, Kinds
    <2> QED BY <1>1, <1>3, <2>7, <2>9, LocalStep
  <1> QED BY <1>1, <1>2, <1>3

\* A handler writes a credential: its token is spent.
LEMMA TokenSpent ==
    ASSUME E2EInv, NEW r \in Requests, NEW call, Goto(r, call), NEW effect,
           calls[r].pc \notin {"idle", "set session"}, effect.ceremony = calls[r].id,
           call.pc = "set session", call.id = calls[r].id
    PROVE  TokensApart(calls', DOMAIN states, SpentIn(commits \cup {effect}))
  <1>1. PICK token, spent : token = calls[r].id /\ spent = SpentIn(commits \cup {effect})
    OBVIOUS
  <1>2. /\ token \notin DOMAIN states
        /\ \A q \in Requests \ {r} : calls[q].pc # "idle" => calls[q].id # token
    BY <1>1, TokenHeld
  <1>3. spent \subseteq SpentIn(commits) \cup {token}
    BY <1>1 DEF SpentIn
  <1>4. call.pc # "idle" =>
            /\ call.id = token /\ token \notin DOMAIN states
            /\ call.pc # "set session" => token \notin spent
    BY <1>1, <1>2
  <1>5. TokensApart(calls', DOMAIN states, spent)
    BY <1>2, <1>3, <1>4, TokenMoves
  <1> QED BY <1>1, <1>5

\* The steps that write a credential.
LEMMA WriteStep ==
    ASSUME E2EInv, NEW r \in Requests, NEW kind,
           calls[r].pc \notin {"idle", "set session"},
           Goto(r, [pc |-> "set session", id |-> calls[r].id, user |-> calls[r].record.user]),
           commits' = commits \cup {Commit(calls[r], kind)},
           UNCHANGED <<Users, states, sessions, issued>>,
           CredentialsKept(byID, byID'), CredentialsSound(byID', byUser', usersByEmail),
           Current(calls[r].record, byID'),
           Evidence(kind, calls[r].id, calls[r].saved, calls[r].email, calls[r].response,
                    calls[r].record, calls[r].at, usersByEmail)
    PROVE  E2EInv'
  <1> DEFINE call == calls[r]
             next == [pc |-> "set session", id |-> call.id, user |-> call.record.user]
             effect == Commit(call, kind)
  <1>1. /\ effect.kind = kind /\ effect.ceremony = call.id /\ effect.saved = call.saved
        /\ effect.email = call.email /\ effect.record = call.record
        /\ effect.response = call.response /\ effect.at = call.at
    BY DEF Commit
  <1>2. next.pc = "set session" /\ next.id = call.id /\ next.user = call.record.user
    OBVIOUS
  <1>3. Goto(r, next) /\ commits' = commits \cup {effect}
    OBVIOUS
  <1> HIDE DEF next, effect
  <1>4. call.id \in CeremonyIDs \cap issued
    BY DEF E2EInv, CallSound
  <1>5. CommitsSound(commits', byID', usersByEmail', issued')
    <2>1. CommitsSound(commits, byID', usersByEmail, issued)
      BY NothingLost, CommitsStaySound DEF E2EInv
    <2> QED BY <1>1, <1>3, <1>4, <2>1, UsersStay DEF CommitsSound
  <1>6. SessionsSound(sessions', commits', issued')
    BY <1>3, SessionsStaySound DEF E2EInv
  <1>7. TokensApart(calls', DOMAIN states', SpentIn(commits'))
    BY <1>1, <1>2, <1>3, TokenSpent
  <1>8. CallSound(next, byID', usersByEmail', commits', issued')
    <2>1. LoginOf(next) \in LoggedIn(commits')
      BY <1>1, <1>2, <1>3 DEF LoginOf, LoggedIn
    <2> QED BY <1>2, <1>4, <2>1 DEF CallSound, Kinds
  <1>9. StatesSound(states', usersByEmail', issued')
    BY UsersStay DEF E2EInv
  <1> QED BY <1>3, <1>5, <1>6, <1>7, <1>8, <1>9, UsersStay, HandlerStep

LEMMA InsertCredentialSound ==
    ASSUME E2EInv, NEW r \in Requests, InsertCredential(r)
    PROVE  E2EInv'
  <1> DEFINE call == calls[r]
             record == call.record
             next == [pc |-> "set session", id |-> call.id, user |-> record.user]
  <1>1. call.pc = "insert" /\ UNCHANGED <<now, Users, states, sessions, issued>>
    BY DEF InsertCredential, At
  <1>2. CASE Return(r) /\ UNCHANGED <<Credentials, commits>>
    BY <1>1, <1>2, LocalReturn
  <1>3. CASE /\ record.id \notin DOMAIN byID
             /\ byID' = With(byID, record.id, record)
             /\ byUser' = Indexed(record)
             /\ commits' = commits \cup {Commit(call, "registration")}
             /\ Goto(r, next)
    <2>1. /\ record \in CredentialRecord
          /\ Account(usersByEmail, call.saved.email, record.user)
          /\ Evidence("registration", call.id, call.saved, call.email, call.response,
                      record, call.at, usersByEmail)
      BY <1>1 DEF E2EInv, CallSound
    <2>2. record.id \in CredentialIDs
      BY <2>1 DEF CredentialRecord
    <2>3. /\ DOMAIN byID' = DOMAIN byID \cup {record.id}
          /\ byID'[record.id] = record
          /\ \A c \in DOMAIN byID : byID'[c] = byID[c]
      BY <1>3 DEF With
    <2>4. CredentialsKept(byID, byID') /\ Current(record, byID')
      BY <2>3 DEF CredentialsKept, Current
    <2>5. \A h : Listed(byUser', h) =
              IF h = record.user THEN {record.id} \cup Listed(byUser, h) ELSE Listed(byUser, h)
      BY <1>3 DEF Listed, Indexed, With
    <2>6. CredentialsSound(byID, byUser, usersByEmail)
      BY DEF E2EInv
    <2>7. \A h \in UserHandles : Listed(byUser', h) = {c \in DOMAIN byID' : byID'[c].user = h}
      <3> SUFFICES ASSUME NEW h \in UserHandles
                   PROVE  Listed(byUser', h) = {c \in DOMAIN byID' : byID'[c].user = h}
        OBVIOUS
      <3>1. Listed(byUser, h) = {c \in DOMAIN byID : byID[c].user = h}
        BY <2>6 DEF CredentialsSound
      <3>2. \A c \in DOMAIN byID' :
                byID'[c].user = h <=> \/ c = record.id /\ h = record.user
                                      \/ c \in DOMAIN byID /\ byID[c].user = h
        BY <1>3, <2>3
      <3>3. \A c : c \in Listed(byUser', h) <=>
                      \/ c = record.id /\ h = record.user
                      \/ c \in DOMAIN byID /\ byID[c].user = h
        <4>1. CASE h = record.user
          <5>1. Listed(byUser', h) = {record.id} \cup Listed(byUser, h)
            BY <2>5, <4>1
          <5> QED BY <3>1, <4>1, <5>1
        <4>2. CASE h # record.user
          <5>1. Listed(byUser', h) = Listed(byUser, h)
            BY <2>5, <4>2
          <5> QED BY <3>1, <4>2, <5>1
        <4> QED BY <4>1, <4>2
      <3> QED BY <2>3, <3>2, <3>3
    <2>8. \A c \in DOMAIN byID' : /\ byID'[c] \in CredentialRecord /\ byID'[c].id = c
                                  /\ \E e \in DOMAIN usersByEmail : usersByEmail[e] = byID'[c].user
      BY <2>1, <2>3, <2>6 DEF CredentialsSound, Account
    <2>9. CredentialsSound(byID', byUser', usersByEmail)
      BY <2>2, <2>3, <2>6, <2>7, <2>8 DEF CredentialsSound
    <2> QED BY <1>1, <1>3, <2>1, <2>4, <2>9, WriteStep
  <1> QED BY <1>2, <1>3 DEF InsertCredential

\* The update of a login, which writes no clone risk.
LoginUpdate(seen, flags, attachment) ==
    CredentialUpdate(seen, flags, attachment, FALSE, FALSE)

\* What an update that is written does to its credential.
LEMMA UpdateWrites ==
    ASSUME E2EInv, NEW r \in Requests, At(r, "update"),
           NEW update, update = LoginUpdate(calls[r].record, calls[r].response.authData,
                                            calls[r].response.attachment),
           UpdateAdmits(update)
    PROVE  LET id == calls[r].record.id
               new == Applied(update, byID[id])
           IN  /\ update.id = id /\ id \in DOMAIN byID
               /\ new \in CredentialRecord /\ new.id = id
               /\ new.user = byID[id].user /\ new.key = byID[id].key
               /\ new.signCount \in SignCount
               /\ \/ new.signCount > byID[id].signCount
                  \/ new.signCount = 0 /\ byID[id].signCount = 0
  <1> DEFINE call == calls[r]
             id == call.record.id
             seen == call.record
             flags == call.response.authData
             attachment == call.response.attachment
             record == byID[id]
             new == Applied(update, record)
  <1>1. CallSound(call, byID, usersByEmail, commits, issued) /\ call.pc = "update"
    BY DEF E2EInv, At
  <1>2. /\ call.response \in Assertions /\ seen \in CredentialRecord
        /\ id \in DOMAIN byID /\ ~CloneRisk(seen.signCount, flags.signCount)
    BY <1>1 DEF CallSound, Current
  <1>3. FlagsTyped(flags)
    BY <1>2, ResponsesAssumption
  <1>4. record \in CredentialRecord /\ record.id = id
    BY <1>2 DEF E2EInv, CredentialsSound
  <1>5. update.id = id
    BY DEF LoginUpdate, CredentialUpdate
  <1>6. UpdateMatches(update, record)
    BY <1>5 DEF UpdateAdmits
  <1>7. PICK onRisk : onRisk = FALSE
    OBVIOUS
  <1>8. update = PlainUpdate(seen, flags, attachment, onRisk)
    BY <1>7, Zenon DEF PlainUpdate, LoginUpdate
  <1> HIDE DEF flags, record, seen, attachment
  <1>9. /\ new \in CredentialRecord
        /\ new.id = record.id /\ new.user = record.user /\ new.key = record.key
        /\ new.signCount = NextSignCount(seen, flags, onRisk)
        /\ record.signCount = seen.signCount
    <2>1. new = Applied(update, record)
      OBVIOUS
    <2> HIDE DEF new
    <2> QED BY <1>2, <1>3, <1>4, <1>6, <1>8, <2>1, AppliedRecord
  <1> HIDE DEF new
  <1>10. /\ new.signCount \in SignCount
         /\ new.signCount > record.signCount \/ (new.signCount = 0 /\ record.signCount = 0)
    BY <1>2, <1>3, <1>9, NextSignCountAdvances
  <1> QED BY <1>2, <1>4, <1>5, <1>9, <1>10 DEF new, record

LEMMA UpdateCredentialSound ==
    ASSUME E2EInv, NEW r \in Requests, UpdateCredential(r)
    PROVE  E2EInv'
  <1> DEFINE call == calls[r]
             id == call.record.id
             update == LoginUpdate(call.record, call.response.authData,
                                   call.response.attachment)
             new == Applied(update, byID[id])
             next == [pc |-> "set session", id |-> call.id, user |-> call.record.user]
  <1>1. call.pc = "update" /\ UNCHANGED <<now, Users, states, byUser, sessions, issued>>
    BY DEF UpdateCredential, At
  <1>2. CASE Return(r) /\ UNCHANGED <<byID, commits>>
    BY <1>1, <1>2, LocalReturn DEF Credentials
  <1>3. CASE /\ UpdateAdmits(update)
             /\ byID' = [byID EXCEPT ![update.id] = Applied(update, @)]
             /\ commits' = commits \cup {Commit(call, "authentication")}
             /\ Goto(r, next)
    <2>1. /\ update.id = id /\ id \in DOMAIN byID
          /\ new \in CredentialRecord /\ new.id = id
          /\ new.user = byID[id].user /\ new.key = byID[id].key
      BY <1>1, <1>3, UpdateWrites DEF At
    <2> HIDE DEF update
    <2>2. /\ DOMAIN byID' = DOMAIN byID
          /\ \A c \in DOMAIN byID : byID'[c] = IF c = id THEN new ELSE byID[c]
      BY <1>3, <2>1
    <2> HIDE DEF new
    <2>3. CredentialsKept(byID, byID')
      BY <2>1, <2>2 DEF CredentialsKept
    <2>4. CredentialsSound(byID', byUser', usersByEmail)
      <3>1. CredentialsSound(byID, byUser, usersByEmail)
        BY DEF E2EInv
      <3>2. \A h : {c \in DOMAIN byID' : byID'[c].user = h} = {c \in DOMAIN byID : byID[c].user = h}
        BY <2>1, <2>2
      <3>3. \A c \in DOMAIN byID' :
                /\ byID'[c] \in CredentialRecord /\ byID'[c].id = c
                /\ \E e \in DOMAIN usersByEmail : usersByEmail[e] = byID'[c].user
        BY <2>1, <2>2, <3>1 DEF CredentialsSound
      <3> QED BY <1>1, <2>2, <3>1, <3>2, <3>3 DEF CredentialsSound
    <2>5. /\ Current(call.record, byID)
          /\ Evidence("authentication", call.id, call.saved, call.email, call.response,
                      call.record, call.at, usersByEmail)
      BY <1>1 DEF E2EInv, CallSound
    <2>6. Current(call.record, byID')
      BY <2>3, <2>5, CurrentStays
    <2> QED BY <1>1, <1>3, <2>3, <2>4, <2>5, <2>6, WriteStep
  <1> QED BY <1>2, <1>3 DEF UpdateCredential, LoginUpdate

LEMMA CreateSessionSound ==
    ASSUME E2EInv, NEW r \in Requests, NEW id \in SessionIDs, CreateSession(r, id)
    PROVE  E2EInv'
  <1> DEFINE login == [user |-> calls[r].user, ceremony |-> calls[r].id]
  <1>1. /\ calls[r].pc = "set session" /\ Return(r) /\ issued' = issued \cup {id}
        /\ sessions' = With(sessions, id, login)
        /\ UNCHANGED <<now, Users, states, Credentials, commits>>
    BY DEF CreateSession, At, Fresh
  <1>2. login \in LoggedIn(commits)
    BY <1>1 DEF E2EInv, CallSound, LoginOf
  <1> HIDE DEF login
  <1>3. /\ DOMAIN sessions' = DOMAIN sessions \cup {id}
        /\ \A s \in DOMAIN sessions' : sessions'[s] = IF s = id THEN login ELSE sessions[s]
    BY <1>1 DEF With
  <1>4. SessionsSound(sessions', commits, issued')
    BY <1>1, <1>2, <1>3 DEF E2EInv, SessionsSound
  <1>5. StatesSound(states', usersByEmail, issued')
    BY <1>1, NothingLost, StatesStaySound DEF E2EInv
  <1>6. TokensApart(calls', DOMAIN states', SpentIn(commits))
    BY <1>1, TokenReleased
  <1> QED BY <1>1, <1>4, <1>5, <1>6, IdleSound, UsersStay, QuietStep DEF Return

LEMMA E2EInvInductive == E2EInv /\ [Next]_vars => E2EInv'
  <1> SUFFICES ASSUME E2EInv, [Next]_vars PROVE E2EInv'
    OBVIOUS
  <1>1. ASSUME NEW r \in Requests, Arrive(r) PROVE E2EInv'
    <2>1. PICK id \in CeremonyIDs :
              \/ LoginOptions(r, id)
              \/ \E email \in Emails :
                     \/ \E mode \in {"platform", "roaming"}, handle \in UserHandles :
                            RegisterOptions(r, email, mode, handle, id)
                     \/ LoginOptionsRoaming(r, email, id)
                     \/ Consume(r, "registration", email, id)
              \/ \E email \in Emails \cup {None} : Consume(r, "authentication", email, id)
      BY <1>1 DEF Arrive
    <2>2. "registration" \in Kinds /\ "authentication" \in Kinds
      BY DEF Kinds
    <2> QED BY <2>1, <2>2, LoginOptionsSound, RegisterOptionsSound,
                LoginOptionsRoamingSound, ConsumeSound
  <1>2. ASSUME NEW r \in Requests, Step(r) PROVE E2EInv'
    <2>1. CASE SaveState(r)
      BY <2>1, SaveStateSound
    <2>2. CASE \E response \in Registrations : VerifyRegistration(r, response)
      BY <2>2, VerifyRegistrationSound
    <2>3. CASE InsertCredential(r)
      BY <2>3, InsertCredentialSound
    <2>4. CASE ListCredentials(r)
      BY <2>4, ListCredentialsSound
    <2>5. CASE \E response \in Assertions : Lookup(r, response)
      BY <2>5, LookupSound
    <2>6. CASE VerifyAuthentication(r)
      BY <2>6, VerifyAuthenticationSound
    <2>7. CASE UpdateCredential(r)
      BY <2>7, UpdateCredentialSound
    <2>8. CASE \E id \in SessionIDs : CreateSession(r, id)
      BY <2>8, CreateSessionSound
    <2>9. CASE TokenFails(r)
      BY <2>9, LocalReturn DEF TokenFails
    <2> QED BY <1>2, <2>1, <2>2, <2>3, <2>4, <2>5, <2>6, <2>7, <2>8, <2>9 DEF Step
  <1>3. ASSUME UNCHANGED <<Users, states, Credentials, calls, issued, commits>>,
               \A s \in DOMAIN sessions' : s \in DOMAIN sessions /\ sessions'[s] = sessions[s]
        PROVE  E2EInv'
    <2>1. SessionsSound(sessions', commits, issued)
      BY <1>3, SessionsStaySound DEF E2EInv
    <2> QED BY <1>3, <2>1 DEF E2EInv, Users, Credentials
  <1>4. ASSUME NEW id \in SessionIDs, Logout(id) PROVE E2EInv'
    <2>1. \A s \in DOMAIN sessions' : s \in DOMAIN sessions /\ sessions'[s] = sessions[s]
      BY <1>4 DEF Logout, Without
    <2> QED BY <1>3, <1>4, <2>1 DEF Logout
  <1>5. CASE Tick
    BY <1>3, <1>5 DEF Tick
  <1>6. CASE UNCHANGED vars
    BY <1>3, <1>6 DEF vars, Users, Credentials
  <1> QED BY <1>1, <1>2, <1>4, <1>5, <1>6 DEF Next

LEMMA E2EInvHolds == Spec => []E2EInv
  BY InitSound, E2EInvInductive, PTL DEF Spec

\* An owner of a login has an account, under an address.
LEMMA LoginHasAccount ==
    ASSUME E2EInv, NEW c \in commits
    PROVE  /\ Current(c.record, byID)
           /\ c.record.user \in DOMAIN usersByHandle
           /\ usersByHandle[c.record.user] # None
           /\ \A email : Account(usersByEmail, email, c.record.user) =>
                  usersByHandle[c.record.user] = email
  <1>1. Current(c.record, byID)
    BY DEF E2EInv, CommitsSound
  <1>2. PICK e \in DOMAIN usersByEmail : usersByEmail[e] = c.record.user
    BY <1>1 DEF E2EInv, CredentialsSound, Current
  <1>3. c.record.user \in DOMAIN usersByHandle /\ usersByHandle[c.record.user] = e /\ e \in Emails
    BY <1>2 DEF E2EInv, UsersSound
  <1>4. \A email : Account(usersByEmail, email, c.record.user) =>
            usersByHandle[c.record.user] = email
    BY DEF E2EInv, UsersSound, Account
  <1> QED BY <1>1, <1>3, <1>4, E2EAppAssumption

\* Theorem: for any number of handlers and accounts, the indexes of the store
\* agree at every moment, and every owner and every session has an account
\* (getOrCreateUser, insertCredential, sessionUser, userByHandle).
THEOREM E2EIndexes == Spec => []IndexesAgree
  <1>1. E2EInv => IndexesAgree
    <2> SUFFICES ASSUME E2EInv PROVE IndexesAgree
      OBVIOUS
    <2>1. /\ \A e \in DOMAIN usersByEmail :
                 /\ usersByEmail[e] \in DOMAIN usersByHandle
                 /\ usersByHandle[usersByEmail[e]] = e
          /\ \A h \in DOMAIN usersByHandle :
                 usersByHandle[h] \in DOMAIN usersByEmail /\ usersByEmail[usersByHandle[h]] = h
      BY DEF E2EInv, UsersSound, Account
    <2>2. /\ \A h \in UserHandles : (IF h \in DOMAIN byUser THEN byUser[h] ELSE {})
                 = {c \in DOMAIN byID : byID[c].user = h}
      BY DEF E2EInv, CredentialsSound, Listed
    <2>3. \A c \in DOMAIN byID : byID[c].user \in DOMAIN usersByHandle
      BY <2>1 DEF E2EInv, CredentialsSound
    <2>4. ASSUME NEW s \in DOMAIN sessions PROVE SessionUser(s) # None
      <3>1. PICK c \in commits :
                sessions[s] = [user |-> c.record.user, ceremony |-> c.ceremony]
        BY DEF E2EInv, SessionsSound, LoggedIn
      <3>2. sessions[s].user = c.record.user
        BY <3>1
      <3> QED BY <3>2, LoginHasAccount DEF SessionUser
    <2> QED BY <2>1, <2>2, <2>3, <2>4 DEF IndexesAgree
  <1> QED BY <1>1, E2EInvHolds, PTL

\* Theorem: the account a session answers for is the one its ceremony was begun
\* for, and the response was verified before the ceremony's deadline, whatever
\* other handlers do in between (registerFinish, loginFinish).
THEOREM E2ESessions == Spec => []SessionsAuthentic
  <1>1. E2EInv => SessionsAuthentic
    <2> SUFFICES ASSUME E2EInv, NEW s \in DOMAIN sessions
                 PROVE  \E c \in commits :
                            /\ c.ceremony = sessions[s].ceremony
                            /\ c.response.clientData.challenge = c.ceremony
                            /\ c.at < c.saved.state.expires
                            /\ byID[c.record.id].user = sessions[s].user
                            /\ c.saved.email # None =>
                                   c.saved.email = c.email /\ SessionUser(s) = c.email
                            /\ c.kind = "authentication" =>
                                   c.response.signature.key = byID[c.record.id].key
      BY DEF SessionsAuthentic
    <2>1. PICK c \in commits : sessions[s] = [user |-> c.record.user, ceremony |-> c.ceremony]
      BY DEF E2EInv, SessionsSound, LoggedIn
    <2>2. sessions[s].user = c.record.user /\ sessions[s].ceremony = c.ceremony
      BY <2>1
    <2>3. Evidence(c.kind, c.ceremony, c.saved, c.email, c.response, c.record, c.at,
                   usersByEmail)
      BY DEF E2EInv, CommitsSound
    <2>4. c.saved.email # None => c.saved.email = c.email /\ SessionUser(s) = c.email
      BY <2>2, <2>3, LoginHasAccount DEF Evidence, SessionUser
    <2>5. byID[c.record.id].user = c.record.user /\ byID[c.record.id].key = c.record.key
      BY LoginHasAccount DEF Current
    <2> QED BY <2>2, <2>3, <2>4, <2>5 DEF Evidence
  <1> QED BY <1>1, E2EInvHolds, PTL

-----------------------------------------------------------------------------
(***************************************************************************)
(* The handlers implement the atomic service.                              *)
(***************************************************************************)

\* The logins whose session is still to be set.
EarnedIn(handlers) ==
    {LoginOf(handlers[r]) : r \in {q \in Requests : handlers[q].pc = "set session"}}

LEMMA EarnedStays ==
    ASSUME E2EInv, NEW r \in Requests, NEW call, Goto(r, call),
           calls[r].pc # "set session", call.pc # "set session"
    PROVE  EarnedIn(calls') = EarnedIn(calls)
  <1> DEFINE waiting == {q \in Requests : calls[q].pc = "set session"}
  <1>1. \A q \in Requests : calls'[q] = IF q = r THEN call ELSE calls[q]
    BY DEF Goto, E2EInv
  <1>2. {q \in Requests : calls'[q].pc = "set session"} = waiting
    BY <1>1
  <1>3. \A q \in waiting : calls'[q] = calls[q]
    BY <1>1
  <1> QED BY <1>2, <1>3 DEF EarnedIn

LEMMA EarnedGrows ==
    ASSUME E2EInv, NEW r \in Requests, NEW call, Goto(r, call),
           calls[r].pc # "set session", call.pc = "set session"
    PROVE  EarnedIn(calls') = EarnedIn(calls) \cup {LoginOf(call)}
  <1> DEFINE waiting == {q \in Requests : calls[q].pc = "set session"}
  <1>1. \A q \in Requests : calls'[q] = IF q = r THEN call ELSE calls[q]
    BY DEF Goto, E2EInv
  <1>2. {q \in Requests : calls'[q].pc = "set session"} = waiting \cup {r}
    BY <1>1
  <1>3. \A q \in waiting : calls'[q] = calls[q]
    BY <1>1
  <1>4. calls'[r] = call
    BY <1>1
  <1>5. \A x : x \in EarnedIn(calls') <=> x \in EarnedIn(calls) \/ x = LoginOf(call)
    BY <1>2, <1>3, <1>4 DEF EarnedIn
  <1> QED BY <1>5

\* No two handlers hold the same login, so the one that returns takes exactly
\* its own away.
LEMMA EarnedShrinks ==
    ASSUME E2EInv, NEW r \in Requests, Return(r), calls[r].pc = "set session"
    PROVE  /\ LoginOf(calls[r]) \in EarnedIn(calls)
           /\ EarnedIn(calls') = EarnedIn(calls) \ {LoginOf(calls[r])}
  <1> DEFINE waiting == {q \in Requests : calls[q].pc = "set session"}
  <1>1. \A q \in Requests : calls'[q] = IF q = r THEN Idle ELSE calls[q]
    BY DEF Return, Goto, E2EInv
  <1>2. {q \in Requests : calls'[q].pc = "set session"} = waiting \ {r}
    BY <1>1, IdleSound
  <1>3. \A q \in waiting \ {r} : calls'[q] = calls[q]
    BY <1>1
  <1>4. \A q \in waiting \ {r} : LoginOf(calls[q]) # LoginOf(calls[r])
    <2> SUFFICES ASSUME NEW q \in waiting \ {r} PROVE LoginOf(calls[q]) # LoginOf(calls[r])
      OBVIOUS
    <2>1. calls[q].id # calls[r].id
      BY DEF E2EInv, TokensApart
    <2> QED BY <2>1 DEF LoginOf
  <1>5. r \in waiting
    OBVIOUS
  <1>6. LoginOf(calls[r]) \in EarnedIn(calls)
    BY <1>5 DEF EarnedIn
  <1>7. ASSUME NEW x \in EarnedIn(calls')
        PROVE  x \in EarnedIn(calls) \ {LoginOf(calls[r])}
    <2>1. PICK q \in waiting \ {r} : x = LoginOf(calls[q])
      BY <1>2, <1>3 DEF EarnedIn
    <2> QED BY <1>4, <2>1 DEF EarnedIn
  <1>8. ASSUME NEW x \in EarnedIn(calls), x # LoginOf(calls[r])
        PROVE  x \in EarnedIn(calls')
    <2>1. PICK q \in waiting \ {r} : x = LoginOf(calls[q])
      BY <1>8 DEF EarnedIn
    <2> QED BY <1>2, <1>3, <2>1 DEF EarnedIn
  <1> QED BY <1>6, <1>7, <1>8

LEMMA StepCloses ==
    ASSUME UNCHANGED <<byID, commits>>, EarnedIn(calls') = EarnedIn(calls),
           \A s \in DOMAIN sessions' : s \in DOMAIN sessions /\ sessions'[s] = sessions[s]
    PROVE  Service!ServiceNext
  <1>1. Service!Close
    BY DEF Service!Close, Service!SomeSessionsEnd, EarnedIn, LoginOf, At
  <1> QED BY <1>1 DEF Service!ServiceNext

\* The ways to take a step of the service.
LEMMA StepEnrolls ==
    ASSUME NEW credential \in CredentialIDs, NEW ceremony \in CeremonyIDs,
           NEW passkey \in [user : UserHandles, key : Keys, count : 0 .. MaxSignCount],
           Service!Enroll(credential, passkey, ceremony)
    PROVE  Service!ServiceNext
  BY Zenon DEF Service!ServiceNext

LEMMA StepLogsIn ==
    ASSUME NEW credential \in CredentialIDs, NEW ceremony \in CeremonyIDs,
           NEW count \in 0 .. MaxSignCount, Service!LogIn(credential, count, ceremony)
    PROVE  Service!ServiceNext
  BY Zenon DEF Service!ServiceNext

LEMMA StepOpens ==
    ASSUME NEW login \in EarnedIn(calls), NEW id \in SessionIDs,
           Service!OpenSession(login, id)
    PROVE  Service!ServiceNext
  BY Zenon DEF Service!ServiceNext, EarnedIn, LoginOf, At

LEMMA PasskeyTyped ==
    ASSUME NEW record \in CredentialRecord
    PROVE  Passkey(record) \in [user : UserHandles, key : Keys, count : 0 .. MaxSignCount]
  BY DEF Passkey, CredentialRecord, SignCount

\* What a write adds to the history and to the logins still to be used.
LEMMA WriteSpends ==
    ASSUME E2EInv, NEW r \in Requests, NEW kind,
           calls[r].pc \notin {"idle", "set session"},
           Goto(r, [pc |-> "set session", id |-> calls[r].id, user |-> calls[r].record.user]),
           commits' = commits \cup {Commit(calls[r], kind)}
    PROVE  /\ calls[r].id \in CeremonyIDs /\ calls[r].id \notin SpentIn(commits)
           /\ SpentIn(commits') = SpentIn(commits) \cup {calls[r].id}
           /\ EarnedIn(calls') = EarnedIn(calls) \cup
                  {[user |-> calls[r].record.user, ceremony |-> calls[r].id]}
  <1> DEFINE call == calls[r]
             next == [pc |-> "set session", id |-> call.id, user |-> call.record.user]
             effect == Commit(call, kind)
  <1>1. effect.ceremony = call.id
    BY DEF Commit
  <1>2. /\ next.pc = "set session"
        /\ LoginOf(next) = [user |-> call.record.user, ceremony |-> call.id]
    BY DEF LoginOf
  <1>3. Goto(r, next) /\ commits' = commits \cup {effect}
    OBVIOUS
  <1> HIDE DEF next, effect
  <1>4. call.id \in CeremonyIDs /\ call.id \notin SpentIn(commits)
    BY DEF E2EInv, CallSound, TokensApart
  <1>5. SpentIn(commits') = SpentIn(commits) \cup {call.id}
    BY <1>1, <1>3 DEF SpentIn
  <1>6. EarnedIn(calls') = EarnedIn(calls) \cup {LoginOf(next)}
    BY <1>2, <1>3, EarnedGrows
  <1> QED BY <1>2, <1>4, <1>5, <1>6

LEMMA InsertEnrolls ==
    ASSUME E2EInv, NEW r \in Requests, InsertCredential(r)
    PROVE  Service!ServiceNext
  <1> DEFINE call == calls[r]
             id == call.record.id
  <1>1. call.pc = "insert" /\ UNCHANGED <<now, Users, states, sessions, issued>>
    BY DEF InsertCredential, At
  <1>2. CASE Return(r) /\ UNCHANGED <<Credentials, commits>>
    <2>1. EarnedIn(calls') = EarnedIn(calls)
      BY <1>1, <1>2, IdleSound, EarnedStays DEF Return
    <2> QED BY <1>1, <1>2, <2>1, StepCloses DEF Credentials
  <1>3. CASE /\ id \notin DOMAIN byID
             /\ byID' = With(byID, id, call.record)
             /\ commits' = commits \cup {Commit(call, "registration")}
             /\ Goto(r, [pc |-> "set session", id |-> call.id, user |-> call.record.user])
    <2>1. call.record \in CredentialRecord
      BY <1>1 DEF E2EInv, CallSound
    <2>2. id \in CredentialIDs
      BY <2>1 DEF CredentialRecord
    <2>3. /\ call.id \in CeremonyIDs /\ call.id \notin SpentIn(commits)
          /\ SpentIn(commits') = SpentIn(commits) \cup {call.id}
          /\ EarnedIn(calls') = EarnedIn(calls) \cup
                 {[user |-> call.record.user, ceremony |-> call.id]}
      BY <1>1, <1>3, WriteSpends
    <2>4. /\ DOMAIN byID' = DOMAIN byID \cup {id}
          /\ byID'[id] = call.record
          /\ \A c \in DOMAIN byID : byID'[c] = byID[c]
      BY <1>3 DEF With
    <2>5. PICK credential, passkey, ceremony :
              credential = id /\ passkey = Passkey(call.record) /\ ceremony = call.id
      OBVIOUS
    <2>6. passkey.user = call.record.user
      BY <2>5 DEF Passkey
    <2>7. Service!Enroll(credential, passkey, ceremony)
      <3>1. [c \in DOMAIN byID |-> Passkey(byID[c])]'
            = [c \in DOMAIN byID \cup {id} |->
                  IF c = id THEN Passkey(call.record)
                  ELSE [b \in DOMAIN byID |-> Passkey(byID[b])][c]]
        BY <1>3, <2>4 DEF Passkey
      <3> QED BY <1>1, <1>3, <2>3, <2>5, <2>6, <3>1
              DEF Service!Enroll, SpentIn, EarnedIn, LoginOf, At
    <2>8. passkey \in [user : UserHandles, key : Keys, count : 0 .. MaxSignCount]
      BY <2>1, <2>5, PasskeyTyped
    <2> QED BY <2>2, <2>3, <2>5, <2>7, <2>8, StepEnrolls
  <1> QED BY <1>2, <1>3 DEF InsertCredential

LEMMA UpdateLogsIn ==
    ASSUME E2EInv, NEW r \in Requests, UpdateCredential(r)
    PROVE  Service!ServiceNext
  <1> DEFINE call == calls[r]
             id == call.record.id
             update == LoginUpdate(call.record, call.response.authData,
                                   call.response.attachment)
             new == Applied(update, byID[id])
  <1>1. call.pc = "update" /\ UNCHANGED <<now, Users, states, byUser, sessions, issued>>
    BY DEF UpdateCredential, At
  <1>2. CASE Return(r) /\ UNCHANGED <<byID, commits>>
    <2>1. EarnedIn(calls') = EarnedIn(calls)
      BY <1>1, <1>2, IdleSound, EarnedStays DEF Return
    <2> QED BY <1>1, <1>2, <2>1, StepCloses
  <1>3. CASE /\ UpdateAdmits(update)
             /\ byID' = [byID EXCEPT ![update.id] = Applied(update, @)]
             /\ commits' = commits \cup {Commit(call, "authentication")}
             /\ Goto(r, [pc |-> "set session", id |-> call.id, user |-> call.record.user])
    <2>1. /\ update.id = id /\ id \in DOMAIN byID
          /\ new.user = byID[id].user /\ new.key = byID[id].key
          /\ new.signCount \in SignCount
          /\ \/ new.signCount > byID[id].signCount
             \/ new.signCount = 0 /\ byID[id].signCount = 0
      BY <1>1, <1>3, UpdateWrites DEF At
    <2> HIDE DEF update
    <2>2. /\ DOMAIN byID' = DOMAIN byID
          /\ \A c \in DOMAIN byID : byID'[c] = IF c = id THEN new ELSE byID[c]
      BY <1>3, <2>1
    <2> HIDE DEF new
    <2>3. byID[id].user = call.record.user /\ id \in CredentialIDs
      BY <1>1, <2>1 DEF E2EInv, CallSound, Current, CredentialsSound
    <2>4. /\ call.id \in CeremonyIDs /\ call.id \notin SpentIn(commits)
          /\ SpentIn(commits') = SpentIn(commits) \cup {call.id}
          /\ EarnedIn(calls') = EarnedIn(calls) \cup
                 {[user |-> call.record.user, ceremony |-> call.id]}
      BY <1>1, <1>3, WriteSpends
    <2> DEFINE passkeys == [c \in DOMAIN byID |-> Passkey(byID[c])]
    <2>5. passkeys' = [passkeys EXCEPT ![id].count = new.signCount]
      <3>1. Passkey(new) = [Passkey(byID[id]) EXCEPT !.count = new.signCount]
        BY <2>1 DEF Passkey
      <3> QED BY <2>1, <2>2, <3>1, ZenonT(40)
    <2>6. /\ passkeys[id].user = call.record.user
          /\ passkeys[id].count = byID[id].signCount
          /\ DOMAIN passkeys = DOMAIN byID
      BY <2>1, <2>3 DEF Passkey
    <2>7. PICK credential, count, ceremony :
              credential = id /\ count = new.signCount /\ ceremony = call.id
      OBVIOUS
    <2>8. Service!LogIn(credential, count, ceremony)
      BY <1>1, <2>1, <2>4, <2>5, <2>6, <2>7
         DEF Service!LogIn, Service!Progress, SpentIn, EarnedIn, LoginOf, At
    <2>9. count \in 0 .. MaxSignCount
      BY <2>1, <2>7 DEF SignCount
    <2> QED BY <2>3, <2>4, <2>7, <2>8, <2>9, StepLogsIn
  <1> QED BY <1>2, <1>3 DEF UpdateCredential, LoginUpdate

LEMMA CreateOpens ==
    ASSUME E2EInv, NEW r \in Requests, NEW id \in SessionIDs, CreateSession(r, id)
    PROVE  Service!ServiceNext
  <1>0. PICK login : login = LoginOf(calls[r])
    OBVIOUS
  <1>1. /\ calls[r].pc = "set session" /\ Return(r) /\ id \notin issued
        /\ sessions' = With(sessions, id, login)
        /\ UNCHANGED <<byID, commits>>
    BY <1>0 DEF CreateSession, At, Fresh, LoginOf, Credentials
  <1>2. login \in EarnedIn(calls) /\ EarnedIn(calls') = EarnedIn(calls) \ {login}
    BY <1>0, <1>1, EarnedShrinks
  <1>3. id \notin DOMAIN sessions
    BY <1>1 DEF E2EInv, SessionsSound
  <1>4. /\ DOMAIN sessions' = DOMAIN sessions \cup {id}
        /\ sessions'[id] = login
        /\ \A s \in DOMAIN sessions : s # id => sessions'[s] = sessions[s]
    BY <1>1 DEF With
  <1>5. Service!OpenSession(login, id)
    BY <1>1, <1>2, <1>3, <1>4
       DEF Service!OpenSession, Service!SomeSessionsEnd, SpentIn, EarnedIn, LoginOf, At
  <1> QED BY <1>2, <1>5, StepOpens

\* A handler step that writes nothing to the credentials, the sessions and the
\* history and neither comes to nor leaves "set session".
LEMMA HandlerCloses ==
    ASSUME E2EInv, NEW r \in Requests, NEW call, Goto(r, call),
           calls[r].pc # "set session", call.pc # "set session",
           UNCHANGED <<Credentials, sessions, commits>>
    PROVE  Service!ServiceNext
  BY EarnedStays, StepCloses DEF Credentials

\* The steps of a handler from its arrival to its verification, and the refusals.
LEMMA QuietRefines ==
    ASSUME E2EInv, NEW r \in Requests
    PROVE  /\ Arrive(r) => Service!ServiceNext
           /\ SaveState(r) \/ ListCredentials(r) \/ VerifyAuthentication(r) =>
                  Service!ServiceNext
           /\ \A response : VerifyRegistration(r, response) \/ Lookup(r, response) =>
                  Service!ServiceNext
  <1>1. ASSUME NEW call, Goto(r, call), calls[r].pc # "set session",
               call.pc # "set session", UNCHANGED <<Credentials, sessions, commits>>
        PROVE  Service!ServiceNext
    BY <1>1, HandlerCloses
  <1>2. ASSUME Return(r), calls[r].pc # "set session",
               UNCHANGED <<Credentials, sessions, commits>>
        PROVE  Service!ServiceNext
    BY <1>2, HandlerCloses, IdleSound DEF Return
  <1>3. ASSUME NEW id, NEW email, NEW mode, NEW handle,
               RegisterOptions(r, email, mode, handle, id)
        PROVE  Service!ServiceNext
    <2> DEFINE next == [pc |-> "save", id |-> id,
                        saved |-> [kind |-> "registration", email |-> email,
                                   state |-> RegistrationState(
                                       Relying(UserVerificationForMode(mode)), handle,
                                       NoExtensions, FALSE, id, now)]]
    <2>1. Goto(r, next) /\ next.pc = "save"
      BY <1>3 DEF RegisterOptions
    <2> HIDE DEF next
    <2> QED BY <1>1, <1>3, <2>1 DEF RegisterOptions, At
  <1>4. ASSUME NEW id, NEW email, LoginOptionsRoaming(r, email, id)
        PROVE  Service!ServiceNext
    <2> DEFINE next == [pc |-> "list", id |-> id, email |-> email,
                        user |-> usersByEmail[email]]
    <2>1. Goto(r, next) /\ next.pc = "list"
      BY <1>4 DEF LoginOptionsRoaming
    <2> HIDE DEF next
    <2> QED BY <1>1, <1>4, <2>1 DEF LoginOptionsRoaming, At
  <1>5. ASSUME NEW id, LoginOptions(r, id) PROVE Service!ServiceNext
    <2> DEFINE next == [pc |-> "save", id |-> id,
                        saved |-> SavedLogin("platform", None, None, {}, id)]
    <2>1. Goto(r, next) /\ next.pc = "save"
      BY <1>5 DEF LoginOptions
    <2> HIDE DEF next
    <2> QED BY <1>1, <1>5, <2>1 DEF LoginOptions, At
  <1>6. ASSUME NEW kind \in Kinds, NEW email, NEW id, Consume(r, kind, email, id)
        PROVE  Service!ServiceNext
    <2> DEFINE next == [pc |-> kind, id |-> id, email |-> email, saved |-> states[id]]
    <2>1. Goto(r, next) \/ Return(r)
      BY <1>6 DEF Consume
    <2>2. next.pc # "set session"
      BY DEF Kinds
    <2> HIDE DEF next
    <2> QED BY <1>1, <1>2, <1>6, <2>1, <2>2 DEF Consume, At
  <1>7. ASSUME SaveState(r) PROVE Service!ServiceNext
    BY <1>2, <1>7 DEF SaveState, At
  <1>8. ASSUME ListCredentials(r) PROVE Service!ServiceNext
    <2> DEFINE next == [pc |-> "save", id |-> calls[r].id,
                        saved |-> SavedLogin("roaming", calls[r].email, calls[r].user,
                                             byUser[calls[r].user], calls[r].id)]
    <2>1. Goto(r, next) \/ Return(r)
      BY <1>8 DEF ListCredentials
    <2>2. next.pc = "save"
      OBVIOUS
    <2> HIDE DEF next
    <2> QED BY <1>1, <1>2, <1>8, <2>1, <2>2 DEF ListCredentials, At
  <1>9. ASSUME VerifyAuthentication(r) PROVE Service!ServiceNext
    <2> DEFINE next == [pc |-> "update", id |-> calls[r].id, saved |-> calls[r].saved,
                        email |-> calls[r].email, response |-> calls[r].response,
                        record |-> calls[r].record, at |-> now]
    <2>1. Goto(r, next) \/ Return(r)
      BY <1>9 DEF VerifyAuthentication
    <2>2. next.pc = "update"
      OBVIOUS
    <2> HIDE DEF next
    <2> QED BY <1>1, <1>2, <1>9, <2>1, <2>2 DEF VerifyAuthentication, At
  <1>10. ASSUME NEW response, VerifyRegistration(r, response) PROVE Service!ServiceNext
    <2> DEFINE next == [pc |-> "insert", id |-> calls[r].id, saved |-> calls[r].saved,
                        email |-> calls[r].email, response |-> response,
                        record |-> RegisteredCredential(calls[r].saved.state, response),
                        at |-> now]
    <2>1. Goto(r, next) \/ Return(r)
      BY <1>10 DEF VerifyRegistration
    <2>2. next.pc = "insert"
      OBVIOUS
    <2> HIDE DEF next
    <2> QED BY <1>1, <1>2, <1>10, <2>1, <2>2 DEF VerifyRegistration, At
  <1>11. ASSUME NEW response, Lookup(r, response) PROVE Service!ServiceNext
    <2> DEFINE next == [pc |-> "verify", id |-> calls[r].id, saved |-> calls[r].saved,
                        email |-> calls[r].email, response |-> response,
                        record |-> byID[response.rawId]]
    <2>1. Goto(r, next) \/ Return(r)
      BY <1>11 DEF Lookup
    <2>2. next.pc = "verify"
      OBVIOUS
    <2> HIDE DEF next
    <2> QED BY <1>1, <1>2, <1>11, <2>1, <2>2 DEF Lookup, At
  <1>12. Arrive(r) => Service!ServiceNext
    <2>1. "registration" \in Kinds /\ "authentication" \in Kinds
      BY DEF Kinds
    <2> QED BY <1>3, <1>4, <1>5, <1>6, <2>1 DEF Arrive
  <1> QED BY <1>7, <1>8, <1>9, <1>10, <1>11, <1>12

LEMMA NextRefines ==
    ASSUME E2EInv, Next PROVE Service!ServiceNext
  <1>1. ASSUME NEW r \in Requests, TokenFails(r) PROVE Service!ServiceNext
    <2>1. PICK login : login = LoginOf(calls[r])
      OBVIOUS
    <2>2. login \in EarnedIn(calls) /\ EarnedIn(calls') = EarnedIn(calls) \ {login}
      BY <1>1, <2>1, EarnedShrinks DEF TokenFails, At
    <2>3. Service!Abandon(login)
      BY <1>1, <2>2 DEF TokenFails, Credentials, Service!Abandon,
                        Service!SomeSessionsEnd, EarnedIn, LoginOf, At
    <2> QED BY <2>2, <2>3 DEF Service!ServiceNext, EarnedIn, LoginOf, At
  <1>2. ASSUME NEW r \in Requests, Step(r) PROVE Service!ServiceNext
    BY <1>1, <1>2, QuietRefines, InsertEnrolls, UpdateLogsIn, CreateOpens DEF Step
  <1>3. ASSUME NEW r \in Requests, Arrive(r) PROVE Service!ServiceNext
    BY <1>3, QuietRefines
  <1>4. ASSUME NEW id \in SessionIDs, Logout(id) PROVE Service!ServiceNext
    <2>1. \A s \in DOMAIN sessions' : s \in DOMAIN sessions /\ sessions'[s] = sessions[s]
      BY <1>4 DEF Logout, Without
    <2>2. EarnedIn(calls') = EarnedIn(calls)
      BY <1>4 DEF Logout
    <2> QED BY <1>4, <2>1, <2>2, StepCloses DEF Logout, Credentials
  <1>5. CASE Tick
    <2>1. EarnedIn(calls') = EarnedIn(calls)
      BY <1>5 DEF Tick
    <2> QED BY <1>5, <2>1, StepCloses DEF Tick, Credentials
  <1> QED BY <1>2, <1>3, <1>4, <1>5 DEF Next

\* Theorem: the handlers of the end-to-end application implement the atomic
\* passkey service, for any number of handlers, accounts and credentials: the
\* lock is released between lookup, verification, update and session, and still
\* every registration and every login takes effect at once, spends its own
\* ceremony and opens at most one session (loginFinish, updateCredential,
\* insertCredential, createSession).
THEOREM E2EImplements == Spec => ImplementsService
  <1>1. Init => Service!ServiceInit
    <2> SUFFICES ASSUME Init PROVE Service!ServiceInit
      OBVIOUS
    <2>1. {q \in Requests : At(q, "set session")} = {}
      BY DEF Init, At, Idle
    <2>2. sessions = [id \in {} |-> 0]
      BY DEF Init, NoEntries
    <2> QED BY <2>1, <2>2 DEF Init, Service!ServiceInit
  <1>2. E2EInv /\ [Next]_vars => [Service!ServiceNext]_(Service!service)
    <2>1. E2EInv /\ Next => Service!ServiceNext
      BY NextRefines
    <2>2. UNCHANGED vars => UNCHANGED Service!service
      BY DEF vars, Service!service, At
    <2> QED BY <2>1, <2>2
  <1> QED BY <1>1, <1>2, E2EInvHolds, PTL
     DEF Spec, ImplementsService, Service!ServiceSpec
===============================================================================
