--------------------------- MODULE QuickstartProofs ---------------------------
(***************************************************************************)
(* Theorems about the quickstart application, for any number of handlers,  *)
(* browsers, credentials and any capacities.                               *)
(*                                                                         *)
(* The inductive invariant says where a token can be (in one of the stored *)
(* ceremonies, with one handler, or spent), what a handler has established *)
(* at each of its points, and what a stored login proves.  Its parts take  *)
(* the state they speak of as parameters, so that one lemma carries a part *)
(* over to the next state.                                                 *)
(***************************************************************************)
EXTENDS Quickstart, CeremonyProofs

\* Ceremonies that have had their effect, and those that logged somebody in.
SpentIn(history) == {c.ceremony : c \in history}
LoggedIn(history) ==
    {c.ceremony : c \in {d \in history : d.kind = "authentication"}}

\* A state that Begin created for this ceremony.
StateFor(kind, id, state) ==
    /\ state.challenge = id /\ state.expires \in Int
    /\ kind = "registration" => state.user = User /\ state.rpId = RP.rpId
    /\ kind = "authentication" => state.uv = RP.authenticationUV

\* Credentials are records of the demo account under their own identifier.
CredentialsSound(stored) ==
    /\ DOMAIN stored \subseteq CredentialIDs
    /\ \A c \in DOMAIN stored :
           stored[c] \in CredentialRecord /\ stored[c].id = c /\ stored[c].user = User

\* The response was verified for the ceremony against the record: the record's
\* key signed its challenge, with user verification.
Verified(id, response, record) ==
    /\ response.clientData.challenge = id
    /\ response.signature.key = record.key
    /\ response.authData.uv /\ record.uvInitialized

\* What a handler has established by the time it is at its point.
CallSound(call, stored, history, tokens) ==
    /\ call.pc \in {"idle", "save", "registration", "authentication", "insert",
                    "verify", "update", "create session"}
    /\ call.pc # "idle" => call.id \in CeremonyIDs \cap tokens
    /\ call.pc = "save" => call.kind \in Kinds /\ StateFor(call.kind, call.id, call.state)
    /\ call.pc \in Kinds => StateFor(call.pc, call.id, call.state)
    /\ call.pc = "insert" => call.record \in CredentialRecord /\ call.record.user = User
    /\ call.pc \in {"verify", "update"} =>
           /\ StateFor("authentication", call.id, call.state)
           /\ call.response \in Assertions
           /\ call.record \in CredentialRecord
           /\ call.record.id \in DOMAIN stored
           /\ stored[call.record.id].key = call.record.key
    /\ call.pc = "update" =>
           /\ Verified(call.id, call.response, call.record)
           /\ ~CloneRisk(call.record.signCount, call.response.authData.signCount)
    /\ call.pc = "create session" => call.id \in LoggedIn(history)

StoreSound(open, tokens) ==
    /\ DOMAIN open = Kinds
    /\ \A k \in Kinds : \A id \in DOMAIN open[k] :
           id \in CeremonyIDs \cap tokens /\ StateFor(k, id, open[k][id])

\* A login in the history is still borne out by the stored credential.
CommitsSound(history, stored, tokens) ==
    \A c \in history :
        /\ c.ceremony \in tokens
        /\ c.kind = "authentication" =>
               c.record.id \in DOMAIN stored
               /\ Verified(c.ceremony, c.response, stored[c.record.id])

SessionsSound(entries, history, tokens, time) ==
    \A s \in DOMAIN entries :
        /\ s \in SessionIDs \cap tokens
        /\ entries[s].expires \in Int /\ entries[s].expires <= time + SessionTTL
        /\ entries[s].ceremony \in LoggedIn(history)

\* A token is in one place.
TokensApart(handlers, open, history) ==
    /\ \A k, l \in Kinds : k # l => DOMAIN open[k] \cap DOMAIN open[l] = {}
    /\ \A k \in Kinds : DOMAIN open[k] \cap SpentIn(history) = {}
    /\ \A r \in Requests : handlers[r].pc # "idle" =>
           /\ \A k \in Kinds : handlers[r].id \notin DOMAIN open[k]
           /\ handlers[r].pc # "create session" => handlers[r].id \notin SpentIn(history)
           /\ \A q \in Requests \ {r} :
                  handlers[q].pc # "idle" => handlers[q].id # handlers[r].id

QuickstartInv ==
    /\ now \in Int
    /\ DOMAIN calls = Requests
    /\ \A r \in Requests : CallSound(calls[r], credentials, commits, issued)
    /\ CredentialsSound(credentials)
    /\ StoreSound(ceremonies, issued)
    /\ CommitsSound(commits, credentials, issued)
    /\ SessionsSound(sessions, commits, issued, now)
    /\ TokensApart(calls, ceremonies, commits)

-----------------------------------------------------------------------------
(***************************************************************************)
(* Carrying the parts of the invariant over to the next state.             *)
(***************************************************************************)

\* No credential goes away, and none changes its key or loses its user
\* verification.
CredentialsKept(stored, next) ==
    \A c \in DOMAIN stored :
        /\ c \in DOMAIN next
        /\ next[c].key = stored[c].key
        /\ next[c].uvInitialized = stored[c].uvInitialized

LEMMA CallStaysSound ==
    ASSUME NEW call, NEW stored, NEW stored2, NEW history, NEW history2,
           NEW tokens, NEW tokens2, CallSound(call, stored, history, tokens),
           CredentialsKept(stored, stored2), history \subseteq history2,
           tokens \subseteq tokens2
    PROVE  CallSound(call, stored2, history2, tokens2)
  BY DEF CallSound, CredentialsKept, LoggedIn

LEMMA CommitsStaySound ==
    ASSUME NEW stored, NEW stored2, NEW history, NEW tokens, NEW tokens2,
           CommitsSound(history, stored, tokens),
           CredentialsKept(stored, stored2), tokens \subseteq tokens2
    PROVE  CommitsSound(history, stored2, tokens2)
  BY DEF CommitsSound, CredentialsKept, Verified

LEMMA SessionsStaySound ==
    ASSUME NEW entries, NEW entries2, NEW history, NEW history2, NEW tokens, NEW tokens2,
           NEW time \in Int, NEW time2 \in Int, time <= time2,
           SessionsSound(entries, history, tokens, time),
           history \subseteq history2, tokens \subseteq tokens2,
           \A s \in DOMAIN entries2 : s \in DOMAIN entries /\ entries2[s] = entries[s]
    PROVE  SessionsSound(entries2, history2, tokens2, time2)
  <1>1. SessionTTL \in Int
    BY QuickstartAssumption
  <1> SUFFICES ASSUME NEW s \in DOMAIN entries2
               PROVE  /\ s \in SessionIDs \cap tokens2
                      /\ entries2[s].expires \in Int
                      /\ entries2[s].expires <= time2 + SessionTTL
                      /\ entries2[s].ceremony \in LoggedIn(history2)
    BY DEF SessionsSound
  <1>2. /\ s \in SessionIDs \cap tokens
        /\ entries[s].expires \in Int /\ entries[s].expires <= time + SessionTTL
        /\ entries[s].ceremony \in LoggedIn(history)
        /\ entries2[s] = entries[s]
    BY DEF SessionsSound
  <1>3. LoggedIn(history) \subseteq LoggedIn(history2)
    BY DEF LoggedIn
  <1> QED BY <1>1, <1>2, <1>3

LEMMA StoreStaysSound ==
    ASSUME NEW open, NEW open2, NEW tokens, NEW tokens2, StoreSound(open, tokens),
           tokens \subseteq tokens2, DOMAIN open2 = Kinds,
           \A k \in Kinds : \A id \in DOMAIN open2[k] :
               id \in DOMAIN open[k] /\ open2[k][id] = open[k][id]
    PROVE  StoreSound(open2, tokens2)
  BY DEF StoreSound

\* What prune leaves.
LEMMA PrunedFacts ==
    ASSUME QuickstartInv
    PROVE  /\ DOMAIN Pruned.ceremonies = Kinds
           /\ \A k \in Kinds : \A id \in DOMAIN Pruned.ceremonies[k] :
                  /\ id \in DOMAIN ceremonies[k]
                  /\ Pruned.ceremonies[k][id] = ceremonies[k][id]
           /\ \A s \in DOMAIN Pruned.sessions :
                  /\ s \in DOMAIN sessions
                  /\ Pruned.sessions[s] = sessions[s]
                  /\ now < sessions[s].expires
  <1>1. Pruned.ceremonies =
            [k \in Kinds |-> Without(ceremonies[k], Expired(ceremonies[k]))]
    BY DEF Pruned
  <1>2. Pruned.sessions = Without(sessions, Expired(sessions))
    BY DEF Pruned
  <1>3. ASSUME NEW s \in DOMAIN Pruned.sessions
        PROVE  s \in DOMAIN sessions /\ Pruned.sessions[s] = sessions[s]
               /\ now < sessions[s].expires
    <2>1. s \in DOMAIN sessions /\ s \notin Expired(sessions)
          /\ Pruned.sessions[s] = sessions[s]
      BY <1>2, <1>3 DEF Without
    <2>2. now \in Int /\ sessions[s].expires \in Int
      BY <2>1 DEF QuickstartInv, SessionsSound
    <2> QED BY <2>1, <2>2 DEF Expired
  <1>4. ASSUME NEW k \in Kinds, NEW id \in DOMAIN Pruned.ceremonies[k]
        PROVE  id \in DOMAIN ceremonies[k] /\ Pruned.ceremonies[k][id] = ceremonies[k][id]
    <2>1. Pruned.ceremonies[k] = Without(ceremonies[k], Expired(ceremonies[k]))
      BY <1>1
    <2> QED BY <1>4, <2>1 DEF Without
  <1> QED BY <1>1, <1>3, <1>4

\* A handler moves on: the parts that are about the stores are given.
LEMMA HandlerStep ==
    ASSUME QuickstartInv, NEW r \in Requests, NEW call, Goto(r, call), now' = now,
           CallSound(call, credentials', commits', issued'),
           CredentialsKept(credentials, credentials'), CredentialsSound(credentials'),
           commits \subseteq commits', issued \subseteq issued',
           CommitsSound(commits', credentials', issued'),
           StoreSound(ceremonies', issued'),
           SessionsSound(sessions', commits', issued', now'),
           TokensApart(calls', ceremonies', commits')
    PROVE  QuickstartInv'
  <1>1. /\ DOMAIN calls' = Requests
        /\ \A q \in Requests : calls'[q] = IF q = r THEN call ELSE calls[q]
    BY DEF Goto, QuickstartInv
  <1>2. \A q \in Requests : CallSound(calls'[q], credentials', commits', issued')
    BY <1>1, CallStaysSound DEF QuickstartInv
  <1> QED BY <1>1, <1>2 DEF QuickstartInv

\* Nothing is written to the credentials or the history.
LEMMA QuietStep ==
    ASSUME QuickstartInv, NEW r \in Requests, NEW call, Goto(r, call), now' = now,
           credentials' = credentials, commits' = commits,
           issued \subseteq issued',
           CallSound(call, credentials, commits, issued'),
           StoreSound(ceremonies', issued'),
           SessionsSound(sessions', commits, issued', now),
           TokensApart(calls', ceremonies', commits)
    PROVE  QuickstartInv'
  <1>1. CredentialsKept(credentials, credentials)
    BY DEF CredentialsKept
  <1>2. CommitsSound(commits, credentials, issued')
    BY <1>1, CommitsStaySound DEF QuickstartInv
  <1> QED BY <1>1, <1>2, HandlerStep DEF QuickstartInv

LEMMA IdleSound ==
    ASSUME NEW stored, NEW history, NEW tokens
    PROVE  CallSound(Idle, stored, history, tokens) /\ Idle.pc = "idle"
  BY DEF CallSound, Idle, Kinds

\* A handler lets go of its token, or has one that is nowhere else, while
\* ceremonies may only go away.
LEMMA TokenTaken ==
    ASSUME QuickstartInv, NEW r \in Requests, NEW call, Goto(r, call),
           \A k \in Kinds : DOMAIN ceremonies'[k] \subseteq DOMAIN ceremonies[k],
           call.pc # "idle" =>
               /\ \A k \in Kinds : call.id \notin DOMAIN ceremonies'[k]
               /\ call.pc # "create session" => call.id \notin SpentIn(commits)
               /\ \A q \in Requests \ {r} : calls[q].pc # "idle" => calls[q].id # call.id
    PROVE  TokensApart(calls', ceremonies', commits)
  <1>1. \A q \in Requests : calls'[q] = IF q = r THEN call ELSE calls[q]
    BY DEF Goto, QuickstartInv
  <1>2. TokensApart(calls, ceremonies, commits)
    BY DEF QuickstartInv
  <1>3. \A k, l \in Kinds : k # l => DOMAIN ceremonies'[k] \cap DOMAIN ceremonies'[l] = {}
    BY <1>2 DEF TokensApart
  <1>4. \A k \in Kinds : DOMAIN ceremonies'[k] \cap SpentIn(commits) = {}
    BY <1>2 DEF TokensApart
  <1>5. ASSUME NEW p \in Requests, calls'[p].pc # "idle"
        PROVE  /\ \A k \in Kinds : calls'[p].id \notin DOMAIN ceremonies'[k]
               /\ calls'[p].pc # "create session" => calls'[p].id \notin SpentIn(commits)
               /\ \A q \in Requests \ {p} :
                      calls'[q].pc # "idle" => calls'[q].id # calls'[p].id
    <2>1. CASE p = r
      <3>1. calls'[p] = call /\ \A q \in Requests \ {p} : calls'[q] = calls[q]
        BY <1>1, <2>1
      <3> QED BY <1>5, <2>1, <3>1
    <2>2. CASE p # r
      <3>1. calls'[p] = calls[p]
        BY <1>1, <2>2
      <3>2. /\ \A k \in Kinds : calls'[p].id \notin DOMAIN ceremonies'[k]
            /\ calls'[p].pc # "create session" => calls'[p].id \notin SpentIn(commits)
        BY <1>2, <1>5, <3>1 DEF TokensApart
      <3>3. ASSUME NEW q \in Requests \ {p}, calls'[q].pc # "idle"
            PROVE  calls'[q].id # calls'[p].id
        <4>1. CASE q = r
          BY <1>1, <1>5, <2>2, <3>1, <3>3, <4>1
        <4>2. CASE q # r
          BY <1>1, <1>2, <1>5, <3>1, <3>3, <4>2 DEF TokensApart
        <4> QED BY <4>1, <4>2
      <3> QED BY <3>2, <3>3
    <2> QED BY <2>1, <2>2
  <1> QED BY <1>3, <1>4, <1>5 DEF TokensApart

\* A handler moves on with its token, or lets go of it.
LEMMA TokensStayApart ==
    ASSUME QuickstartInv, NEW r \in Requests, NEW call, Goto(r, call),
           \/ call.pc = "idle"
           \/ /\ calls[r].pc \notin {"idle", "create session"}
              /\ call.id = calls[r].id
              /\ call.pc # "create session",
           \A k \in Kinds : DOMAIN ceremonies'[k] \subseteq DOMAIN ceremonies[k]
    PROVE  TokensApart(calls', ceremonies', commits)
  <1>1. call.pc # "idle" =>
            /\ \A k \in Kinds : call.id \notin DOMAIN ceremonies[k]
            /\ call.id \notin SpentIn(commits)
            /\ \A q \in Requests \ {r} : calls[q].pc # "idle" => calls[q].id # call.id
    BY DEF QuickstartInv, TokensApart
  <1> QED BY <1>1, TokenTaken

\* A handler stores its token and lets go of it.
LEMMA TokenStored ==
    ASSUME QuickstartInv, NEW r \in Requests, Return(r), NEW kind \in Kinds,
           calls[r].pc \notin {"idle", "create session"},
           \A k \in Kinds : \A i \in DOMAIN ceremonies'[k] :
               i \in DOMAIN ceremonies[k] \/ (k = kind /\ i = calls[r].id)
    PROVE  TokensApart(calls', ceremonies', commits)
  <1> DEFINE id == calls[r].id
  <1>1. \A q \in Requests : calls'[q] = IF q = r THEN Idle ELSE calls[q]
    BY DEF Return, Goto, QuickstartInv
  <1>2. /\ \A k \in Kinds : id \notin DOMAIN ceremonies[k]
        /\ id \notin SpentIn(commits)
        /\ \A q \in Requests \ {r} : calls[q].pc # "idle" => calls[q].id # id
    BY DEF QuickstartInv, TokensApart
  <1>3. TokensApart(calls, ceremonies, commits)
    BY DEF QuickstartInv
  <1> HIDE DEF id
  <1>4. \A k \in Kinds : \A i \in DOMAIN ceremonies'[k] :
            i \in DOMAIN ceremonies[k] \/ (k = kind /\ i = id)
    BY DEF id
  <1>5. ASSUME NEW k \in Kinds, NEW l \in Kinds, k # l,
               NEW i \in DOMAIN ceremonies'[k], i \in DOMAIN ceremonies'[l]
        PROVE  FALSE
    <2>1. DOMAIN ceremonies[k] \cap DOMAIN ceremonies[l] = {}
      BY <1>3, <1>5 DEF TokensApart
    <2>2. i \in DOMAIN ceremonies[k] \/ (k = kind /\ i = id)
      BY <1>4
    <2>3. i \in DOMAIN ceremonies[l] \/ (l = kind /\ i = id)
      BY <1>4, <1>5
    <2> QED BY <1>2, <1>5, <2>1, <2>2, <2>3
  <1>6. ASSUME NEW k \in Kinds, NEW i \in DOMAIN ceremonies'[k], i \in SpentIn(commits)
        PROVE  FALSE
    <2>1. DOMAIN ceremonies[k] \cap SpentIn(commits) = {}
      BY <1>3 DEF TokensApart
    <2> QED BY <1>2, <1>4, <1>6, <2>1
  <1>7. ASSUME NEW p \in Requests, calls'[p].pc # "idle"
        PROVE  /\ \A k \in Kinds : calls'[p].id \notin DOMAIN ceremonies'[k]
               /\ calls'[p].pc # "create session" => calls'[p].id \notin SpentIn(commits)
               /\ \A q \in Requests \ {p} :
                      calls'[q].pc # "idle" => calls'[q].id # calls'[p].id
    <2>1. p # r /\ calls'[p] = calls[p]
      BY <1>1, <1>7, IdleSound
    <2>2. \A k \in Kinds : calls'[p].id \notin DOMAIN ceremonies'[k]
      BY <1>2, <1>3, <1>4, <1>7, <2>1, ZenonT(40) DEF TokensApart
    <2>3. calls'[p].pc # "create session" => calls'[p].id \notin SpentIn(commits)
      BY <1>3, <1>7, <2>1 DEF TokensApart
    <2>4. ASSUME NEW q \in Requests \ {p}, calls'[q].pc # "idle"
          PROVE  calls'[q].id # calls'[p].id
      <3>1. q # r /\ calls'[q] = calls[q]
        BY <1>1, <2>4, IdleSound
      <3> QED BY <1>3, <1>7, <2>1, <2>4, <3>1 DEF TokensApart
    <2> QED BY <2>2, <2>3, <2>4
  <1> QED BY <1>5, <1>6, <1>7 DEF TokensApart

\* A local step of a handler: no store changes but what prune takes away.
LEMMA LocalStep ==
    ASSUME QuickstartInv, NEW r \in Requests, NEW call, Goto(r, call),
           UNCHANGED <<now, ceremonies, credentials, sessions, issued, commits>>,
           CallSound(call, credentials, commits, issued),
           \/ call.pc = "idle"
           \/ /\ calls[r].pc \notin {"idle", "create session"}
              /\ call.id = calls[r].id
              /\ call.pc # "create session"
    PROVE  QuickstartInv'
  <1>1. TokensApart(calls', ceremonies', commits)
    BY TokensStayApart
  <1> QED BY <1>1, QuietStep DEF QuickstartInv

LEMMA LocalReturn ==
    ASSUME QuickstartInv, NEW r \in Requests, Return(r),
           UNCHANGED <<now, ceremonies, credentials, sessions, issued, commits>>
    PROVE  QuickstartInv'
  BY IdleSound, LocalStep DEF Return

-----------------------------------------------------------------------------
(***************************************************************************)
(* The invariant is inductive: one lemma per action.                       *)
(***************************************************************************)

LEMMA InitSound == Init => QuickstartInv
  <1> SUFFICES ASSUME Init PROVE QuickstartInv
    OBVIOUS
  <1>1. now \in Int /\ DOMAIN calls = Requests
    BY DEF Init
  <1>2. \A r \in Requests : calls[r] = Idle /\ calls[r].pc = "idle"
    BY IdleSound DEF Init
  <1>3. \A r \in Requests : CallSound(calls[r], credentials, commits, issued)
    BY <1>2, IdleSound
  <1>4. CredentialsSound(credentials)
    BY InitialCredentialsAssumption DEF Init, CredentialsSound
  <1>5. /\ DOMAIN ceremonies = Kinds
        /\ \A k \in Kinds : DOMAIN ceremonies[k] = {}
    BY DEF Init, NoEntries
  <1>6. DOMAIN sessions = {} /\ commits = {}
    BY DEF Init, NoEntries
  <1>7. StoreSound(ceremonies, issued)
    BY <1>5 DEF StoreSound
  <1>8. CommitsSound(commits, credentials, issued) /\ SessionsSound(sessions, commits, issued, now)
    BY <1>6 DEF CommitsSound, SessionsSound
  <1>9. TokensApart(calls, ceremonies, commits)
    BY <1>2, <1>5 DEF TokensApart
  <1> QED BY <1>1, <1>3, <1>4, <1>7, <1>8, <1>9 DEF QuickstartInv

LEMMA BeginSound ==
    ASSUME QuickstartInv, NEW r \in Requests, NEW kind \in Kinds, NEW id \in CeremonyIDs,
           Begin(r, kind, id)
    PROVE  QuickstartInv'
  <1> DEFINE state == IF kind = "registration"
                      THEN RegistrationState(RP, User, NoExtensions, FALSE, id, now)
                      ELSE AuthenticationState(RP, None, {}, NoExtensions, id, now)
             call == [pc |-> "save", kind |-> kind, id |-> id, state |-> state]
  <1>1. Goto(r, call) /\ id \notin issued /\ issued' = issued \cup {id}
        /\ UNCHANGED <<now, ceremonies, credentials, sessions, commits>>
    BY DEF Begin
  <1>2. StateFor(kind, id, state)
    <2>0. now + RP.stateTTL \in Int
      BY QuickstartAssumption DEF QuickstartInv
    <2>1. CASE kind = "registration"
      BY <2>0, <2>1 DEF RegistrationState, StateFor
    <2>2. CASE kind = "authentication"
      BY <2>0, <2>2 DEF AuthenticationState, StateFor
    <2> QED BY <2>1, <2>2 DEF Kinds
  <1> HIDE DEF state
  <1>3. call.pc = "save" /\ call.kind = kind /\ call.id = id /\ call.state = state
    OBVIOUS
  <1> HIDE DEF call
  <1>4. CallSound(call, credentials, commits, issued')
    BY <1>1, <1>2, <1>3 DEF CallSound, Kinds
  <1>5. StoreSound(ceremonies', issued')
    BY <1>1, StoreStaysSound DEF QuickstartInv, StoreSound
  <1>6. SessionsSound(sessions', commits, issued', now)
    BY <1>1, SessionsStaySound DEF QuickstartInv
  <1>7. TokensApart(calls', ceremonies', commits)
    <2>2. \A k \in Kinds : id \notin DOMAIN ceremonies[k]
      BY <1>1 DEF QuickstartInv, StoreSound
    <2>3. id \notin SpentIn(commits)
      BY <1>1 DEF QuickstartInv, CommitsSound, SpentIn
    <2>4. \A q \in Requests : calls[q].pc # "idle" => calls[q].id # id
      BY <1>1 DEF QuickstartInv, CallSound
    <2> QED BY <1>1, <1>3, <2>2, <2>3, <2>4, TokenTaken
  <1> QED BY <1>1, <1>4, <1>5, <1>6, <1>7, QuietStep

LEMMA SaveSound ==
    ASSUME QuickstartInv, NEW r \in Requests, NEW cookie, Save(r, cookie)
    PROVE  QuickstartInv'
  <1> DEFINE kind == calls[r].kind
             id == calls[r].id
             state == calls[r].state
             open == Pruned.ceremonies
             saved == SavedStates(kind, cookie, id, state)
  <1>1. /\ calls[r].pc = "save" /\ Return(r)
        /\ ceremonies' = [open EXCEPT ![kind] = saved]
        /\ sessions' = Pruned.sessions
        /\ UNCHANGED <<now, credentials, issued, commits>>
    BY DEF Save, At
  <1>2. /\ kind \in Kinds /\ StateFor(kind, id, state) /\ id \in CeremonyIDs \cap issued
    BY <1>1 DEF QuickstartInv, CallSound
  <1>3. /\ DOMAIN open = Kinds
        /\ \A k \in Kinds : \A i \in DOMAIN open[k] :
               i \in DOMAIN ceremonies[k] /\ open[k][i] = ceremonies[k][i]
    BY PrunedFacts
  <1>4. \A i \in DOMAIN saved :
            \/ i \in DOMAIN open[kind] /\ saved[i] = open[kind][i]
            \/ i = id /\ saved[i] = state
    BY DEF SavedStates, Without, With
  <1> HIDE DEF open, saved
  <1>5. /\ DOMAIN ceremonies' = Kinds
        /\ \A k \in Kinds : ceremonies'[k] = IF k = kind THEN saved ELSE open[k]
    BY <1>1, <1>3
  <1>6. StoreSound(ceremonies', issued')
    BY <1>1, <1>2, <1>3, <1>4, <1>5 DEF QuickstartInv, StoreSound
  <1>7. SessionsSound(sessions', commits, issued', now)
    BY <1>1, PrunedFacts, SessionsStaySound DEF QuickstartInv
  <1>8. TokensApart(calls', ceremonies', commits)
    <2>1. \A k \in Kinds : \A i \in DOMAIN ceremonies'[k] :
              i \in DOMAIN ceremonies[k] \/ (k = kind /\ i = id)
      BY <1>3, <1>4, <1>5
    <2> QED BY <1>1, <1>2, <2>1, TokenStored
  <1> QED BY <1>1, <1>6, <1>7, <1>8, IdleSound, QuietStep DEF Return

LEMMA ConsumeSound ==
    ASSUME QuickstartInv, NEW r \in Requests, NEW kind \in Kinds, NEW id \in CeremonyIDs,
           Consume(r, kind, id)
    PROVE  QuickstartInv'
  <1> DEFINE open == Pruned.ceremonies
             found == [pc |-> kind, id |-> id, state |-> ceremonies[kind][id]]
             rest == Without(open[kind], {id})
  <1>1. /\ calls[r].pc = "idle"
        /\ ceremonies' = [open EXCEPT ![kind] = rest]
        /\ sessions' = Pruned.sessions
        /\ UNCHANGED <<now, credentials, issued, commits>>
        /\ \/ Goto(r, found) /\ id \in DOMAIN open[kind]
           \/ Return(r)
    BY DEF Consume, At
  <1>2. /\ DOMAIN open = Kinds
        /\ \A k \in Kinds : \A i \in DOMAIN open[k] :
               i \in DOMAIN ceremonies[k] /\ open[k][i] = ceremonies[k][i]
    BY PrunedFacts
  <1>3. \A i \in DOMAIN rest : i # id /\ i \in DOMAIN open[kind] /\ rest[i] = open[kind][i]
    BY DEF Without
  <1> HIDE DEF open, rest
  <1>4. /\ DOMAIN ceremonies' = Kinds
        /\ \A k \in Kinds : ceremonies'[k] = IF k = kind THEN rest ELSE open[k]
    BY <1>1, <1>2
  <1>5. \A k \in Kinds : \A i \in DOMAIN ceremonies'[k] :
            /\ i \in DOMAIN ceremonies[k] /\ ceremonies'[k][i] = ceremonies[k][i]
            /\ k = kind => i # id
    BY <1>2, <1>3, <1>4
  <1>6. StoreSound(ceremonies', issued')
    <2>1. StoreSound(ceremonies, issued) /\ issued \subseteq issued'
      BY <1>1 DEF QuickstartInv
    <2> QED BY <1>4, <1>5, <2>1, StoreStaysSound
  <1>7. SessionsSound(sessions', commits, issued', now)
    BY <1>1, PrunedFacts, SessionsStaySound DEF QuickstartInv
  <1>8. CASE Return(r)
    <2>1. TokensApart(calls', ceremonies', commits)
      BY <1>5, <1>8, IdleSound, TokensStayApart DEF Return
    <2> QED BY <1>1, <1>6, <1>7, <1>8, <2>1, IdleSound, QuietStep DEF Return
  <1>9. CASE Goto(r, found) /\ id \in DOMAIN open[kind]
    <2>1. found.pc = kind /\ found.id = id /\ found.state = ceremonies[kind][id]
      OBVIOUS
    <2> HIDE DEF found
    <2>2. id \in DOMAIN ceremonies[kind]
      BY <1>2, <1>9
    <2>3. StateFor(kind, id, ceremonies[kind][id]) /\ id \in issued
      BY <2>2 DEF QuickstartInv, StoreSound
    <2>4. CallSound(found, credentials, commits, issued')
      BY <1>1, <2>1, <2>3 DEF CallSound, Kinds
    <2>5. TokensApart(calls', ceremonies', commits)
      <3>1. /\ id \notin SpentIn(commits)
            /\ \A k \in Kinds : k # kind => id \notin DOMAIN ceremonies[k]
            /\ \A q \in Requests : calls[q].pc # "idle" => calls[q].id # id
        BY <2>2 DEF QuickstartInv, TokensApart
      <3>2. /\ \A k \in Kinds : DOMAIN ceremonies'[k] \subseteq DOMAIN ceremonies[k]
            /\ \A k \in Kinds : id \notin DOMAIN ceremonies'[k]
        BY <1>5, <3>1
      <3> QED BY <1>9, <2>1, <3>1, <3>2, TokenTaken
    <2> QED BY <1>1, <1>6, <1>7, <1>9, <2>4, <2>5, QuietStep
  <1> QED BY <1>1, <1>8, <1>9

LEMMA VerifyRegistrationSound ==
    ASSUME QuickstartInv, NEW r \in Requests, NEW response \in Registrations,
           VerifyRegistration(r, response)
    PROVE  QuickstartInv'
  <1> DEFINE call == calls[r]
             record == RegisteredCredential(call.state, response)
             next == [pc |-> "insert", id |-> call.id, response |-> response,
                      record |-> record]
  <1>1. /\ call.pc = "registration"
        /\ UNCHANGED <<now, ceremonies, credentials, sessions, issued, commits>>
        /\ \/ Return(r)
           \/ Goto(r, next) /\ FinishRegistrationAccepts(RP, call.state, response, now)
    BY DEF VerifyRegistration, At
  <1>2. CASE Return(r)
    BY <1>1, <1>2, LocalReturn
  <1>3. CASE Goto(r, next) /\ FinishRegistrationAccepts(RP, call.state, response, now)
    <2>1. StateFor("registration", call.id, call.state) /\ call.id \in CeremonyIDs \cap issued
      BY <1>1 DEF QuickstartInv, CallSound, Kinds
    <2>2. call.state.user \in UserHandles /\ call.state.rpId \in RPIDs
          /\ call.state.user = User
      BY <2>1, QuickstartAssumption, PasskeyConfigAssumption DEF StateFor
    <2>3. record \in CredentialRecord
      <3>1. response.attestationType \in KnownAttestationType
        BY <1>3, RegistrationAccepted
      <3> QED BY <2>2, <3>1, ResponsesAssumption, RegisteredTyped
    <2>4. record.user = User
      BY <2>2 DEF RegisteredCredential
    <2> HIDE DEF record
    <2>5. next.pc = "insert" /\ next.id = call.id /\ next.record = record
      OBVIOUS
    <2> HIDE DEF next
    <2>6. CallSound(next, credentials, commits, issued)
      BY <2>1, <2>3, <2>4, <2>5 DEF CallSound, Kinds
    <2> QED BY <1>1, <1>3, <2>5, <2>6, LocalStep
  <1> QED BY <1>1, <1>2, <1>3

\* A handler's ceremony has its effect: its token joins the history.
LEMMA TokenSpent ==
    ASSUME QuickstartInv, NEW r \in Requests, NEW call, Goto(r, call), NEW effect,
           calls[r].pc \notin {"idle", "create session"},
           effect.ceremony = calls[r].id, commits' = commits \cup {effect},
           ceremonies' = ceremonies,
           call.pc = "idle" \/ (call.pc = "create session" /\ call.id = calls[r].id)
    PROVE  TokensApart(calls', ceremonies', commits')
  <1>1. \A q \in Requests : calls'[q] = IF q = r THEN call ELSE calls[q]
    BY DEF Goto, QuickstartInv
  <1>2. TokensApart(calls, ceremonies, commits)
    BY DEF QuickstartInv
  <1>3. \A i \in SpentIn(commits') : i \in SpentIn(commits) \/ i = calls[r].id
    BY DEF SpentIn
  <1>4. /\ \A k \in Kinds : calls[r].id \notin DOMAIN ceremonies[k]
        /\ \A q \in Requests \ {r} : calls[q].pc # "idle" => calls[q].id # calls[r].id
    BY <1>2 DEF TokensApart
  <1>5. ASSUME NEW k \in Kinds, NEW i \in DOMAIN ceremonies'[k], i \in SpentIn(commits')
        PROVE  FALSE
    <2>1. DOMAIN ceremonies[k] \cap SpentIn(commits) = {}
      BY <1>2 DEF TokensApart
    <2> QED BY <1>3, <1>4, <1>5, <2>1
  <1>6. ASSUME NEW p \in Requests, calls'[p].pc # "idle"
        PROVE  /\ \A k \in Kinds : calls'[p].id \notin DOMAIN ceremonies'[k]
               /\ calls'[p].pc # "create session" => calls'[p].id \notin SpentIn(commits')
               /\ \A q \in Requests \ {p} :
                      calls'[q].pc # "idle" => calls'[q].id # calls'[p].id
    <2>1. CASE p = r
      <3>1. calls'[p].id = calls[r].id /\ calls'[p].pc = "create session"
        BY <1>1, <1>6, <2>1
      <3>2. \A q \in Requests \ {p} : calls'[q] = calls[q]
        BY <1>1, <2>1
      <3> QED BY <1>4, <2>1, <3>1, <3>2
    <2>2. CASE p # r
      <3>1. calls'[p] = calls[p]
        BY <1>1, <2>2
      <3>2. calls[p].id # calls[r].id
        BY <1>4, <1>6, <2>2, <3>1
      <3>3. \A k \in Kinds : calls'[p].id \notin DOMAIN ceremonies'[k]
        BY <1>2, <1>6, <3>1 DEF TokensApart
      <3>4. calls'[p].pc # "create session" => calls'[p].id \notin SpentIn(commits')
        BY <1>2, <1>3, <1>6, <3>1, <3>2 DEF TokensApart
      <3>5. ASSUME NEW q \in Requests \ {p}, calls'[q].pc # "idle"
            PROVE  calls'[q].id # calls'[p].id
        <4>1. CASE q = r
          BY <1>1, <3>1, <3>2, <3>5, <4>1
        <4>2. CASE q # r
          BY <1>1, <1>2, <1>6, <3>1, <3>5, <4>2 DEF TokensApart
        <4> QED BY <4>1, <4>2
      <3> QED BY <3>3, <3>4, <3>5
    <2> QED BY <2>1, <2>2
  <1> QED BY <1>2, <1>5, <1>6 DEF TokensApart

LEMMA InsertCredentialSound ==
    ASSUME QuickstartInv, NEW r \in Requests, InsertCredential(r)
    PROVE  QuickstartInv'
  <1> DEFINE call == calls[r]
             effect == [kind |-> "registration", ceremony |-> call.id,
                        record |-> call.record, response |-> call.response]
  <1>1. call.pc = "insert" /\ Return(r) /\ UNCHANGED <<now, ceremonies, sessions, issued>>
    BY DEF InsertCredential, At
  <1>2. CASE UNCHANGED <<credentials, commits>>
    BY <1>1, <1>2, LocalReturn
  <1>3. CASE /\ InsertAdmits(call.record)
             /\ credentials' = With(credentials, call.record.id, call.record)
             /\ commits' = commits \cup {effect}
    <2>1. /\ call.record \in CredentialRecord /\ call.record.user = User
          /\ call.id \in CeremonyIDs \cap issued
      BY <1>1 DEF QuickstartInv, CallSound
    <2>2. call.record.id \in CredentialIDs
      BY <2>1 DEF CredentialRecord
    <2>3. call.record.id \notin DOMAIN credentials
      BY <1>3 DEF InsertAdmits
    <2>4. /\ DOMAIN credentials' = DOMAIN credentials \cup {call.record.id}
          /\ credentials'[call.record.id] = call.record
          /\ \A c \in DOMAIN credentials : credentials'[c] = credentials[c]
      BY <1>3, <2>3 DEF With
    <2>5. CredentialsSound(credentials')
      BY <2>1, <2>2, <2>4 DEF QuickstartInv, CredentialsSound
    <2>6. CredentialsKept(credentials, credentials')
      BY <2>4 DEF CredentialsKept
    <2>7. effect.kind = "registration" /\ effect.ceremony = call.id
      OBVIOUS
    <2> HIDE DEF effect
    <2>8. CommitsSound(commits', credentials', issued')
      <3>1. CommitsSound(commits, credentials', issued')
        BY <1>1, <2>6, CommitsStaySound DEF QuickstartInv
      <3> QED BY <1>1, <1>3, <2>1, <2>7, <3>1 DEF CommitsSound
    <2>9. SessionsSound(sessions', commits', issued', now')
      BY <1>1, <1>3, SessionsStaySound DEF QuickstartInv
    <2>10. TokensApart(calls', ceremonies', commits')
      BY <1>1, <1>3, <2>7, IdleSound, TokenSpent DEF Return
    <2>11. StoreSound(ceremonies', issued')
      BY <1>1 DEF QuickstartInv
    <2> QED BY <1>1, <1>3, <2>5, <2>6, <2>8, <2>9, <2>10, <2>11,
                IdleSound, HandlerStep DEF Return
  <1> QED BY <1>2, <1>3 DEF InsertCredential

LEMMA LookupSound ==
    ASSUME QuickstartInv, NEW r \in Requests, NEW response \in Assertions,
           Lookup(r, response)
    PROVE  QuickstartInv'
  <1> DEFINE call == calls[r]
             record == credentials[response.rawId]
             next == [pc |-> "verify", id |-> call.id, state |-> call.state,
                      response |-> response, record |-> record]
  <1>1. /\ call.pc = "authentication"
        /\ UNCHANGED <<now, ceremonies, credentials, sessions, issued, commits>>
        /\ \/ Return(r)
           \/ Goto(r, next) /\ response.rawId \in DOMAIN credentials
    BY DEF Lookup, LookupFinds, At
  <1>2. CASE Return(r)
    BY <1>1, <1>2, LocalReturn
  <1>3. CASE Goto(r, next) /\ response.rawId \in DOMAIN credentials
    <2>1. StateFor("authentication", call.id, call.state)
          /\ call.id \in CeremonyIDs \cap issued
      BY <1>1 DEF QuickstartInv, CallSound, Kinds
    <2>2. record \in CredentialRecord /\ record.id = response.rawId
      BY <1>3 DEF QuickstartInv, CredentialsSound
    <2>3. /\ next.pc = "verify" /\ next.id = call.id /\ next.state = call.state
          /\ next.response = response /\ next.record = record
      OBVIOUS
    <2> HIDE DEF next
    <2>4. CallSound(next, credentials, commits, issued)
      BY <1>3, <2>1, <2>2, <2>3 DEF CallSound, Kinds
    <2> QED BY <1>1, <1>3, <2>3, <2>4, LocalStep
  <1> QED BY <1>1, <1>2, <1>3

\* An assertion the demo accepts: its credential signed the challenge of the
\* ceremony with user verification, and its counter has moved.
LEMMA AcceptedVerified ==
    ASSUME NEW id, NEW state, NEW response \in Assertions,
           NEW record \in CredentialRecord, StateFor("authentication", id, state),
           FinishAuthenticationAccepts(RP, state, response, record, now),
           ~Risky(record, response.authData)
    PROVE  Verified(id, response, record)
           /\ ~CloneRisk(record.signCount, response.authData.signCount)
  <1>1. response.clientData.challenge = id
    BY AssertionAccepted DEF Established, StateFor
  <1>2. response.signature.key = record.key
    BY AssertionAccepted
  <1>3. response.authData.uv
    BY AssertionAccepted, PasskeyConfigAssumption DEF Established, StateFor
  <1>4. record.uvInitialized
    BY <1>3 DEF Risky, UVInitializationPending
  <1> QED BY <1>1, <1>2, <1>3, <1>4 DEF Verified, Risky

LEMMA VerifyAuthenticationSound ==
    ASSUME QuickstartInv, NEW r \in Requests, VerifyAuthentication(r)
    PROVE  QuickstartInv'
  <1> DEFINE call == calls[r]
             next == [call EXCEPT !.pc = "update"]
  <1>1. /\ call.pc = "verify"
        /\ UNCHANGED <<now, ceremonies, credentials, sessions, issued, commits>>
        /\ \/ Return(r)
           \/ /\ Goto(r, next)
              /\ FinishAuthenticationAccepts(RP, call.state, call.response, call.record, now)
              /\ ~Risky(call.record, call.response.authData)
    BY DEF VerifyAuthentication, At
  <1>2. CASE Return(r)
    BY <1>1, <1>2, LocalReturn
  <1>3. CASE /\ Goto(r, next)
             /\ FinishAuthenticationAccepts(RP, call.state, call.response, call.record, now)
             /\ ~Risky(call.record, call.response.authData)
    <2>1. CallSound(call, credentials, commits, issued)
      BY DEF QuickstartInv
    <2>2. /\ StateFor("authentication", call.id, call.state)
          /\ call.id \in CeremonyIDs \cap issued
          /\ call.response \in Assertions /\ call.record \in CredentialRecord
          /\ call.record.id \in DOMAIN credentials
          /\ credentials[call.record.id].key = call.record.key
      BY <1>1, <2>1 DEF CallSound
    <2>3. /\ Verified(call.id, call.response, call.record)
          /\ ~CloneRisk(call.record.signCount, call.response.authData.signCount)
      BY <1>3, <2>2, AcceptedVerified
    <2>4. /\ next.pc = "update" /\ next.id = call.id /\ next.state = call.state
          /\ next.response = call.response /\ next.record = call.record
      OBVIOUS
    <2> HIDE DEF next
    <2>5. CallSound(next, credentials, commits, issued)
      BY <2>2, <2>3, <2>4 DEF CallSound, Kinds
    <2> QED BY <1>1, <1>3, <2>4, <2>5, LocalStep
  <1> QED BY <1>1, <1>2, <1>3

\* What an update that is written does to its credential.
LEMMA UpdateWrites ==
    ASSUME QuickstartInv, NEW r \in Requests, At(r, "update"),
           NEW update, update = PlainUpdate(calls[r].record,
               calls[r].response.authData, calls[r].response.attachment,
               RP.updateOnCloneRisk),
           UpdateAdmits(update)
    PROVE  LET id == calls[r].record.id
               new == Applied(update, credentials[id])
           IN  /\ update.id = id /\ id \in DOMAIN credentials
               /\ new \in CredentialRecord /\ new.id = id /\ new.user = User
               /\ new.key = credentials[id].key
               /\ new.uvInitialized = credentials[id].uvInitialized
               /\ Verified(calls[r].id, calls[r].response, new)
               /\ new.signCount \in SignCount
               /\ \/ new.signCount > credentials[id].signCount
                  \/ new.signCount = 0 /\ credentials[id].signCount = 0
  <1> DEFINE call == calls[r]
             id == call.record.id
             flags == call.response.authData
             record == credentials[id]
             new == Applied(update, record)
  <1>1. call.pc = "update"
    BY DEF At
  <1>2. CallSound(call, credentials, commits, issued)
    BY DEF QuickstartInv
  <1>3. /\ call.response \in Assertions /\ call.record \in CredentialRecord
        /\ id \in DOMAIN credentials /\ record.key = call.record.key
        /\ Verified(call.id, call.response, call.record)
        /\ ~CloneRisk(call.record.signCount, flags.signCount)
    BY <1>1, <1>2 DEF CallSound
  <1>4. update.id = id
    BY DEF PlainUpdate, CredentialUpdate
  <1>5. UpdateMatches(update, record)
    BY <1>4 DEF UpdateAdmits, ApplySucceeds
  <1>6. record \in CredentialRecord /\ record.id = id /\ record.user = User
    BY <1>3 DEF QuickstartInv, CredentialsSound
  <1>7. FlagsTyped(flags)
    BY <1>3, ResponsesAssumption
  <1> DEFINE seen == call.record
             attachment == call.response.attachment
             onRisk == RP.updateOnCloneRisk
  <1>8. /\ seen \in CredentialRecord /\ ~CloneRisk(seen.signCount, flags.signCount)
        /\ update = PlainUpdate(seen, flags, attachment, onRisk)
    BY <1>3
  <1> HIDE DEF flags, record, seen, attachment, onRisk
  <1>9. /\ new \in CredentialRecord
        /\ new.id = record.id /\ new.user = record.user /\ new.key = record.key
        /\ new.uvInitialized = record.uvInitialized
        /\ new.signCount = NextSignCount(seen, flags, onRisk)
        /\ record.signCount = seen.signCount
        /\ record.uvInitialized = seen.uvInitialized
    <2>1. new = Applied(update, record)
      OBVIOUS
    <2> HIDE DEF new
    <2> QED BY <1>5, <1>6, <1>7, <1>8, <2>1, AppliedRecord
  <1> HIDE DEF new
  <1>10. /\ new.signCount \in SignCount
         /\ new.signCount > record.signCount \/ (new.signCount = 0 /\ record.signCount = 0)
    BY <1>7, <1>8, <1>9, NextSignCountAdvances
  <1>11. Verified(call.id, call.response, new)
    BY <1>3, <1>9 DEF Verified, record, seen
  <1> QED BY <1>3, <1>4, <1>6, <1>9, <1>10, <1>11 DEF new, record

LEMMA UpdateCredentialSound ==
    ASSUME QuickstartInv, NEW r \in Requests, UpdateCredential(r)
    PROVE  QuickstartInv'
  <1> DEFINE call == calls[r]
             id == call.record.id
             update == PlainUpdate(call.record, call.response.authData,
                           call.response.attachment, RP.updateOnCloneRisk)
             new == Applied(update, credentials[id])
             effect == [kind |-> "authentication", ceremony |-> call.id,
                        record |-> call.record, response |-> call.response]
             next == [pc |-> "create session", id |-> call.id]
  <1>1. call.pc = "update" /\ UNCHANGED <<now, ceremonies, sessions, issued>>
    BY DEF UpdateCredential, At
  <1>2. CASE Return(r) /\ UNCHANGED <<credentials, commits>>
    BY <1>1, <1>2, LocalReturn
  <1>3. CASE /\ UpdateAdmits(update)
             /\ credentials' = [credentials EXCEPT ![update.id] = Applied(update, @)]
             /\ commits' = commits \cup {effect}
             /\ Goto(r, next)
    <2>1. /\ update.id = id /\ id \in DOMAIN credentials
          /\ new \in CredentialRecord /\ new.id = id /\ new.user = User
          /\ new.key = credentials[id].key
          /\ new.uvInitialized = credentials[id].uvInitialized
          /\ Verified(call.id, call.response, new)
      BY <1>1, <1>3, UpdateWrites DEF At
    <2> HIDE DEF update
    <2>2. /\ DOMAIN credentials' = DOMAIN credentials
          /\ \A c \in DOMAIN credentials :
                 credentials'[c] = IF c = id THEN new ELSE credentials[c]
      BY <1>3, <2>1
    <2> HIDE DEF new
    <2>3. /\ effect.kind = "authentication" /\ effect.ceremony = call.id
          /\ effect.record = call.record /\ effect.response = call.response
      OBVIOUS
    <2>4. next.pc = "create session" /\ next.id = call.id
      OBVIOUS
    <2> HIDE DEF effect, next
    <2>5. call.id \in CeremonyIDs \cap issued
      BY <1>1 DEF QuickstartInv, CallSound
    <2>6. CredentialsSound(credentials')
      BY <2>1, <2>2 DEF QuickstartInv, CredentialsSound
    <2>7. CredentialsKept(credentials, credentials')
      BY <2>1, <2>2 DEF CredentialsKept
    <2>8. CommitsSound(commits', credentials', issued')
      <3>1. CommitsSound(commits, credentials', issued')
        BY <1>1, <2>7, CommitsStaySound DEF QuickstartInv
      <3>2. effect.record.id \in DOMAIN credentials'
            /\ Verified(effect.ceremony, effect.response, credentials'[effect.record.id])
        BY <2>1, <2>2, <2>3
      <3> QED BY <1>1, <1>3, <2>3, <2>5, <3>1, <3>2 DEF CommitsSound
    <2>9. SessionsSound(sessions', commits', issued', now')
      BY <1>1, <1>3, SessionsStaySound DEF QuickstartInv
    <2>10. TokensApart(calls', ceremonies', commits')
      BY <1>1, <1>3, <2>3, <2>4, TokenSpent
    <2>11. CallSound(next, credentials', commits', issued')
      <3>1. call.id \in LoggedIn(commits')
        BY <1>3, <2>3 DEF LoggedIn
      <3> QED BY <1>1, <2>4, <2>5, <3>1 DEF CallSound, Kinds
    <2>12. StoreSound(ceremonies', issued')
      BY <1>1 DEF QuickstartInv
    <2> QED BY <1>1, <1>3, <2>6, <2>7, <2>8, <2>9, <2>10, <2>11, <2>12, HandlerStep
  <1> QED BY <1>2, <1>3 DEF UpdateCredential, PlainUpdate

LEMMA CreateSessionSound ==
    ASSUME QuickstartInv, NEW r \in Requests, NEW cookie, NEW id \in SessionIDs,
           CreateSession(r, cookie, id)
    PROVE  QuickstartInv'
  <1> DEFINE call == calls[r]
             entry == [expires |-> now + SessionTTL, ceremony |-> call.id]
  <1>1. /\ call.pc = "create session" /\ Return(r)
        /\ issued' = issued \cup {id}
        /\ ceremonies' = Pruned.ceremonies
        /\ sessions' = SessionsAfterLogin(cookie, id, call.id)
        /\ UNCHANGED <<now, credentials, commits>>
    BY DEF CreateSession, At
  <1>2. /\ DOMAIN ceremonies' = Kinds
        /\ \A k \in Kinds : \A i \in DOMAIN ceremonies'[k] :
               i \in DOMAIN ceremonies[k] /\ ceremonies'[k][i] = ceremonies[k][i]
    BY <1>1, PrunedFacts
  <1>3. StoreSound(ceremonies', issued')
    <2>1. StoreSound(ceremonies, issued) /\ issued \subseteq issued'
      BY <1>1 DEF QuickstartInv
    <2> QED BY <1>2, <2>1, StoreStaysSound
  <1>4. call.id \in LoggedIn(commits)
    BY <1>1 DEF QuickstartInv, CallSound
  <1>5. \A s \in DOMAIN sessions' :
            \/ s = id /\ sessions'[s] = entry
            \/ s \in DOMAIN Pruned.sessions /\ sessions'[s] = Pruned.sessions[s]
    BY <1>1 DEF SessionsAfterLogin, Without, With
  <1>6. entry.expires = now + SessionTTL /\ entry.ceremony = call.id
    OBVIOUS
  <1> HIDE DEF entry
  <1>7. SessionsSound(sessions', commits, issued', now)
    <2>1. SessionsSound(Pruned.sessions, commits, issued, now)
      BY PrunedFacts, SessionsStaySound DEF QuickstartInv
    <2>2. now + SessionTTL \in Int /\ now + SessionTTL <= now + SessionTTL
      BY QuickstartAssumption DEF QuickstartInv
    <2> QED BY <1>1, <1>4, <1>5, <1>6, <2>1, <2>2 DEF SessionsSound
  <1>8. TokensApart(calls', ceremonies', commits)
    BY <1>1, <1>2, IdleSound, TokensStayApart DEF Return
  <1> QED BY <1>1, <1>3, <1>7, <1>8, IdleSound, QuietStep DEF Return

\* A step that moves no handler.
LEMMA StoreStep ==
    ASSUME QuickstartInv, UNCHANGED <<credentials, calls, issued, commits>>,
           now' \in Int, now <= now', DOMAIN ceremonies' = Kinds,
           \A k \in Kinds : \A i \in DOMAIN ceremonies'[k] :
               i \in DOMAIN ceremonies[k] /\ ceremonies'[k][i] = ceremonies[k][i],
           \A s \in DOMAIN sessions' : s \in DOMAIN sessions /\ sessions'[s] = sessions[s]
    PROVE  QuickstartInv'
  <1>1. StoreSound(ceremonies', issued')
    BY StoreStaysSound DEF QuickstartInv
  <1>2. SessionsSound(sessions', commits', issued', now')
    BY SessionsStaySound DEF QuickstartInv
  <1>3. TokensApart(calls', ceremonies', commits')
    <2>1. TokensApart(calls, ceremonies, commits)
      BY DEF QuickstartInv
    <2>2. \A k \in Kinds : DOMAIN ceremonies'[k] \subseteq DOMAIN ceremonies[k]
      OBVIOUS
    <2> QED BY <2>1, <2>2, ZenonT(40) DEF TokensApart
  <1> QED BY <1>1, <1>2, <1>3 DEF QuickstartInv

LEMMA QuickstartInvInductive == QuickstartInv /\ [Next]_vars => QuickstartInv'
  <1> SUFFICES ASSUME QuickstartInv, [Next]_vars PROVE QuickstartInv'
    OBVIOUS
  <1>0. now \in Int /\ DOMAIN ceremonies = Kinds
    BY DEF QuickstartInv, StoreSound
  <1>1. ASSUME NEW r \in Requests, Step(r) PROVE QuickstartInv'
    <2>1. CASE \E cookie \in CeremonyIDs \cup {None} : Save(r, cookie)
      BY <2>1, SaveSound
    <2>2. CASE \E response \in Registrations : VerifyRegistration(r, response)
      BY <2>2, VerifyRegistrationSound
    <2>3. CASE InsertCredential(r)
      BY <2>3, InsertCredentialSound
    <2>4. CASE \E response \in Assertions : Lookup(r, response)
      BY <2>4, LookupSound
    <2>5. CASE VerifyAuthentication(r)
      BY <2>5, VerifyAuthenticationSound
    <2>6. CASE UpdateCredential(r)
      BY <2>6, UpdateCredentialSound
    <2>7. CASE \E cookie \in SessionIDs \cup {None}, id \in SessionIDs :
                   CreateSession(r, cookie, id)
      BY <2>7, CreateSessionSound
    <2>8. CASE TokenFails(r)
      BY <2>8, LocalReturn DEF TokenFails
    <2> QED BY <1>1, <2>1, <2>2, <2>3, <2>4, <2>5, <2>6, <2>7, <2>8 DEF Step
  <1>2. ASSUME NEW r \in Requests, NEW kind \in Kinds, NEW id \in CeremonyIDs,
               Begin(r, kind, id) \/ Consume(r, kind, id)
        PROVE  QuickstartInv'
    BY <1>2, BeginSound, ConsumeSound
  <1>3. CASE Me
    BY <1>0, <1>3, PrunedFacts, StoreStep DEF Me
  <1>4. ASSUME NEW cookie \in SessionIDs, Logout(cookie) PROVE QuickstartInv'
    <2>1. \A s \in DOMAIN sessions' : s \in DOMAIN sessions /\ sessions'[s] = sessions[s]
      BY <1>4 DEF Logout, Without
    <2> QED BY <1>0, <1>4, <2>1, StoreStep DEF Logout
  <1>5. CASE Tick
    <2>1. now' \in Int /\ now <= now'
      BY <1>0, <1>5 DEF Tick
    <2> QED BY <1>0, <1>5, <2>1, StoreStep DEF Tick
  <1>6. CASE UNCHANGED vars
    BY <1>0, <1>6, StoreStep DEF vars
  <1> QED BY <1>1, <1>2, <1>3, <1>4, <1>5, <1>6 DEF Next

LEMMA QuickstartInvHolds == Spec => []QuickstartInv
  BY InitSound, QuickstartInvInductive, PTL DEF Spec

\* Theorem: for any number of handlers, browsers and credentials, whoever the
\* application calls authenticated has a stored login of the demo account
\* behind it, signed with user verification for the ceremony of the session
\* (me, finishAuthentication).
THEOREM QuickstartSessions == Spec => []SessionsAuthentic
  <1>1. QuickstartInv => SessionsAuthentic
    <2> SUFFICES ASSUME QuickstartInv, NEW s \in SessionIDs, MeAnswer(s)
                 PROVE  /\ sessions[s].expires \in now + 1 .. now + SessionTTL
                        /\ \E c \in Logins :
                            /\ c.ceremony = sessions[s].ceremony
                            /\ c.response.clientData.challenge = c.ceremony
                            /\ c.response.signature.key = credentials[c.record.id].key
                            /\ c.response.authData.uv
                            /\ credentials[c.record.id].uvInitialized
      BY DEF SessionsAuthentic
    <2>1. s \in DOMAIN sessions /\ now < sessions[s].expires
      BY PrunedFacts DEF MeAnswer
    <2>2. /\ sessions[s].expires \in Int /\ sessions[s].expires <= now + SessionTTL
          /\ sessions[s].ceremony \in LoggedIn(commits)
      BY <2>1 DEF QuickstartInv, SessionsSound
    <2>3. PICK c \in Logins : c.ceremony = sessions[s].ceremony
      BY <2>2 DEF LoggedIn, Logins
    <2>4. Verified(c.ceremony, c.response, credentials[c.record.id])
      BY <2>3 DEF QuickstartInv, CommitsSound, Logins
    <2>5. sessions[s].expires \in now + 1 .. now + SessionTTL
      BY <2>1, <2>2, QuickstartAssumption DEF QuickstartInv
    <2> QED BY <2>3, <2>4, <2>5 DEF Verified
  <1> QED BY <1>1, QuickstartInvHolds, PTL

-----------------------------------------------------------------------------
(***************************************************************************)
(* The handlers implement the atomic passkey service.  A step that writes  *)
(* a credential is an enrollment or a login of the service, a step that    *)
(* leaves "create session" opens a session or abandons it, and every other *)
(* step at most ends sessions.                                             *)
(***************************************************************************)

\* The logins of the service whose session is still to come.
LoginOf(call) == [user |-> User, ceremony |-> call.id]
EarnedIn(handlers) ==
    {LoginOf(handlers[r]) : r \in {q \in Requests : handlers[q].pc = "create session"}}

LEMMA EarnedStays ==
    ASSUME QuickstartInv, NEW r \in Requests, NEW call, Goto(r, call),
           calls[r].pc # "create session", call.pc # "create session"
    PROVE  EarnedIn(calls') = EarnedIn(calls)
  <1>1. \A q \in Requests : calls'[q] = IF q = r THEN call ELSE calls[q]
    BY DEF Goto, QuickstartInv
  <1>2. {q \in Requests : calls'[q].pc = "create session"}
            = {q \in Requests : calls[q].pc = "create session"}
    BY <1>1
  <1>3. \A q \in {p \in Requests : calls[p].pc = "create session"} : calls'[q] = calls[q]
    BY <1>1
  <1> QED BY <1>2, <1>3 DEF EarnedIn

LEMMA EarnedGrows ==
    ASSUME QuickstartInv, NEW r \in Requests, NEW call, Goto(r, call),
           calls[r].pc # "create session", call.pc = "create session"
    PROVE  EarnedIn(calls') = EarnedIn(calls) \cup {LoginOf(call)}
  <1>1. \A q \in Requests : calls'[q] = IF q = r THEN call ELSE calls[q]
    BY DEF Goto, QuickstartInv
  <1>2. {q \in Requests : calls'[q].pc = "create session"}
            = {q \in Requests : calls[q].pc = "create session"} \cup {r}
    BY <1>1
  <1>3. \A q \in {p \in Requests : calls[p].pc = "create session"} : calls'[q] = calls[q]
    BY <1>1
  <1>4. calls'[r] = call
    BY <1>1
  <1>5. \A x : x \in EarnedIn(calls') <=> x \in EarnedIn(calls) \/ x = LoginOf(call)
    BY <1>2, <1>3, <1>4 DEF EarnedIn
  <1> QED BY <1>5

\* No two handlers hold the same login, so the one that returns takes exactly
\* its own away.
LEMMA EarnedShrinks ==
    ASSUME QuickstartInv, NEW r \in Requests, Return(r), calls[r].pc = "create session"
    PROVE  /\ LoginOf(calls[r]) \in EarnedIn(calls)
           /\ EarnedIn(calls') = EarnedIn(calls) \ {LoginOf(calls[r])}
  <1> DEFINE waiting == {q \in Requests : calls[q].pc = "create session"}
  <1>1. \A q \in Requests : calls'[q] = IF q = r THEN Idle ELSE calls[q]
    BY DEF Return, Goto, QuickstartInv
  <1>2. {q \in Requests : calls'[q].pc = "create session"} = waiting \ {r}
    BY <1>1, IdleSound
  <1>3. \A q \in waiting \ {r} : calls'[q] = calls[q]
    BY <1>1
  <1>4. \A q \in waiting \ {r} : LoginOf(calls[q]) # LoginOf(calls[r])
    <2> SUFFICES ASSUME NEW q \in waiting \ {r} PROVE LoginOf(calls[q]) # LoginOf(calls[r])
      OBVIOUS
    <2>1. calls[q].id # calls[r].id
      BY DEF QuickstartInv, TokensApart
    <2> QED BY <2>1 DEF LoginOf
  <1>5. r \in waiting
    OBVIOUS
  <1>6. LoginOf(calls[r]) \in EarnedIn(calls)
    BY <1>5 DEF EarnedIn
  <1>7. ASSUME NEW x \in EarnedIn(calls')
        PROVE  x \in EarnedIn(calls) \ {LoginOf(calls[r])}
    <2>1. PICK q \in waiting \ {r} : x = LoginOf(calls[q])
      BY <1>2, <1>3 DEF EarnedIn
    <2> QED BY <1>4, <2>1 DEF EarnedIn
  <1>8. ASSUME NEW x \in EarnedIn(calls), x # LoginOf(calls[r])
        PROVE  x \in EarnedIn(calls')
    <2>1. PICK q \in waiting \ {r} : x = LoginOf(calls[q])
      BY <1>8 DEF EarnedIn
    <2> QED BY <1>2, <1>3, <2>1 DEF EarnedIn
  <1> QED BY <1>6, <1>7, <1>8

LEMMA StepCloses ==
    ASSUME UNCHANGED <<credentials, commits>>, EarnedIn(calls') = EarnedIn(calls),
           \A s \in DOMAIN sessions' : s \in DOMAIN sessions /\ sessions'[s] = sessions[s]
    PROVE  Service!ServiceNext
  <1>1. Service!Close
    BY DEF Service!Close, Service!SomeSessionsEnd, EarnedIn, LoginOf, At
  <1> QED BY <1>1 DEF Service!ServiceNext

\* The ways to take a step of the service.
LEMMA StepEnrolls ==
    ASSUME NEW credential \in CredentialIDs, NEW ceremony \in CeremonyIDs,
           NEW passkey \in [user : UserHandles, key : Keys, count : 0 .. MaxSignCount],
           Service!Enroll(credential, passkey, ceremony)
    PROVE  Service!ServiceNext
  BY Zenon DEF Service!ServiceNext

LEMMA StepLogsIn ==
    ASSUME NEW credential \in CredentialIDs, NEW ceremony \in CeremonyIDs,
           NEW count \in 0 .. MaxSignCount, Service!LogIn(credential, count, ceremony)
    PROVE  Service!ServiceNext
  BY Zenon DEF Service!ServiceNext

LEMMA StepUsesLogin ==
    ASSUME NEW login \in EarnedIn(calls), NEW id \in SessionIDs,
           Service!Abandon(login) \/ Service!OpenSession(login, id)
    PROVE  Service!ServiceNext
  BY Zenon DEF Service!ServiceNext, EarnedIn, LoginOf, At

LEMMA PasskeyTyped ==
    ASSUME NEW record \in CredentialRecord
    PROVE  Passkey(record) \in [user : UserHandles, key : Keys, count : 0 .. MaxSignCount]
  BY DEF Passkey, CredentialRecord, SignCount

LEMMA SpentGrows ==
    ASSUME NEW history, NEW effect
    PROVE  SpentIn(history \cup {effect}) = SpentIn(history) \cup {effect.ceremony}
  BY DEF SpentIn

LEMMA InsertEnrolls ==
    ASSUME QuickstartInv, NEW r \in Requests, InsertCredential(r)
    PROVE  Service!ServiceNext
  <1> DEFINE call == calls[r]
             id == call.record.id
             effect == [kind |-> "registration", ceremony |-> call.id,
                        record |-> call.record, response |-> call.response]
  <1>1. call.pc = "insert" /\ Return(r) /\ UNCHANGED <<now, ceremonies, sessions, issued>>
    BY DEF InsertCredential, At
  <1>2. EarnedIn(calls') = EarnedIn(calls)
    BY <1>1, IdleSound, EarnedStays DEF Return
  <1>3. CASE UNCHANGED <<credentials, commits>>
    BY <1>1, <1>2, <1>3, StepCloses
  <1>4. CASE /\ InsertAdmits(call.record)
             /\ credentials' = With(credentials, id, call.record)
             /\ commits' = commits \cup {effect}
    <2>1. call.record \in CredentialRecord /\ call.id \in CeremonyIDs
      BY <1>1 DEF QuickstartInv, CallSound
    <2>2. id \in CredentialIDs
      BY <2>1 DEF CredentialRecord
    <2>3. id \notin DOMAIN credentials
      BY <1>4 DEF InsertAdmits
    <2>4. call.id \notin SpentIn(commits)
      BY <1>1 DEF QuickstartInv, TokensApart
    <2>5. SpentIn(commits') = SpentIn(commits) \cup {call.id}
      <3>1. effect.ceremony = call.id
        OBVIOUS
      <3> HIDE DEF effect
      <3> QED BY <1>4, <3>1, SpentGrows
    <2>6. /\ DOMAIN credentials' = DOMAIN credentials \cup {id}
          /\ credentials'[id] = call.record
          /\ \A c \in DOMAIN credentials : credentials'[c] = credentials[c]
      BY <1>4, <2>3 DEF With
    <2>7. PICK credential, passkey, ceremony :
              credential = id /\ passkey = Passkey(call.record) /\ ceremony = call.id
      OBVIOUS
    <2>8. Service!Enroll(credential, passkey, ceremony)
      <3>1. [c \in DOMAIN credentials |-> Passkey(credentials[c])]'
            = [c \in DOMAIN credentials \cup {id} |->
                  IF c = id THEN Passkey(call.record)
                  ELSE [b \in DOMAIN credentials |-> Passkey(credentials[b])][c]]
        BY <2>3, <2>6 DEF Passkey
      <3> QED BY <1>1, <1>2, <2>3, <2>4, <2>5, <2>7, <3>1
              DEF Service!Enroll, SpentIn, EarnedIn, LoginOf, At
    <2>9. passkey \in [user : UserHandles, key : Keys, count : 0 .. MaxSignCount]
      BY <2>1, <2>7, PasskeyTyped
    <2> QED BY <2>1, <2>2, <2>7, <2>8, <2>9, StepEnrolls
  <1> QED BY <1>3, <1>4 DEF InsertCredential

LEMMA UpdateLogsIn ==
    ASSUME QuickstartInv, NEW r \in Requests, UpdateCredential(r)
    PROVE  Service!ServiceNext
  <1> DEFINE call == calls[r]
             id == call.record.id
             update == PlainUpdate(call.record, call.response.authData,
                           call.response.attachment, RP.updateOnCloneRisk)
             new == Applied(update, credentials[id])
             effect == [kind |-> "authentication", ceremony |-> call.id,
                        record |-> call.record, response |-> call.response]
             next == [pc |-> "create session", id |-> call.id]
  <1>1. call.pc = "update" /\ UNCHANGED <<now, ceremonies, sessions, issued>>
    BY DEF UpdateCredential, At
  <1>2. CASE Return(r) /\ UNCHANGED <<credentials, commits>>
    <2>1. EarnedIn(calls') = EarnedIn(calls)
      BY <1>1, <1>2, IdleSound, EarnedStays DEF Return
    <2> QED BY <1>1, <1>2, <2>1, StepCloses
  <1>3. CASE /\ UpdateAdmits(update)
             /\ credentials' = [credentials EXCEPT ![update.id] = Applied(update, @)]
             /\ commits' = commits \cup {effect}
             /\ Goto(r, next)
    <2>1. /\ update.id = id /\ id \in DOMAIN credentials
          /\ new.user = User /\ new.key = credentials[id].key
          /\ new.signCount \in SignCount
          /\ \/ new.signCount > credentials[id].signCount
             \/ new.signCount = 0 /\ credentials[id].signCount = 0
      BY <1>1, <1>3, UpdateWrites DEF At
    <2> HIDE DEF update
    <2>2. /\ DOMAIN credentials' = DOMAIN credentials
          /\ \A c \in DOMAIN credentials :
                 credentials'[c] = IF c = id THEN new ELSE credentials[c]
      BY <1>3, <2>1
    <2> HIDE DEF new
    <2>3. credentials[id].user = User /\ id \in CredentialIDs
      BY <2>1 DEF QuickstartInv, CredentialsSound
    <2>4. call.id \in CeremonyIDs /\ call.id \notin SpentIn(commits)
      BY <1>1 DEF QuickstartInv, CallSound, TokensApart
    <2>5. SpentIn(commits') = SpentIn(commits) \cup {call.id}
      <3>1. effect.ceremony = call.id
        OBVIOUS
      <3> HIDE DEF effect
      <3> QED BY <1>3, <3>1, SpentGrows
    <2>6. EarnedIn(calls') = EarnedIn(calls) \cup {[user |-> User, ceremony |-> call.id]}
      <3>1. next.pc = "create session" /\ LoginOf(next) = [user |-> User, ceremony |-> call.id]
        BY DEF LoginOf
      <3> HIDE DEF next
      <3> QED BY <1>1, <1>3, <3>1, EarnedGrows
    <2> DEFINE passkeys == [c \in DOMAIN credentials |-> Passkey(credentials[c])]
    <2>7. passkeys' = [passkeys EXCEPT ![id].count = new.signCount]
      <3>1. Passkey(new) = [Passkey(credentials[id]) EXCEPT !.count = new.signCount]
        BY <2>1, <2>3 DEF Passkey
      <3> QED BY <2>1, <2>2, <3>1, ZenonT(40)
    <2>8. /\ passkeys[id].user = User
          /\ passkeys[id].count = credentials[id].signCount
          /\ DOMAIN passkeys = DOMAIN credentials
      BY <2>1, <2>3 DEF Passkey
    <2>9. PICK credential, count, ceremony :
              credential = id /\ count = new.signCount /\ ceremony = call.id
      OBVIOUS
    <2>10. Service!LogIn(credential, count, ceremony)
      BY <1>1, <2>1, <2>4, <2>5, <2>6, <2>7, <2>8, <2>9
         DEF Service!LogIn, Service!Progress, SpentIn, EarnedIn, LoginOf, At
    <2>11. count \in 0 .. MaxSignCount
      BY <2>1, <2>9 DEF SignCount
    <2> QED BY <2>3, <2>4, <2>9, <2>10, <2>11, StepLogsIn
  <1> QED BY <1>2, <1>3 DEF UpdateCredential, PlainUpdate

LEMMA CreateOpens ==
    ASSUME QuickstartInv, NEW r \in Requests, NEW cookie, NEW id \in SessionIDs,
           CreateSession(r, cookie, id)
    PROVE  Service!ServiceNext
  <1> DEFINE call == calls[r]
             entry == [expires |-> now + SessionTTL, ceremony |-> call.id]
             kept == Without(Pruned.sessions, {cookie})
  <1>0. PICK login : login = LoginOf(call)
    OBVIOUS
  <1>1. /\ call.pc = "create session" /\ Return(r)
        /\ id \notin issued
        /\ sessions' = SessionsAfterLogin(cookie, id, call.id)
        /\ UNCHANGED <<now, credentials, commits>>
    BY DEF CreateSession, At
  <1>2. login \in EarnedIn(calls) /\ EarnedIn(calls') = EarnedIn(calls) \ {login}
    BY <1>0, <1>1, EarnedShrinks
  <1>3. id \notin DOMAIN sessions
    BY <1>1 DEF QuickstartInv, SessionsSound
  <1>4. \A s \in DOMAIN kept : s \in DOMAIN sessions /\ kept[s] = sessions[s]
    BY PrunedFacts DEF Without
  <1>5. sessions' = kept \/ sessions' = With(kept, id, entry)
    BY <1>1 DEF SessionsAfterLogin
  <1> HIDE DEF kept
  <1>6. CASE sessions' = kept
    <2>1. Service!Abandon(login)
      BY <1>1, <1>2, <1>4, <1>6
         DEF Service!Abandon, Service!SomeSessionsEnd, SpentIn, EarnedIn, LoginOf, At
    <2> QED BY <1>2, <2>1, StepUsesLogin
  <1>7. CASE sessions' = With(kept, id, entry)
    <2>1. /\ DOMAIN sessions' = DOMAIN kept \cup {id}
          /\ sessions'[id].ceremony = call.id
          /\ \A s \in DOMAIN kept : s # id => sessions'[s] = kept[s]
      BY <1>7 DEF With
    <2>2. Service!OpenSession(login, id)
      BY <1>0, <1>1, <1>2, <1>3, <1>4, <2>1, ZenonT(40)
         DEF Service!OpenSession, Service!SomeSessionsEnd, SpentIn, EarnedIn, LoginOf, At
    <2> QED BY <1>2, <2>2, StepUsesLogin
  <1> QED BY <1>5, <1>6, <1>7

\* A handler step that writes nothing to the credentials and the history and
\* neither comes to nor leaves "create session".
LEMMA HandlerCloses ==
    ASSUME QuickstartInv, NEW r \in Requests, NEW call, Goto(r, call),
           calls[r].pc # "create session", call.pc # "create session",
           UNCHANGED <<credentials, commits>>,
           \A s \in DOMAIN sessions' : s \in DOMAIN sessions /\ sessions'[s] = sessions[s]
    PROVE  Service!ServiceNext
  BY EarnedStays, StepCloses

LEMMA NextRefines ==
    ASSUME QuickstartInv, Next PROVE Service!ServiceNext
  <1>1. ASSUME NEW r \in Requests, Step(r) PROVE Service!ServiceNext
    <2>1. ASSUME NEW cookie \in CeremonyIDs \cup {None}, Save(r, cookie)
          PROVE  Service!ServiceNext
      <3>1. \A s \in DOMAIN sessions' : s \in DOMAIN sessions /\ sessions'[s] = sessions[s]
        BY <2>1, PrunedFacts DEF Save
      <3> QED BY <2>1, <3>1, HandlerCloses, IdleSound DEF Save, At, Return
    <2>2. ASSUME NEW response \in Registrations, VerifyRegistration(r, response)
          PROVE  Service!ServiceNext
      <3> DEFINE next == [pc |-> "insert", id |-> calls[r].id, response |-> response,
                          record |-> RegisteredCredential(calls[r].state, response)]
      <3>1. Goto(r, Idle) \/ Goto(r, next)
        BY <2>2 DEF VerifyRegistration, Return
      <3>2. next.pc = "insert"
        OBVIOUS
      <3> HIDE DEF next
      <3> QED BY <2>2, <3>1, <3>2, HandlerCloses, IdleSound DEF VerifyRegistration, At
    <2>3. CASE InsertCredential(r)
      BY <2>3, InsertEnrolls
    <2>4. ASSUME NEW response \in Assertions, Lookup(r, response)
          PROVE  Service!ServiceNext
      <3> DEFINE next == [pc |-> "verify", id |-> calls[r].id, state |-> calls[r].state,
                          response |-> response, record |-> credentials[response.rawId]]
      <3>1. Goto(r, Idle) \/ Goto(r, next)
        BY <2>4 DEF Lookup, Return
      <3>2. next.pc = "verify"
        OBVIOUS
      <3> HIDE DEF next
      <3> QED BY <2>4, <3>1, <3>2, HandlerCloses, IdleSound DEF Lookup, At
    <2>5. CASE VerifyAuthentication(r)
      <3> DEFINE next == [calls[r] EXCEPT !.pc = "update"]
      <3>1. Goto(r, Idle) \/ Goto(r, next)
        BY <2>5 DEF VerifyAuthentication, Return
      <3>2. calls[r].pc = "verify" /\ next.pc # "create session"
        BY <2>5 DEF VerifyAuthentication, At
      <3> HIDE DEF next
      <3> QED BY <2>5, <3>1, <3>2, HandlerCloses, IdleSound DEF VerifyAuthentication
    <2>6. CASE UpdateCredential(r)
      BY <2>6, UpdateLogsIn
    <2>7. CASE \E cookie \in SessionIDs \cup {None}, id \in SessionIDs :
                   CreateSession(r, cookie, id)
      BY <2>7, CreateOpens
    <2>8. CASE TokenFails(r)
      <3>1. PICK login : login = LoginOf(calls[r])
        OBVIOUS
      <3>2. login \in EarnedIn(calls) /\ EarnedIn(calls') = EarnedIn(calls) \ {login}
        BY <2>8, <3>1, EarnedShrinks DEF TokenFails, At
      <3>3. Service!Abandon(login)
        BY <2>8, <3>2 DEF TokenFails, Service!Abandon, Service!SomeSessionsEnd,
                          EarnedIn, LoginOf, At
      <3> QED BY <3>2, <3>3 DEF Service!ServiceNext, EarnedIn, LoginOf, At
    <2> QED BY <1>1, <2>1, <2>2, <2>3, <2>4, <2>5, <2>6, <2>7, <2>8 DEF Step
  <1>2. ASSUME NEW r \in Requests, NEW kind \in Kinds, NEW id \in CeremonyIDs,
               Begin(r, kind, id)
        PROVE  Service!ServiceNext
    <2> DEFINE next == [pc |-> "save", kind |-> kind, id |-> id,
                        state |-> IF kind = "registration"
                            THEN RegistrationState(RP, User, NoExtensions, FALSE, id, now)
                            ELSE AuthenticationState(RP, None, {}, NoExtensions, id, now)]
    <2>1. Goto(r, next) /\ next.pc = "save"
      BY <1>2 DEF Begin
    <2> HIDE DEF next
    <2> QED BY <1>2, <2>1, HandlerCloses DEF Begin, At
  <1>3. ASSUME NEW r \in Requests, NEW kind \in Kinds, NEW id \in CeremonyIDs,
               Consume(r, kind, id)
        PROVE  Service!ServiceNext
    <2> DEFINE next == [pc |-> kind, id |-> id, state |-> ceremonies[kind][id]]
    <2>1. Goto(r, Idle) \/ Goto(r, next)
      BY <1>3 DEF Consume, Return
    <2>2. next.pc # "create session"
      BY DEF Kinds
    <2>3. \A s \in DOMAIN sessions' : s \in DOMAIN sessions /\ sessions'[s] = sessions[s]
      BY <1>3, PrunedFacts DEF Consume
    <2> HIDE DEF next
    <2> QED BY <1>3, <2>1, <2>2, <2>3, HandlerCloses, IdleSound DEF Consume, At
  <1>4. CASE Me
    <2>1. EarnedIn(calls') = EarnedIn(calls)
      BY <1>4 DEF Me
    <2> QED BY <1>4, <2>1, PrunedFacts, StepCloses DEF Me
  <1>5. ASSUME NEW cookie \in SessionIDs, Logout(cookie) PROVE Service!ServiceNext
    <2>1. \A s \in DOMAIN sessions' : s \in DOMAIN sessions /\ sessions'[s] = sessions[s]
      BY <1>5 DEF Logout, Without
    <2>2. EarnedIn(calls') = EarnedIn(calls)
      BY <1>5 DEF Logout
    <2> QED BY <1>5, <2>1, <2>2, StepCloses DEF Logout
  <1>6. CASE Tick
    <2>1. EarnedIn(calls') = EarnedIn(calls)
      BY <1>6 DEF Tick
    <2> QED BY <1>6, <2>1, StepCloses DEF Tick
  <1> QED BY <1>1, <1>2, <1>3, <1>4, <1>5, <1>6 DEF Next

\* Theorem: the quickstart's handlers implement the atomic passkey service, for
\* any number of handlers and browsers: although lookup, verification, update
\* and session creation are separate steps under a lock that is released in
\* between, every login spends its own ceremony and moves its counter forward
\* (finishRegistration, finishAuthentication, store.go).
THEOREM QuickstartImplements == Spec => ImplementsService
  <1>1. Init => Service!ServiceInit
    <2> SUFFICES ASSUME Init PROVE Service!ServiceInit
      OBVIOUS
    <2>1. {q \in Requests : At(q, "create session")} = {}
      BY DEF Init, At, Idle
    <2>2. DOMAIN sessions = {}
      BY DEF Init, NoEntries
    <2> QED BY <2>1, <2>2 DEF Init, Service!ServiceInit
  <1>2. QuickstartInv /\ [Next]_vars => [Service!ServiceNext]_(Service!service)
    <2>1. QuickstartInv /\ Next => Service!ServiceNext
      BY NextRefines
    <2>2. UNCHANGED vars => UNCHANGED Service!service
      BY DEF vars, Service!service, At
    <2> QED BY <2>1, <2>2
  <1> QED BY <1>1, <1>2, QuickstartInvHolds, PTL
          DEF Spec, ImplementsService, Service!ServiceSpec

-----------------------------------------------------------------------------
(***************************************************************************)
(* Admission and removal of entries.                                       *)
(***************************************************************************)

\* prune keeps exactly the live entries.
LEMMA PruneExact ==
    ASSUME QuickstartInv
    PROVE  /\ \A k \in Kinds : DOMAIN Pruned.ceremonies[k] = LiveEntries(ceremonies[k])
           /\ DOMAIN Pruned.sessions = LiveEntries(sessions)
  <1>1. now \in Int
    BY DEF QuickstartInv
  <1>2. ASSUME NEW k \in Kinds
        PROVE  DOMAIN Pruned.ceremonies[k] = LiveEntries(ceremonies[k])
    <2>1. \A id \in DOMAIN ceremonies[k] : ceremonies[k][id].expires \in Int
      BY DEF QuickstartInv, StoreSound, StateFor
    <2>2. DOMAIN Pruned.ceremonies[k] = DOMAIN ceremonies[k] \ Expired(ceremonies[k])
      BY DEF Pruned, Without
    <2> QED BY <1>1, <2>1, <2>2 DEF Expired, LiveEntries
  <1>3. DOMAIN Pruned.sessions = LiveEntries(sessions)
    <2>1. \A s \in DOMAIN sessions : sessions[s].expires \in Int
      BY DEF QuickstartInv, SessionsSound
    <2>2. DOMAIN Pruned.sessions = DOMAIN sessions \ Expired(sessions)
      BY DEF Pruned, Without
    <2> QED BY <1>1, <2>1, <2>2 DEF Expired, LiveEntries
  <1> QED BY <1>2, <1>3

LEMMA SaveKeepsOthers ==
    ASSUME QuickstartInv, NEW r \in Requests, NEW cookie, Save(r, cookie)
    PROVE  /\ \A k \in Kinds : LiveEntries(ceremonies[k]) \ {cookie} \subseteq DOMAIN ceremonies'[k]
           /\ LiveEntries(sessions) = DOMAIN sessions'
  <1> DEFINE kind == calls[r].kind
             open == Pruned.ceremonies
             saved == SavedStates(kind, cookie, calls[r].id, calls[r].state)
  <1>1. /\ calls[r].pc = "save"
        /\ ceremonies' = [open EXCEPT ![kind] = saved]
        /\ sessions' = Pruned.sessions
    BY DEF Save, At
  <1>2. kind \in Kinds
    BY <1>1 DEF QuickstartInv, CallSound
  <1>3. DOMAIN open = Kinds
    BY PrunedFacts
  <1>4. DOMAIN open[kind] \ {cookie} \subseteq DOMAIN saved
    BY DEF SavedStates, Without, With
  <1>5. \A k \in Kinds : DOMAIN open[k] = LiveEntries(ceremonies[k])
    BY PruneExact
  <1> HIDE DEF open, saved, kind
  <1>6. \A k \in Kinds : ceremonies'[k] = IF k = kind THEN saved ELSE open[k]
    BY <1>1, <1>3
  <1> QED BY <1>1, <1>2, <1>4, <1>5, <1>6, PruneExact

LEMMA ConsumeKeepsOthers ==
    ASSUME QuickstartInv, NEW r \in Requests, NEW kind \in Kinds, NEW id,
           Consume(r, kind, id)
    PROVE  /\ \A k \in Kinds : LiveEntries(ceremonies[k]) \ DOMAIN ceremonies'[k] \subseteq
                  IF k = kind THEN {id} ELSE {}
           /\ LiveEntries(sessions) = DOMAIN sessions'
  <1> DEFINE open == Pruned.ceremonies
             rest == Without(open[kind], {id})
  <1>1. /\ ceremonies' = [open EXCEPT ![kind] = rest]
        /\ sessions' = Pruned.sessions
    BY DEF Consume
  <1>2. DOMAIN open = Kinds
    BY PrunedFacts
  <1>3. DOMAIN rest = DOMAIN open[kind] \ {id}
    BY DEF Without
  <1>4. \A k \in Kinds : DOMAIN open[k] = LiveEntries(ceremonies[k])
    BY PruneExact
  <1> HIDE DEF open, rest
  <1>5. \A k \in Kinds : ceremonies'[k] = IF k = kind THEN rest ELSE open[k]
    BY <1>1, <1>2
  <1> QED BY <1>1, <1>3, <1>4, <1>5, PruneExact

LEMMA CreateKeepsOthers ==
    ASSUME QuickstartInv, NEW r \in Requests, NEW cookie, NEW id,
           CreateSession(r, cookie, id)
    PROVE  /\ \A k \in Kinds : LiveEntries(ceremonies[k]) = DOMAIN ceremonies'[k]
           /\ LiveEntries(sessions) \ {cookie} \subseteq DOMAIN sessions'
  <1>1. /\ ceremonies' = Pruned.ceremonies
        /\ sessions' = SessionsAfterLogin(cookie, id, calls[r].id)
    BY DEF CreateSession
  <1>2. DOMAIN Pruned.sessions \ {cookie} \subseteq DOMAIN sessions'
    BY <1>1 DEF SessionsAfterLogin, Without, With
  <1> QED BY <1>1, <1>2, PruneExact

\* Theorem: only a request that carries its cookie takes a live ceremony or
\* session away, however handlers, pruning and the clock interleave (prune and
\* the deletes of the handlers).
THEOREM OthersEntriesStay == Spec => OnlyOwnEntriesRemoved
  <1> DEFINE lostCeremonies ==
                 \A k \in Kinds : \A id \in LiveEntries(ceremonies[k]) \ DOMAIN ceremonies'[k] :
                     \E r \in Requests : Save(r, id) \/ Consume(r, k, id)
             lostSessions ==
                 \A s \in LiveEntries(sessions) \ DOMAIN sessions' :
                     Logout(s) \/ \E r \in Requests, id \in SessionIDs : CreateSession(r, s, id)
  <1>1. QuickstartInv /\ [Next]_vars => [lostCeremonies /\ lostSessions]_vars
    <2> SUFFICES ASSUME QuickstartInv, Next PROVE lostCeremonies /\ lostSessions
      OBVIOUS
    <2>1. UNCHANGED ceremonies => lostCeremonies
      BY DEF LiveEntries
    <2>2. UNCHANGED sessions => lostSessions
      BY DEF LiveEntries
    <2>3. ASSUME NEW r \in Requests, Step(r) PROVE lostCeremonies /\ lostSessions
      <3>1. ASSUME NEW cookie \in CeremonyIDs \cup {None}, Save(r, cookie)
            PROVE  lostCeremonies /\ lostSessions
        BY <3>1, SaveKeepsOthers
      <3>2. ASSUME NEW cookie \in SessionIDs \cup {None}, NEW id \in SessionIDs,
                   CreateSession(r, cookie, id)
            PROVE  lostCeremonies /\ lostSessions
        BY <3>2, CreateKeepsOthers
      <3>3. CASE UNCHANGED <<ceremonies, sessions>>
        BY <2>1, <2>2, <3>3
      <3> QED BY <2>3, <3>1, <3>2, <3>3
              DEF Step, VerifyRegistration, InsertCredential, Lookup,
                  VerifyAuthentication, UpdateCredential, TokenFails
    <2>4. ASSUME NEW r \in Requests, NEW kind \in Kinds, NEW id \in CeremonyIDs,
                 Begin(r, kind, id) \/ Consume(r, kind, id)
          PROVE  lostCeremonies /\ lostSessions
      <3>1. CASE Begin(r, kind, id)
        BY <2>1, <2>2, <3>1 DEF Begin
      <3>2. CASE Consume(r, kind, id)
        BY <3>2, ConsumeKeepsOthers
      <3> QED BY <2>4, <3>1, <3>2
    <2>5. CASE Me
      BY <2>5, PruneExact DEF Me
    <2>6. ASSUME NEW cookie \in SessionIDs, Logout(cookie)
          PROVE  lostCeremonies /\ lostSessions
      <3>1. DOMAIN sessions' = DOMAIN sessions \ {cookie} /\ UNCHANGED ceremonies
        BY <2>6 DEF Logout, Without
      <3> QED BY <2>1, <2>6, <3>1 DEF LiveEntries
    <2>7. CASE Tick
      BY <2>1, <2>2, <2>7 DEF Tick
    <2> QED BY <2>3, <2>4, <2>5, <2>6, <2>7 DEF Next
  <1>2. QuickstartInv /\ [Next]_vars =>
            [/\ \A k \in Kinds : \A id \in LiveEntries(ceremonies[k]) \ DOMAIN ceremonies'[k] :
                    \E r \in Requests : Save(r, id) \/ Consume(r, k, id)
             /\ \A s \in LiveEntries(sessions) \ DOMAIN sessions' :
                    Logout(s) \/ \E r \in Requests, id \in SessionIDs :
                                     CreateSession(r, s, id)]_vars
    BY <1>1
  <1> QED BY <1>2, QuickstartInvHolds, PTL DEF Spec, OnlyOwnEntriesRemoved

\* No map outgrows its limit.
Fits(keys, capacity) == IsFiniteSet(keys) /\ Cardinality(keys) <= capacity

WithinCapacity ==
    /\ \A k \in Kinds : Fits(DOMAIN ceremonies[k], CeremonyCapacity)
    /\ Fits(DOMAIN sessions, SessionCapacity)
    /\ Fits(DOMAIN credentials, CredentialCapacity)

LEMMA FewerFit ==
    ASSUME NEW keys, NEW capacity \in Nat, Fits(keys, capacity), NEW fewer \in SUBSET keys
    PROVE  Fits(fewer, capacity)
  <1>1. /\ IsFiniteSet(fewer) /\ Cardinality(fewer) <= Cardinality(keys)
        /\ Cardinality(fewer) \in Nat /\ Cardinality(keys) \in Nat
    BY FS_Subset, FS_CardinalityType DEF Fits
  <1> QED BY <1>1 DEF Fits

LEMMA OneMoreFits ==
    ASSUME NEW keys, NEW capacity \in Nat, Fits(keys, capacity), NEW key,
           Cardinality(keys) < capacity
    PROVE  Fits(keys \cup {key}, capacity)
  <1>1. /\ IsFiniteSet(keys \cup {key}) /\ Cardinality(keys) \in Nat
        /\ Cardinality(keys \cup {key}) \in {Cardinality(keys), Cardinality(keys) + 1}
    BY FS_AddElement, FS_CardinalityType DEF Fits
  <1> QED BY <1>1 DEF Fits

\* A write that stores its entry exactly when there is room.
LEMMA GuardedWriteFits ==
    ASSUME NEW kept, NEW capacity \in Nat, Fits(DOMAIN kept, capacity),
           NEW key, NEW value, NEW written,
           written = IF Cardinality(DOMAIN kept) >= capacity THEN kept
                     ELSE With(kept, key, value)
    PROVE  /\ Fits(DOMAIN written, capacity)
           /\ key \notin DOMAIN written => Cardinality(DOMAIN kept) >= capacity
  <1>1. CASE Cardinality(DOMAIN kept) >= capacity
    BY <1>1
  <1>2. CASE ~(Cardinality(DOMAIN kept) >= capacity)
    <2>1. DOMAIN written = DOMAIN kept \cup {key}
      BY <1>2 DEF With
    <2>2. Cardinality(DOMAIN kept) < capacity
      BY <1>2, FS_CardinalityType DEF Fits
    <2> QED BY <2>1, <2>2, OneMoreFits
  <1> QED BY <1>1, <1>2

LEMMA Capacities ==
    CeremonyCapacity \in Nat /\ SessionCapacity \in Nat /\ CredentialCapacity \in Nat
  BY QuickstartAssumption

\* What prune leaves fits, and so does what is left of it.
LEMMA PrunedFits ==
    ASSUME QuickstartInv, WithinCapacity
    PROVE  /\ \A k \in Kinds : Fits(DOMAIN Pruned.ceremonies[k], CeremonyCapacity)
           /\ Fits(DOMAIN Pruned.sessions, SessionCapacity)
  <1>1. \A k \in Kinds : DOMAIN Pruned.ceremonies[k] \subseteq DOMAIN ceremonies[k]
    BY PrunedFacts
  <1>2. DOMAIN Pruned.sessions \subseteq DOMAIN sessions
    BY PrunedFacts
  <1> QED BY <1>1, <1>2, FewerFit, Capacities DEF WithinCapacity

LEMMA SaveAdmits ==
    ASSUME QuickstartInv, WithinCapacity, NEW r \in Requests, NEW cookie, Save(r, cookie)
    PROVE  /\ WithinCapacity'
           /\ calls[r].id \notin DOMAIN ceremonies'[calls[r].kind] =>
                  Cardinality(LiveEntries(ceremonies[calls[r].kind]) \ {cookie})
                      >= CeremonyCapacity
  <1> DEFINE kind == calls[r].kind
             id == calls[r].id
             state == calls[r].state
             open == Pruned.ceremonies
             kept == Without(open[kind], {cookie})
             saved == SavedStates(kind, cookie, id, state)
  <1>1. /\ calls[r].pc = "save"
        /\ ceremonies' = [open EXCEPT ![kind] = saved]
        /\ sessions' = Pruned.sessions /\ credentials' = credentials
    BY DEF Save, At
  <1>2. kind \in Kinds
    BY <1>1 DEF QuickstartInv, CallSound
  <1>3. DOMAIN open = Kinds /\ \A k \in Kinds : Fits(DOMAIN open[k], CeremonyCapacity)
    BY PrunedFacts, PrunedFits
  <1>4. DOMAIN kept = LiveEntries(ceremonies[kind]) \ {cookie}
    BY <1>2, PruneExact DEF Without
  <1>5. DOMAIN kept \subseteq DOMAIN open[kind]
    BY DEF Without
  <1>6. saved = IF Cardinality(DOMAIN kept) >= CeremonyCapacity THEN kept
                ELSE With(kept, id, state)
    BY DEF SavedStates
  <1> HIDE DEF open, kept, saved, kind, id, state
  <1>7. Fits(DOMAIN kept, CeremonyCapacity)
    BY <1>2, <1>3, <1>5, FewerFit, Capacities
  <1>8. /\ Fits(DOMAIN saved, CeremonyCapacity)
        /\ id \notin DOMAIN saved => Cardinality(DOMAIN kept) >= CeremonyCapacity
    BY <1>6, <1>7, GuardedWriteFits, Capacities
  <1>9. \A k \in Kinds : ceremonies'[k] = IF k = kind THEN saved ELSE open[k]
    BY <1>1, <1>3
  <1>10. WithinCapacity'
    <2>1. \A k \in Kinds : Fits(DOMAIN ceremonies'[k], CeremonyCapacity)
      BY <1>3, <1>8, <1>9
    <2> QED BY <1>1, <2>1, PrunedFits DEF WithinCapacity
  <1> QED BY <1>2, <1>4, <1>8, <1>9, <1>10 DEF kind, id

LEMMA CreateAdmits ==
    ASSUME QuickstartInv, WithinCapacity, NEW r \in Requests, NEW cookie, NEW id,
           CreateSession(r, cookie, id)
    PROVE  /\ WithinCapacity'
           /\ id \notin DOMAIN sessions' =>
                  Cardinality(LiveEntries(sessions) \ {cookie}) >= SessionCapacity
  <1> DEFINE kept == Without(Pruned.sessions, {cookie})
             entry == [expires |-> now + SessionTTL, ceremony |-> calls[r].id]
  <1>1. /\ ceremonies' = Pruned.ceremonies /\ credentials' = credentials
        /\ sessions' = IF Cardinality(DOMAIN kept) >= SessionCapacity THEN kept
                       ELSE With(kept, id, entry)
    BY DEF CreateSession, SessionsAfterLogin
  <1>2. DOMAIN kept = LiveEntries(sessions) \ {cookie}
        /\ DOMAIN kept \subseteq DOMAIN Pruned.sessions
    BY PruneExact DEF Without
  <1> HIDE DEF kept, entry
  <1>3. Fits(DOMAIN kept, SessionCapacity)
    BY <1>2, PrunedFits, FewerFit, Capacities
  <1>4. /\ Fits(DOMAIN sessions', SessionCapacity)
        /\ id \notin DOMAIN sessions' => Cardinality(DOMAIN kept) >= SessionCapacity
    BY <1>1, <1>3, GuardedWriteFits, Capacities
  <1>5. WithinCapacity'
    BY <1>1, <1>4, PrunedFits DEF WithinCapacity
  <1> QED BY <1>2, <1>4, <1>5

\* No entry is added, or a credential that insert admitted.
LEMMA NothingAdmitted ==
    ASSUME WithinCapacity,
           \A k \in Kinds : DOMAIN ceremonies'[k] \subseteq DOMAIN ceremonies[k],
           DOMAIN sessions' \subseteq DOMAIN sessions,
           \/ DOMAIN credentials' = DOMAIN credentials
           \/ /\ Cardinality(DOMAIN credentials) < CredentialCapacity
              /\ \E c : DOMAIN credentials' = DOMAIN credentials \cup {c}
    PROVE  WithinCapacity'
  <1>1. \A k \in Kinds : Fits(DOMAIN ceremonies'[k], CeremonyCapacity)
    BY FewerFit, Capacities DEF WithinCapacity
  <1>2. Fits(DOMAIN sessions', SessionCapacity)
    BY FewerFit, Capacities DEF WithinCapacity
  <1>3. Fits(DOMAIN credentials', CredentialCapacity)
    BY OneMoreFits, Capacities, ZenonT(40) DEF WithinCapacity
  <1> QED BY <1>1, <1>2, <1>3 DEF WithinCapacity

LEMMA WithinCapacityInductive ==
    ASSUME QuickstartInv, WithinCapacity, [Next]_vars PROVE WithinCapacity'
  <1>1. ASSUME NEW r \in Requests, Step(r) PROVE WithinCapacity'
    <2>1. ASSUME NEW cookie, Save(r, cookie) PROVE WithinCapacity'
      BY <2>1, SaveAdmits
    <2>2. ASSUME NEW cookie, NEW id, CreateSession(r, cookie, id) PROVE WithinCapacity'
      BY <2>2, CreateAdmits
    <2>3. CASE UNCHANGED <<ceremonies, sessions, credentials>>
      BY <2>3, NothingAdmitted
    <2>4. CASE InsertCredential(r)
      <3>1. CASE InsertAdmits(calls[r].record)
        BY <2>4, <3>1, NothingAdmitted DEF InsertCredential, InsertAdmits, With
      <3> QED BY <2>3, <2>4, <3>1 DEF InsertCredential
    <2>5. CASE UpdateCredential(r)
      <3>1. UNCHANGED <<ceremonies, sessions>> /\ DOMAIN credentials' = DOMAIN credentials
        BY <2>5 DEF UpdateCredential
      <3> QED BY <3>1, NothingAdmitted
    <2> QED BY <1>1, <2>1, <2>2, <2>3, <2>4, <2>5
            DEF Step, VerifyRegistration, Lookup, VerifyAuthentication, TokenFails
  <1>2. ASSUME NEW r \in Requests, NEW kind \in Kinds, NEW id \in CeremonyIDs,
               Begin(r, kind, id) \/ Consume(r, kind, id)
        PROVE  WithinCapacity'
    <2>1. CASE Begin(r, kind, id)
      BY <2>1, NothingAdmitted DEF Begin
    <2>2. CASE Consume(r, kind, id)
      <3>1. /\ ceremonies' = [Pruned.ceremonies EXCEPT ![kind] = Without(@, {id})]
            /\ sessions' = Pruned.sessions /\ credentials' = credentials
        BY <2>2 DEF Consume
      <3>2. \A k \in Kinds : DOMAIN ceremonies'[k] \subseteq DOMAIN Pruned.ceremonies[k]
        BY <3>1, PrunedFacts DEF Without
      <3> QED BY <3>1, <3>2, PrunedFacts, NothingAdmitted
    <2> QED BY <1>2, <2>1, <2>2
  <1>3. CASE Me
    BY <1>3, PrunedFacts, NothingAdmitted DEF Me
  <1>4. ASSUME NEW cookie \in SessionIDs, Logout(cookie) PROVE WithinCapacity'
    BY <1>4, NothingAdmitted DEF Logout, Without
  <1>5. CASE Tick
    BY <1>5, NothingAdmitted DEF Tick
  <1>6. CASE UNCHANGED vars
    BY <1>6, NothingAdmitted DEF vars
  <1> QED BY <1>1, <1>2, <1>3, <1>4, <1>5, <1>6 DEF Next

\* Theorem: a begin or a login is refused for lack of room only while that many
\* live entries belong to other browsers, and no map outgrows its limit (the
\* 429 answers of beginRegistration, beginAuthentication, finishAuthentication).
THEOREM QuickstartAdmission == Spec => AdmissionExact
  <1>1. Init => WithinCapacity
    <2> SUFFICES ASSUME Init PROVE WithinCapacity
      OBVIOUS
    <2>1. /\ \A k \in Kinds : DOMAIN ceremonies[k] = {}
          /\ DOMAIN sessions = {}
      BY DEF Init, NoEntries
    <2>2. Fits({}, CeremonyCapacity) /\ Fits({}, SessionCapacity)
      BY FS_EmptySet, Capacities DEF Fits
    <2>3. Fits(DOMAIN credentials, CredentialCapacity)
      BY InitialCredentialsAssumption DEF Init, Fits
    <2> QED BY <2>1, <2>2, <2>3 DEF WithinCapacity
  <1>2. QuickstartInv /\ WithinCapacity /\ [Next]_vars => WithinCapacity'
    BY WithinCapacityInductive
  <1>3. QuickstartInv /\ WithinCapacity =>
            \A r \in Requests :
                /\ \A cookie \in CeremonyIDs :
                    (Save(r, cookie) /\ calls[r].id \notin DOMAIN ceremonies'[calls[r].kind]) =>
                        Cardinality(LiveEntries(ceremonies[calls[r].kind]) \ {cookie})
                            >= CeremonyCapacity
                /\ \A cookie, id \in SessionIDs :
                    (CreateSession(r, cookie, id) /\ id \notin DOMAIN sessions') =>
                        Cardinality(LiveEntries(sessions) \ {cookie}) >= SessionCapacity
    BY SaveAdmits, CreateAdmits
  <1>4. WithinCapacity' =>
            /\ \A k \in Kinds : Cardinality(DOMAIN ceremonies'[k]) <= CeremonyCapacity
            /\ Cardinality(DOMAIN sessions') <= SessionCapacity
            /\ Cardinality(DOMAIN credentials') <= CredentialCapacity
    BY DEF WithinCapacity, Fits
  <1> QED BY <1>1, <1>2, <1>3, <1>4, QuickstartInvHolds, PTL DEF Spec, AdmissionExact
===============================================================================
