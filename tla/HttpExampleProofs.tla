-------------------------- MODULE HttpExampleProofs --------------------------
(***************************************************************************)
(* Theorems about the HTTP example, for any number of handlers, ceremonies *)
(* and credentials.                                                        *)
(*                                                                         *)
(* The inductive invariant is that of QuickstartProofs without sessions:   *)
(* what a handler has established at each of its points, where a token can *)
(* be, and what each answer rests on.  The clock plays no part in it,      *)
(* because pruning only ever removes states.                               *)
(***************************************************************************)
EXTENDS HttpExample, CeremonyProofs

\* A state that a begin handler created: a login names one credential and the
\* account that owned it.
StateFor(kind, id, state) ==
    /\ state.challenge = id
    /\ kind = "registration" => state.user = User /\ state.rpId = RP.rpId
    /\ kind = "authentication" =>
           state.expected \in UserHandles /\ \E c \in CredentialIDs : state.allow = {c}

RecordsSound(stored) ==
    /\ DOMAIN stored \subseteq CredentialIDs
    /\ \A c \in DOMAIN stored : stored[c] \in CredentialRecord /\ stored[c].id = c

\* The stored record still has the owner and the key of the one that was read.
Current(record, stored) ==
    /\ record.id \in DOMAIN stored
    /\ stored[record.id].user = record.user /\ stored[record.id].key = record.key

\* What verification established.
Verified(id, state, response, record) ==
    /\ response.clientData.challenge = id
    /\ response.signature.key = record.key
    /\ state.allow = {record.id} /\ state.expected = record.user

\* What a handler has established by the time it is at its point.
CallSound(call, stored, tokens) ==
    /\ call.pc \in {"idle", "save", "registration", "authentication", "insert",
                    "verify", "update"}
    /\ call.pc # "idle" => call.id \in CeremonyIDs \cap tokens
    /\ call.pc = "save" => call.kind \in Kinds /\ StateFor(call.kind, call.id, call.state)
    /\ call.pc \in Kinds => StateFor(call.pc, call.id, call.state)
    /\ call.pc = "insert" => call.record \in CredentialRecord
    /\ call.pc \in {"verify", "update"} =>
           /\ StateFor("authentication", call.id, call.state)
           /\ call.response \in Assertions
           /\ call.record \in CredentialRecord /\ Current(call.record, stored)
    /\ call.pc = "update" => Verified(call.id, call.state, call.response, call.record)

StoreSound(open, tokens) ==
    /\ DOMAIN open = Kinds
    /\ \A k \in Kinds : \A id \in DOMAIN open[k] :
           id \in CeremonyIDs \cap tokens /\ StateFor(k, id, open[k][id])

\* An answer is the only one of its ceremony, and a login is still borne out by
\* the stored record.
AnswersSound(history, stored, tokens) ==
    \A a \in history :
        /\ a.ceremony \in tokens
        /\ a.kind = "authenticated" =>
               /\ Current(a.record, stored)
               /\ Verified(a.ceremony, a.state, a.response, a.record)
        /\ \A b \in history : a.ceremony = b.ceremony => a = b

\* A token is in one place: in a map of states, with one handler, or spent.
SpentIn(history) == {a.ceremony : a \in history}

TokensApart(handlers, open, spent) ==
    /\ \A k, l \in Kinds : k # l => DOMAIN open[k] \cap DOMAIN open[l] = {}
    /\ \A k \in Kinds : DOMAIN open[k] \cap spent = {}
    /\ \A r \in Requests : handlers[r].pc # "idle" =>
           /\ handlers[r].id \notin spent
           /\ \A k \in Kinds : handlers[r].id \notin DOMAIN open[k]
           /\ \A q \in Requests \ {r} :
                  handlers[q].pc # "idle" => handlers[q].id # handlers[r].id

HttpInv ==
    /\ DOMAIN calls = Requests
    /\ \A r \in Requests : CallSound(calls[r], records, issued)
    /\ RecordsSound(records)
    /\ StoreSound(states, issued)
    /\ AnswersSound(answers, records, issued)
    /\ TokensApart(calls, states, SpentIn(answers))

-----------------------------------------------------------------------------
(***************************************************************************)
(* Carrying the parts of the invariant over to the next state.             *)
(***************************************************************************)

\* No record goes away, and none changes its owner or its key.
RecordsKept(stored, next) ==
    \A c \in DOMAIN stored :
        /\ c \in DOMAIN next
        /\ next[c].user = stored[c].user /\ next[c].key = stored[c].key

LEMMA CallStaysSound ==
    ASSUME NEW call, NEW stored, NEW stored2, NEW tokens, NEW tokens2,
           CallSound(call, stored, tokens), RecordsKept(stored, stored2),
           tokens \subseteq tokens2
    PROVE  CallSound(call, stored2, tokens2)
  BY DEF CallSound, RecordsKept, Current

LEMMA AnswersStaySound ==
    ASSUME NEW stored, NEW stored2, NEW history, NEW tokens, NEW tokens2,
           AnswersSound(history, stored, tokens), RecordsKept(stored, stored2),
           tokens \subseteq tokens2
    PROVE  AnswersSound(history, stored2, tokens2)
  BY DEF AnswersSound, RecordsKept, Current

LEMMA StoreStaysSound ==
    ASSUME NEW open, NEW open2, NEW tokens, NEW tokens2, StoreSound(open, tokens),
           tokens \subseteq tokens2, DOMAIN open2 = Kinds,
           \A k \in Kinds : \A id \in DOMAIN open2[k] :
               id \in DOMAIN open[k] /\ open2[k][id] = open[k][id]
    PROVE  StoreSound(open2, tokens2)
  BY DEF StoreSound

\* What pruning leaves.
LEMMA PrunedFacts ==
    /\ DOMAIN Pruned = Kinds
    /\ \A k \in Kinds : \A id \in DOMAIN Pruned[k] :
           id \in DOMAIN states[k] /\ Pruned[k][id] = states[k][id]
  <1>1. DOMAIN Pruned = Kinds
    BY DEF Pruned
  <1>2. ASSUME NEW k \in Kinds, NEW id \in DOMAIN Pruned[k]
        PROVE  id \in DOMAIN states[k] /\ Pruned[k][id] = states[k][id]
    <2>1. Pruned[k] =
              Without(states[k], {i \in DOMAIN states[k] : now >= states[k][i].expires})
      BY DEF Pruned
    <2> QED BY <1>2, <2>1 DEF Without
  <1> QED BY <1>1, <1>2

\* A handler moves on: the parts that are about the stores are given.
LEMMA HandlerStep ==
    ASSUME HttpInv, NEW r \in Requests, NEW call, Goto(r, call),
           CallSound(call, records', issued'),
           RecordsKept(records, records'), RecordsSound(records'),
           issued \subseteq issued',
           AnswersSound(answers', records', issued'),
           StoreSound(states', issued'),
           TokensApart(calls', states', SpentIn(answers'))
    PROVE  HttpInv'
  <1>1. /\ DOMAIN calls' = Requests
        /\ \A q \in Requests : calls'[q] = IF q = r THEN call ELSE calls[q]
    BY DEF Goto, HttpInv
  <1>2. \A q \in Requests : CallSound(calls'[q], records', issued')
    BY <1>1, CallStaysSound DEF HttpInv
  <1>3. SpentIn(answers)' = SpentIn(answers')
    BY DEF SpentIn
  <1> QED BY <1>1, <1>2, <1>3 DEF HttpInv

\* Nothing is written to the records or the history.
LEMMA QuietStep ==
    ASSUME HttpInv, NEW r \in Requests, NEW call, Goto(r, call),
           records' = records, answers' = answers, issued \subseteq issued',
           CallSound(call, records, issued'),
           StoreSound(states', issued'),
           TokensApart(calls', states', SpentIn(answers))
    PROVE  HttpInv'
  <1>1. RecordsKept(records, records)
    BY DEF RecordsKept
  <1>2. AnswersSound(answers, records, issued')
    BY <1>1, AnswersStaySound DEF HttpInv
  <1> QED BY <1>1, <1>2, HandlerStep DEF HttpInv

LEMMA IdleSound ==
    ASSUME NEW stored, NEW tokens
    PROVE  CallSound(Idle, stored, tokens) /\ Idle.pc = "idle"
  BY DEF CallSound, Idle, Kinds

\* A handler lets go of its token, or has one that is nowhere else, while
\* states may only go away.
LEMMA TokenTaken ==
    ASSUME HttpInv, NEW r \in Requests, NEW call, Goto(r, call),
           \A k \in Kinds : DOMAIN states'[k] \subseteq DOMAIN states[k],
           call.pc # "idle" =>
               /\ call.id \notin SpentIn(answers)
               /\ \A k \in Kinds : call.id \notin DOMAIN states'[k]
               /\ \A q \in Requests \ {r} : calls[q].pc # "idle" => calls[q].id # call.id
    PROVE  TokensApart(calls', states', SpentIn(answers))
  <1>1. \A q \in Requests : calls'[q] = IF q = r THEN call ELSE calls[q]
    BY DEF Goto, HttpInv
  <1>2. TokensApart(calls, states, SpentIn(answers))
    BY DEF HttpInv
  <1> DEFINE spent == SpentIn(answers)
  <1> HIDE DEF spent
  <1>3. /\ \A k, l \in Kinds : k # l => DOMAIN states'[k] \cap DOMAIN states'[l] = {}
        /\ \A k \in Kinds : DOMAIN states'[k] \cap spent = {}
    BY <1>2 DEF TokensApart, spent
  <1>4. ASSUME NEW p \in Requests, calls'[p].pc # "idle"
        PROVE  /\ calls'[p].id \notin spent
               /\ \A k \in Kinds : calls'[p].id \notin DOMAIN states'[k]
               /\ \A q \in Requests \ {p} :
                      calls'[q].pc # "idle" => calls'[q].id # calls'[p].id
    <2>1. CASE p = r
      <3>1. calls'[p] = call /\ \A q \in Requests \ {p} : calls'[q] = calls[q]
        BY <1>1, <2>1
      <3> QED BY <1>4, <2>1, <3>1 DEF spent
    <2>2. CASE p # r
      <3>1. calls'[p] = calls[p]
        BY <1>1, <2>2
      <3>2. /\ calls'[p].id \notin spent
            /\ \A k \in Kinds : calls'[p].id \notin DOMAIN states'[k]
        BY <1>2, <1>4, <3>1 DEF TokensApart, spent
      <3>3. ASSUME NEW q \in Requests \ {p}, calls'[q].pc # "idle"
            PROVE  calls'[q].id # calls'[p].id
        <4>1. CASE q = r
          BY <1>1, <1>4, <2>2, <3>1, <3>3, <4>1
        <4>2. CASE q # r
          BY <1>1, <1>2, <1>4, <3>1, <3>3, <4>2 DEF TokensApart
        <4> QED BY <4>1, <4>2
      <3> QED BY <3>2, <3>3
    <2> QED BY <2>1, <2>2
  <1> QED BY <1>3, <1>4 DEF TokensApart, spent

\* A handler moves on with its token, or lets go of it.
LEMMA TokensStayApart ==
    ASSUME HttpInv, NEW r \in Requests, NEW call, Goto(r, call),
           call.pc = "idle" \/ (calls[r].pc # "idle" /\ call.id = calls[r].id),
           \A k \in Kinds : DOMAIN states'[k] \subseteq DOMAIN states[k]
    PROVE  TokensApart(calls', states', SpentIn(answers))
  <1>1. call.pc # "idle" =>
            /\ call.id \notin SpentIn(answers)
            /\ \A k \in Kinds : call.id \notin DOMAIN states[k]
            /\ \A q \in Requests \ {r} : calls[q].pc # "idle" => calls[q].id # call.id
    BY DEF HttpInv, TokensApart
  <1> QED BY <1>1, TokenTaken

\* A handler puts its token elsewhere and lets go of it: into a map of states,
\* or into the history.
LEMMA TokenPut ==
    ASSUME HttpInv, NEW r \in Requests, Return(r), calls[r].pc # "idle", NEW kind,
           \A k \in Kinds : \A i \in DOMAIN states'[k] :
               i \in DOMAIN states[k] \/ (k = kind /\ i = calls[r].id),
           \A i \in SpentIn(answers') :
               i \in SpentIn(answers) \/ (kind = "spent" /\ i = calls[r].id)
    PROVE  TokensApart(calls', states', SpentIn(answers'))
  <1> DEFINE id == calls[r].id
             spent == SpentIn(answers)
             spent2 == SpentIn(answers')
  <1>1. \A q \in Requests : calls'[q] = IF q = r THEN Idle ELSE calls[q]
    BY DEF Return, Goto, HttpInv
  <1>2. TokensApart(calls, states, spent)
    BY DEF HttpInv
  <1>3. /\ id \notin spent /\ \A k \in Kinds : id \notin DOMAIN states[k]
        /\ \A q \in Requests \ {r} : calls[q].pc # "idle" => calls[q].id # id
    BY <1>2 DEF TokensApart
  <1> HIDE DEF id, spent, spent2
  <1>4. /\ \A k \in Kinds : \A i \in DOMAIN states'[k] :
               i \in DOMAIN states[k] \/ (k = kind /\ i = id)
        /\ \A i \in spent2 : i \in spent \/ (kind = "spent" /\ i = id)
    BY DEF id, spent, spent2
  <1>5. ASSUME NEW k \in Kinds, NEW l \in Kinds, k # l,
               NEW i \in DOMAIN states'[k], i \in DOMAIN states'[l]
        PROVE  FALSE
    <2>1. DOMAIN states[k] \cap DOMAIN states[l] = {}
      BY <1>2, <1>5 DEF TokensApart
    <2>2. i \in DOMAIN states[k] \/ (k = kind /\ i = id)
      BY <1>4
    <2>3. i \in DOMAIN states[l] \/ (l = kind /\ i = id)
      BY <1>4, <1>5
    <2> QED BY <1>3, <1>5, <2>1, <2>2, <2>3
  <1>6. ASSUME NEW k \in Kinds, NEW i \in DOMAIN states'[k], i \in spent2
        PROVE  FALSE
    <2>1. DOMAIN states[k] \cap spent = {} /\ k # "spent"
      BY <1>2 DEF TokensApart, Kinds
    <2> QED BY <1>3, <1>4, <1>6, <2>1
  <1>7. ASSUME NEW p \in Requests, calls'[p].pc # "idle"
        PROVE  /\ calls'[p].id \notin spent2
               /\ \A k \in Kinds : calls'[p].id \notin DOMAIN states'[k]
               /\ \A q \in Requests \ {p} :
                      calls'[q].pc # "idle" => calls'[q].id # calls'[p].id
    <2>1. p # r /\ calls'[p] = calls[p]
      BY <1>1, <1>7, IdleSound
    <2>2. /\ calls[p].id \notin spent /\ calls[p].id # id
          /\ \A k \in Kinds : calls[p].id \notin DOMAIN states[k]
      BY <1>2, <1>3, <1>7, <2>1 DEF TokensApart
    <2>3. ASSUME NEW q \in Requests \ {p}, calls'[q].pc # "idle"
          PROVE  calls'[q].id # calls'[p].id
      <3>1. q # r /\ calls'[q] = calls[q]
        BY <1>1, <2>3, IdleSound
      <3> QED BY <1>2, <1>7, <2>1, <2>3, <3>1 DEF TokensApart
    <2> QED BY <1>4, <2>1, <2>2, <2>3
  <1> QED BY <1>5, <1>6, <1>7 DEF TokensApart, spent2

\* A local step of a handler: no store changes.
LEMMA LocalStep ==
    ASSUME HttpInv, NEW r \in Requests, NEW call, Goto(r, call),
           UNCHANGED <<states, records, issued, answers>>,
           CallSound(call, records, issued),
           call.pc = "idle" \/ (calls[r].pc # "idle" /\ call.id = calls[r].id)
    PROVE  HttpInv'
  <1>1. TokensApart(calls', states', SpentIn(answers))
    BY TokensStayApart
  <1> QED BY <1>1, QuietStep DEF HttpInv

LEMMA LocalReturn ==
    ASSUME HttpInv, NEW r \in Requests, Return(r),
           UNCHANGED <<states, records, issued, answers>>
    PROVE  HttpInv'
  BY IdleSound, LocalStep DEF Return

-----------------------------------------------------------------------------
(***************************************************************************)
(* The invariant is inductive: one lemma per action.                       *)
(***************************************************************************)

LEMMA InitSound == Init => HttpInv
  <1> SUFFICES ASSUME Init PROVE HttpInv
    OBVIOUS
  <1>1. DOMAIN calls = Requests
    BY DEF Init
  <1>2. \A r \in Requests : calls[r] = Idle /\ calls[r].pc = "idle"
    BY IdleSound DEF Init
  <1>3. \A r \in Requests : CallSound(calls[r], records, issued)
    BY <1>2, IdleSound
  <1>4. RecordsSound(records)
    BY InitialRecordsAssumption DEF Init, RecordsSound
  <1>5. /\ DOMAIN states = Kinds
        /\ \A k \in Kinds : DOMAIN states[k] = {}
    BY DEF Init, NoEntries
  <1>6. StoreSound(states, issued)
    BY <1>5 DEF StoreSound
  <1>7. AnswersSound(answers, records, issued)
    BY DEF Init, AnswersSound
  <1>8. TokensApart(calls, states, SpentIn(answers))
    BY <1>2, <1>5 DEF TokensApart
  <1> QED BY <1>1, <1>3, <1>4, <1>6, <1>7, <1>8 DEF HttpInv

\* A begin handler has drawn a new token for the state it created.
LEMMA BeginSound ==
    ASSUME HttpInv, NEW r \in Requests, NEW kind \in Kinds,
           NEW id \in CeremonyIDs \ issued, NEW state, StateFor(kind, id, state),
           Goto(r, [pc |-> "save", kind |-> kind, id |-> id, state |-> state]),
           issued' = issued \cup {id}, UNCHANGED <<states, records, answers>>
    PROVE  HttpInv'
  <1> DEFINE call == [pc |-> "save", kind |-> kind, id |-> id, state |-> state]
  <1>1. Goto(r, call) /\ call.pc = "save" /\ call.kind = kind /\ call.id = id
        /\ call.state = state
    OBVIOUS
  <1> HIDE DEF call
  <1>2. CallSound(call, records, issued')
    BY <1>1 DEF CallSound, Kinds
  <1>3. StoreSound(states', issued')
    BY StoreStaysSound DEF HttpInv, StoreSound
  <1>4. TokensApart(calls', states', SpentIn(answers))
    <2>1. \A k \in Kinds : id \notin DOMAIN states[k]
      BY DEF HttpInv, StoreSound
    <2>2. id \notin SpentIn(answers)
      BY DEF HttpInv, AnswersSound, SpentIn
    <2>3. \A q \in Requests : calls[q].pc # "idle" => calls[q].id # id
      BY DEF HttpInv, CallSound
    <2> QED BY <1>1, <2>1, <2>2, <2>3, TokenTaken
  <1> QED BY <1>1, <1>2, <1>3, <1>4, QuietStep

LEMMA BeginRegistrationSound ==
    ASSUME HttpInv, NEW r \in Requests, NEW id \in CeremonyIDs, BeginRegistration(r, id)
    PROVE  HttpInv'
  <1>1. PICK state : state = RegistrationState(RP, User, CredProps, FALSE, id, now)
    OBVIOUS
  <1>2. StateFor("registration", id, state)
    BY <1>1, Zenon DEF RegistrationState, StateFor
  <1> QED BY <1>1, <1>2, BeginSound DEF BeginRegistration, Kinds

LEMMA BeginAuthenticationSound ==
    ASSUME HttpInv, NEW r \in Requests, NEW id \in CeremonyIDs,
           NEW credential \in CredentialIDs, BeginAuthentication(r, credential, id)
    PROVE  HttpInv'
  <1> DEFINE owner == records[credential].user
             state == AuthenticationState(RP, owner, {credential}, NoExtensions, id, now)
  <1>1. owner \in UserHandles
    BY DEF BeginAuthentication, HttpInv, RecordsSound, CredentialRecord
  <1> HIDE DEF owner
  <1>2. state.challenge = id /\ state.expected = owner /\ state.allow = {credential}
    BY DEF AuthenticationState
  <1> HIDE DEF state
  <1>3. StateFor("authentication", id, state)
    BY <1>1, <1>2 DEF StateFor
  <1>4. /\ id \in CeremonyIDs \ issued /\ issued' = issued \cup {id}
        /\ UNCHANGED <<states, records, answers>>
        /\ Goto(r, [pc |-> "save", kind |-> "authentication", id |-> id, state |-> state])
    BY DEF BeginAuthentication, state, owner
  <1> QED BY <1>3, <1>4, BeginSound DEF Kinds

LEMMA SaveStateSound ==
    ASSUME HttpInv, NEW r \in Requests, SaveState(r)
    PROVE  HttpInv'
  <1> DEFINE kind == calls[r].kind
             id == calls[r].id
             state == calls[r].state
             saved == With(Pruned[kind], id, state)
  <1>1. /\ calls[r].pc = "save" /\ Return(r)
        /\ states' = [Pruned EXCEPT ![kind] = saved]
        /\ UNCHANGED <<records, issued, answers>>
    BY DEF SaveState, At
  <1>2. /\ kind \in Kinds /\ StateFor(kind, id, state) /\ id \in CeremonyIDs \cap issued
    BY <1>1 DEF HttpInv, CallSound
  <1>3. \A i \in DOMAIN saved :
            \/ i \in DOMAIN Pruned[kind] /\ saved[i] = Pruned[kind][i]
            \/ i = id /\ saved[i] = state
    BY DEF With
  <1> HIDE DEF saved
  <1>4. /\ DOMAIN states' = Kinds
        /\ \A k \in Kinds : states'[k] = IF k = kind THEN saved ELSE Pruned[k]
    BY <1>1, PrunedFacts
  <1>5. StoreSound(states', issued')
    BY <1>1, <1>2, <1>3, <1>4, PrunedFacts DEF HttpInv, StoreSound
  <1>6. TokensApart(calls', states', SpentIn(answers'))
    <2>1. \A k \in Kinds : \A i \in DOMAIN states'[k] :
              i \in DOMAIN states[k] \/ (k = kind /\ i = id)
      BY <1>3, <1>4, PrunedFacts
    <2> QED BY <1>1, <2>1, TokenPut
  <1> QED BY <1>1, <1>5, <1>6, IdleSound, QuietStep DEF Return

LEMMA ConsumeStateSound ==
    ASSUME HttpInv, NEW r \in Requests, NEW kind \in Kinds, NEW id \in CeremonyIDs,
           ConsumeState(r, kind, id)
    PROVE  HttpInv'
  <1> DEFINE found == [pc |-> kind, id |-> id, state |-> states[kind][id]]
             rest == Without(Pruned[kind], {id})
  <1>1. /\ calls[r].pc = "idle"
        /\ states' = [Pruned EXCEPT ![kind] = rest]
        /\ UNCHANGED <<records, issued, answers>>
        /\ \/ Goto(r, found) /\ id \in DOMAIN Pruned[kind]
           \/ Return(r)
    BY DEF ConsumeState, At
  <1>2. \A i \in DOMAIN rest : i # id /\ i \in DOMAIN Pruned[kind] /\ rest[i] = Pruned[kind][i]
    BY DEF Without
  <1> HIDE DEF rest
  <1>3. /\ DOMAIN states' = Kinds
        /\ \A k \in Kinds : states'[k] = IF k = kind THEN rest ELSE Pruned[k]
    BY <1>1, PrunedFacts
  <1>4. \A k \in Kinds : \A i \in DOMAIN states'[k] :
            /\ i \in DOMAIN states[k] /\ states'[k][i] = states[k][i]
            /\ k = kind => i # id
    BY <1>2, <1>3, PrunedFacts
  <1>5. StoreSound(states', issued')
    <2>1. StoreSound(states, issued) /\ issued \subseteq issued'
      BY <1>1 DEF HttpInv
    <2> QED BY <1>3, <1>4, <2>1, StoreStaysSound
  <1>6. CASE Return(r)
    <2>1. TokensApart(calls', states', SpentIn(answers))
      BY <1>4, <1>6, IdleSound, TokensStayApart DEF Return
    <2> QED BY <1>1, <1>5, <1>6, <2>1, IdleSound, QuietStep DEF Return
  <1>7. CASE Goto(r, found) /\ id \in DOMAIN Pruned[kind]
    <2>1. found.pc = kind /\ found.id = id /\ found.state = states[kind][id]
      OBVIOUS
    <2> HIDE DEF found
    <2>2. id \in DOMAIN states[kind]
      BY <1>7, PrunedFacts
    <2>3. StateFor(kind, id, states[kind][id]) /\ id \in issued
      BY <2>2 DEF HttpInv, StoreSound
    <2>4. CallSound(found, records, issued')
      BY <1>1, <2>1, <2>3 DEF CallSound, Kinds
    <2>5. TokensApart(calls', states', SpentIn(answers))
      <3>1. /\ id \notin SpentIn(answers)
            /\ \A k \in Kinds : k # kind => id \notin DOMAIN states[k]
            /\ \A q \in Requests : calls[q].pc # "idle" => calls[q].id # id
        BY <2>2 DEF HttpInv, TokensApart
      <3>2. /\ \A k \in Kinds : DOMAIN states'[k] \subseteq DOMAIN states[k]
            /\ \A k \in Kinds : id \notin DOMAIN states'[k]
        BY <1>4, <3>1
      <3> QED BY <1>7, <2>1, <3>1, <3>2, TokenTaken
    <2> QED BY <1>1, <1>5, <1>7, <2>4, <2>5, QuietStep
  <1> QED BY <1>1, <1>6, <1>7

LEMMA VerifyRegistrationSound ==
    ASSUME HttpInv, NEW r \in Requests, NEW response \in Registrations,
           VerifyRegistration(r, response)
    PROVE  HttpInv'
  <1> DEFINE call == calls[r]
             record == RegisteredCredential(call.state, response)
             next == [pc |-> "insert", id |-> call.id, response |-> response,
                      record |-> record]
  <1>1. /\ call.pc = "registration"
        /\ UNCHANGED <<states, records, issued, answers>>
        /\ \/ Return(r)
           \/ Goto(r, next) /\ FinishRegistrationAccepts(RP, call.state, response, now)
    BY DEF VerifyRegistration, At
  <1>2. CASE Return(r)
    BY <1>1, <1>2, LocalReturn
  <1>3. CASE Goto(r, next) /\ FinishRegistrationAccepts(RP, call.state, response, now)
    <2>1. StateFor("registration", call.id, call.state) /\ call.id \in CeremonyIDs \cap issued
      BY <1>1 DEF HttpInv, CallSound, Kinds
    <2>2. call.state.user \in UserHandles /\ call.state.rpId \in RPIDs
      BY <2>1, HttpExampleAssumption DEF StateFor
    <2>3. record \in CredentialRecord
      <3>1. response.attestationType \in KnownAttestationType
        BY <1>3, RegistrationAccepted
      <3> QED BY <2>2, <3>1, ResponsesAssumption, RegisteredTyped
    <2> HIDE DEF record
    <2>4. next.pc = "insert" /\ next.id = call.id /\ next.record = record
      OBVIOUS
    <2> HIDE DEF next
    <2>5. CallSound(next, records, issued)
      BY <2>1, <2>3, <2>4 DEF CallSound, Kinds
    <2> QED BY <1>1, <1>3, <2>4, <2>5, LocalStep
  <1> QED BY <1>1, <1>2, <1>3

\* The answer of a handler is the first of its ceremony.
LEMMA AnswerAdded ==
    ASSUME HttpInv, NEW r \in Requests, NEW answer, calls[r].pc # "idle",
           answer.ceremony = calls[r].id, answers' = answers \cup {answer},
           issued' = issued, RecordsKept(records, records'),
           answer.kind = "authenticated" =>
               /\ Current(answer.record, records')
               /\ Verified(answer.ceremony, answer.state, answer.response, answer.record)
    PROVE  AnswersSound(answers', records', issued')
  <1>1. AnswersSound(answers, records', issued')
    BY AnswersStaySound DEF HttpInv
  <1>2. answer.ceremony \in issued'
    BY DEF HttpInv, CallSound
  <1>3. \A a \in answers : a.ceremony # answer.ceremony
    BY DEF HttpInv, TokensApart, SpentIn
  <1> QED BY <1>1, <1>2, <1>3 DEF AnswersSound

LEMMA InsertCredentialSound ==
    ASSUME HttpInv, NEW r \in Requests, InsertCredential(r)
    PROVE  HttpInv'
  <1> DEFINE call == calls[r]
             answer == [kind |-> "registered", ceremony |-> call.id,
                        record |-> call.record, response |-> call.response]
  <1>1. call.pc = "insert" /\ Return(r) /\ UNCHANGED <<states, issued>>
    BY DEF InsertCredential, At
  <1>2. CASE UNCHANGED <<records, answers>>
    BY <1>1, <1>2, LocalReturn
  <1>3. CASE /\ call.record.id \notin DOMAIN records
             /\ records' = With(records, call.record.id, call.record)
             /\ answers' = answers \cup {answer}
    <2>1. call.record \in CredentialRecord
      BY <1>1 DEF HttpInv, CallSound
    <2>2. call.record.id \in CredentialIDs
      BY <2>1 DEF CredentialRecord
    <2>3. /\ DOMAIN records' = DOMAIN records \cup {call.record.id}
          /\ records'[call.record.id] = call.record
          /\ \A c \in DOMAIN records : records'[c] = records[c]
      BY <1>3 DEF With
    <2>4. RecordsSound(records')
      BY <2>1, <2>2, <2>3 DEF HttpInv, RecordsSound
    <2>5. RecordsKept(records, records')
      BY <2>3 DEF RecordsKept
    <2>6. answer.kind = "registered" /\ answer.ceremony = call.id
      OBVIOUS
    <2> HIDE DEF answer
    <2>7. AnswersSound(answers', records', issued')
      BY <1>1, <1>3, <2>5, <2>6, AnswerAdded
    <2>8. TokensApart(calls', states', SpentIn(answers'))
      <3>1. \A i \in SpentIn(answers') :
                i \in SpentIn(answers) \/ i = call.id
        BY <1>3, <2>6 DEF SpentIn
      <3> QED BY <1>1, <3>1, TokenPut
    <2>9. StoreSound(states', issued')
      BY <1>1 DEF HttpInv
    <2> QED BY <1>1, <2>4, <2>5, <2>7, <2>8, <2>9, IdleSound, HandlerStep DEF Return
  <1> QED BY <1>2, <1>3 DEF InsertCredential

LEMMA LookupSound ==
    ASSUME HttpInv, NEW r \in Requests, NEW response \in Assertions, Lookup(r, response)
    PROVE  HttpInv'
  <1> DEFINE call == calls[r]
             record == records[response.rawId]
             next == [pc |-> "verify", id |-> call.id, state |-> call.state,
                      response |-> response, record |-> record]
  <1>1. /\ call.pc = "authentication"
        /\ UNCHANGED <<states, records, issued, answers>>
        /\ \/ Return(r)
           \/ Goto(r, next) /\ response.rawId \in DOMAIN records
    BY DEF Lookup, At
  <1>2. CASE Return(r)
    BY <1>1, <1>2, LocalReturn
  <1>3. CASE Goto(r, next) /\ response.rawId \in DOMAIN records
    <2>1. StateFor("authentication", call.id, call.state)
          /\ call.id \in CeremonyIDs \cap issued
      BY <1>1 DEF HttpInv, CallSound, Kinds
    <2>2. record \in CredentialRecord /\ record.id = response.rawId
      BY <1>3 DEF HttpInv, RecordsSound
    <2>3. /\ next.pc = "verify" /\ next.id = call.id /\ next.state = call.state
          /\ next.response = response /\ next.record = record
      OBVIOUS
    <2> HIDE DEF next
    <2>4. CallSound(next, records, issued)
      BY <1>3, <2>1, <2>2, <2>3 DEF CallSound, Current, Kinds
    <2> QED BY <1>1, <1>3, <2>3, <2>4, LocalStep
  <1> QED BY <1>1, <1>2, <1>3

\* An assertion that is accepted comes from the credential the login was begun
\* for, whose owner the state names.
LEMMA AcceptedVerified ==
    ASSUME NEW id, NEW state, NEW response, NEW record \in CredentialRecord,
           StateFor("authentication", id, state),
           FinishAuthenticationAccepts(RP, state, response, record, now)
    PROVE  Verified(id, state, response, record)
  <1>1. response.clientData.challenge = id
    BY AssertionAccepted DEF Established, StateFor
  <1>2. /\ response.signature.key = record.key
        /\ record.id = response.rawId
        /\ state.expected \in {None, record.user}
        /\ state.allow # {} => response.rawId \in state.allow
    BY AssertionAccepted
  <1>3. state.expected # None
    BY NoneAssumption DEF StateFor
  <1>4. PICK c \in CredentialIDs : state.allow = {c}
    BY DEF StateFor
  <1> QED BY <1>1, <1>2, <1>3, <1>4 DEF Verified

LEMMA VerifyAuthenticationSound ==
    ASSUME HttpInv, NEW r \in Requests, VerifyAuthentication(r)
    PROVE  HttpInv'
  <1> DEFINE call == calls[r]
             next == [call EXCEPT !.pc = "update"]
  <1>1. /\ call.pc = "verify"
        /\ UNCHANGED <<states, records, issued, answers>>
        /\ \/ Return(r)
           \/ /\ Goto(r, next)
              /\ FinishAuthenticationAccepts(RP, call.state, call.response, call.record, now)
    BY DEF VerifyAuthentication, At
  <1>2. CASE Return(r)
    BY <1>1, <1>2, LocalReturn
  <1>3. CASE /\ Goto(r, next)
             /\ FinishAuthenticationAccepts(RP, call.state, call.response, call.record, now)
    <2>1. CallSound(call, records, issued)
      BY DEF HttpInv
    <2>2. /\ StateFor("authentication", call.id, call.state)
          /\ call.id \in CeremonyIDs \cap issued
          /\ call.response \in Assertions /\ call.record \in CredentialRecord
          /\ Current(call.record, records)
      BY <1>1, <2>1 DEF CallSound
    <2>3. Verified(call.id, call.state, call.response, call.record)
      BY <1>3, <2>2, AcceptedVerified
    <2>4. /\ next.pc = "update" /\ next.id = call.id /\ next.state = call.state
          /\ next.response = call.response /\ next.record = call.record
      OBVIOUS
    <2> HIDE DEF next
    <2>5. CallSound(next, records, issued)
      BY <2>2, <2>3, <2>4 DEF CallSound, Kinds
    <2> QED BY <1>1, <1>3, <2>4, <2>5, LocalStep
  <1> QED BY <1>1, <1>2, <1>3

\* What an update that is written does to its record: under the default policy
\* a counter that shows clone risk is left as it was.
LEMMA UpdateWrites ==
    ASSUME HttpInv, NEW r \in Requests, At(r, "update"),
           NEW update, update = PlainUpdate(calls[r].record,
               calls[r].response.authData, calls[r].response.attachment,
               RP.updateOnCloneRisk),
           UpdateAdmits(update)
    PROVE  LET id == calls[r].record.id
               new == Applied(update, records[id])
           IN  /\ update.id = id /\ id \in DOMAIN records
               /\ new \in CredentialRecord /\ new.id = id
               /\ new.user = records[id].user /\ new.key = records[id].key
               /\ new.signCount >= records[id].signCount
  <1> DEFINE call == calls[r]
             id == call.record.id
             flags == call.response.authData
             record == records[id]
             seen == call.record
             attachment == call.response.attachment
             onRisk == RP.updateOnCloneRisk
             new == Applied(update, record)
  <1>1. /\ call.response \in Assertions /\ seen \in CredentialRecord
        /\ id \in DOMAIN records
    BY DEF HttpInv, CallSound, At, Current
  <1>2. update.id = id
    BY DEF PlainUpdate, CredentialUpdate
  <1>3. UpdateMatches(update, record)
    BY <1>2 DEF UpdateAdmits, ApplySucceeds
  <1>4. record \in CredentialRecord /\ record.id = id
    BY <1>1 DEF HttpInv, RecordsSound
  <1>5. FlagsTyped(flags) /\ ~onRisk
    BY <1>1, ResponsesAssumption, HttpExampleAssumption
  <1>6. update = PlainUpdate(seen, flags, attachment, onRisk)
    OBVIOUS
  <1> HIDE DEF flags, record, seen, attachment, onRisk
  <1>7. /\ new \in CredentialRecord
        /\ new.id = record.id /\ new.user = record.user /\ new.key = record.key
        /\ new.signCount = NextSignCount(seen, flags, onRisk)
        /\ record.signCount = seen.signCount
    <2>1. new = Applied(update, record)
      OBVIOUS
    <2> HIDE DEF new
    <2> QED BY <1>1, <1>3, <1>4, <1>5, <1>6, <2>1, AppliedRecord
  <1> HIDE DEF new
  <1>8. new.signCount >= record.signCount
    BY <1>1, <1>5, <1>7, NextSignCountAdvances
  <1> QED BY <1>1, <1>2, <1>4, <1>7, <1>8 DEF new, record

\* The records after an update that is written.
LEMMA UpdatedRecords ==
    ASSUME HttpInv, NEW r \in Requests, At(r, "update"),
           NEW update, update = PlainUpdate(calls[r].record,
               calls[r].response.authData, calls[r].response.attachment,
               RP.updateOnCloneRisk),
           UpdateAdmits(update),
           records' = [records EXCEPT ![update.id] = Applied(update, @)]
    PROVE  /\ RecordsSound(records') /\ RecordsKept(records, records')
           /\ \A c \in DOMAIN records : records'[c].signCount >= records[c].signCount
  <1> DEFINE id == calls[r].record.id
             new == Applied(update, records[id])
  <1>1. /\ update.id = id /\ id \in DOMAIN records
        /\ new \in CredentialRecord /\ new.id = id
        /\ new.user = records[id].user /\ new.key = records[id].key
        /\ new.signCount >= records[id].signCount
    BY UpdateWrites
  <1>2. /\ DOMAIN records' = DOMAIN records
        /\ \A c \in DOMAIN records : records'[c] = IF c = id THEN new ELSE records[c]
    BY <1>1
  <1> HIDE DEF new, id
  <1>3. RecordsSound(records')
    BY <1>1, <1>2 DEF HttpInv, RecordsSound
  <1>4. RecordsKept(records, records')
    BY <1>1, <1>2 DEF RecordsKept
  <1>5. \A c \in DOMAIN records : records[c].signCount >= records[c].signCount
    <2>1. \A c \in DOMAIN records : records[c].signCount \in SignCount
      BY DEF HttpInv, RecordsSound, CredentialRecord
    <2> QED BY <2>1, MaxSignCountAssumption, SMTT(40) DEF SignCount
  <1> QED BY <1>1, <1>2, <1>3, <1>4, <1>5

LEMMA UpdateCredentialSound ==
    ASSUME HttpInv, NEW r \in Requests, UpdateCredential(r)
    PROVE  HttpInv'
  <1> DEFINE call == calls[r]
             update == PlainUpdate(call.record, call.response.authData,
                           call.response.attachment, RP.updateOnCloneRisk)
             answer == [kind |-> "authenticated", ceremony |-> call.id,
                        state |-> call.state, record |-> call.record,
                        response |-> call.response]
  <1>1. call.pc = "update" /\ Return(r) /\ UNCHANGED <<states, issued>>
    BY DEF UpdateCredential, At
  <1>2. CASE UNCHANGED <<records, answers>>
    BY <1>1, <1>2, LocalReturn
  <1>3. CASE /\ UpdateAdmits(update)
             /\ records' = [records EXCEPT ![update.id] = Applied(update, @)]
             /\ answers' = answers \cup {answer}
    <2>1. RecordsSound(records') /\ RecordsKept(records, records')
      BY <1>1, <1>3, UpdatedRecords DEF At
    <2> HIDE DEF update
    <2>2. /\ Current(call.record, records)
          /\ Verified(call.id, call.state, call.response, call.record)
      BY <1>1 DEF HttpInv, CallSound
    <2>3. Current(call.record, records')
      BY <2>1, <2>2 DEF Current, RecordsKept
    <2>4. /\ answer.ceremony = call.id /\ answer.state = call.state
          /\ answer.record = call.record /\ answer.response = call.response
      OBVIOUS
    <2> HIDE DEF answer
    <2>5. AnswersSound(answers', records', issued')
      <3>1. /\ Current(answer.record, records')
            /\ Verified(answer.ceremony, answer.state, answer.response, answer.record)
        BY <2>2, <2>3, <2>4
      <3> QED BY <1>1, <1>3, <2>1, <2>4, <3>1, AnswerAdded
    <2>6. TokensApart(calls', states', SpentIn(answers'))
      <3>1. \A i \in SpentIn(answers') : i \in SpentIn(answers) \/ i = call.id
        BY <1>3, <2>4 DEF SpentIn
      <3> QED BY <1>1, <3>1, TokenPut
    <2>7. StoreSound(states', issued')
      BY <1>1 DEF HttpInv
    <2> QED BY <1>1, <2>1, <2>5, <2>6, <2>7, IdleSound, HandlerStep DEF Return
  <1> QED BY <1>2, <1>3 DEF UpdateCredential, PlainUpdate

LEMMA HttpInvInductive == HttpInv /\ [Next]_vars => HttpInv'
  <1> SUFFICES ASSUME HttpInv, [Next]_vars PROVE HttpInv'
    OBVIOUS
  <1>1. ASSUME NEW r \in Requests, Step(r) PROVE HttpInv'
    <2>1. CASE SaveState(r)
      BY <2>1, SaveStateSound
    <2>2. CASE \E response \in Registrations : VerifyRegistration(r, response)
      BY <2>2, VerifyRegistrationSound
    <2>3. CASE InsertCredential(r)
      BY <2>3, InsertCredentialSound
    <2>4. CASE \E response \in Assertions : Lookup(r, response)
      BY <2>4, LookupSound
    <2>5. CASE VerifyAuthentication(r)
      BY <2>5, VerifyAuthenticationSound
    <2>6. CASE UpdateCredential(r)
      BY <2>6, UpdateCredentialSound
    <2> QED BY <1>1, <2>1, <2>2, <2>3, <2>4, <2>5, <2>6 DEF Step
  <1>2. ASSUME NEW r \in Requests, NEW id \in CeremonyIDs, BeginRegistration(r, id)
        PROVE  HttpInv'
    BY <1>2, BeginRegistrationSound
  <1>3. ASSUME NEW r \in Requests, NEW id \in CeremonyIDs,
               NEW credential \in CredentialIDs, BeginAuthentication(r, credential, id)
        PROVE  HttpInv'
    BY <1>3, BeginAuthenticationSound
  <1>4. ASSUME NEW r \in Requests, NEW id \in CeremonyIDs, NEW kind \in Kinds,
               ConsumeState(r, kind, id)
        PROVE  HttpInv'
    BY <1>4, ConsumeStateSound
  <1>5. CASE Tick \/ UNCHANGED vars
    <2>1. UNCHANGED <<states, records, calls, issued, answers>>
      BY <1>5 DEF Tick, vars
    <2> QED BY <2>1 DEF HttpInv, SpentIn
  <1> QED BY <1>1, <1>2, <1>3, <1>4, <1>5 DEF Next

LEMMA HttpInvHolds == Spec => []HttpInv
  BY InitSound, HttpInvInductive, PTL DEF Spec

\* Theorem: for any number of handlers, ceremonies and credentials, an answer
\* "authenticated" rests on the credential its login was begun for, and on the
\* key and the owner that are still stored for it; no ceremony is answered
\* twice (beginAuthentication, finishAuthentication).
THEOREM HttpAnswers == Spec => []AnswersAuthentic
  <1>1. HttpInv => AnswersAuthentic
    BY DEF HttpInv, AnswersSound, AnswersAuthentic, Authenticated, Current, Verified
  <1> QED BY <1>1, HttpInvHolds, PTL

\* Theorem: however updates computed from old reads interleave, no stored
\* counter goes back and no record disappears (applyCredentialUpdate, ApplyTo,
\* under the default counter policy of the example).
THEOREM HttpCounters == Spec => CountersNeverGoBack
  <1>1. HttpInv /\ [Next]_vars =>
            [\A c \in DOMAIN records :
                 c \in DOMAIN records' /\ records'[c].signCount >= records[c].signCount]_vars
    <2> SUFFICES ASSUME HttpInv, Next, NEW c \in DOMAIN records
                 PROVE  c \in DOMAIN records'
                        /\ records'[c].signCount >= records[c].signCount
      OBVIOUS
    <2>1. records[c].signCount >= records[c].signCount
      <3>1. records[c].signCount \in SignCount
        BY DEF HttpInv, RecordsSound, CredentialRecord
      <3> QED BY <3>1, MaxSignCountAssumption DEF SignCount
    <2>2. CASE records' = records
      BY <2>1, <2>2
    <2>3. ASSUME NEW r \in Requests, InsertCredential(r)
          PROVE  c \in DOMAIN records' /\ records'[c].signCount >= records[c].signCount
      <3>1. records' = records
            \/ /\ calls[r].record.id \notin DOMAIN records
               /\ records' = With(records, calls[r].record.id, calls[r].record)
        BY <2>3 DEF InsertCredential
      <3>2. c \in DOMAIN records' /\ records'[c] = records[c]
        BY <3>1 DEF With
      <3> QED BY <2>1, <3>2
    <2>4. ASSUME NEW r \in Requests, UpdateCredential(r)
          PROVE  c \in DOMAIN records' /\ records'[c].signCount >= records[c].signCount
      <3> DEFINE update == PlainUpdate(calls[r].record, calls[r].response.authData,
                               calls[r].response.attachment, RP.updateOnCloneRisk)
      <3>1. CASE records' = records
        BY <2>1, <3>1
      <3>2. CASE /\ UpdateAdmits(update)
                 /\ records' = [records EXCEPT ![update.id] = Applied(update, @)]
        <4>1. At(r, "update")
          BY <2>4 DEF UpdateCredential
        <4>2. /\ RecordsKept(records, records')
              /\ \A d \in DOMAIN records : records'[d].signCount >= records[d].signCount
          BY <3>2, <4>1, UpdatedRecords
        <4> QED BY <4>2 DEF RecordsKept
      <3> QED BY <2>4, <3>1, <3>2 DEF UpdateCredential, PlainUpdate
    <2>5. records' = records
          \/ \E r \in Requests : InsertCredential(r) \/ UpdateCredential(r)
      BY DEF Next, Step, SaveState, VerifyRegistration, Lookup, VerifyAuthentication,
             BeginRegistration, BeginAuthentication, ConsumeState, Tick
    <2> QED BY <2>2, <2>3, <2>4, <2>5
  <1> QED BY <1>1, HttpInvHolds, PTL DEF Spec, CountersNeverGoBack
=============================================================================
