--------------------------- MODULE PasskeyService ---------------------------
(***************************************************************************)
(* What a passkey login service promises, without handlers, stores, clocks *)
(* or messages: enrolling a passkey and logging in with one are atomic,    *)
(* each spends one ceremony for ever, a login moves the passkey's counter  *)
(* forward, and a session is opened for a user only by a login or an       *)
(* enrollment of that user, once.  Sessions may end at any time.           *)
(***************************************************************************)
EXTENDS Integers

CONSTANTS
    UserHandles, CredentialIDs, Keys, MaxSignCount, CeremonyIDs, SessionIDs,
    InitialPasskeys      \* passkeys enrolled earlier: id -> [user, key, count]

VARIABLES
    passkeys,   \* credential identifier -> [user, key, count]
    spent,      \* ceremonies that have had their effect
    earned,     \* logins whose session has not been opened yet
    open        \* session identifier -> [user, ceremony]

service == <<passkeys, spent, earned, open>>

\* The counter moves forward, or the authenticator has none.
Progress(count, next) == next > count \/ (next = 0 /\ count = 0)

ServiceInit ==
    /\ passkeys = InitialPasskeys
    /\ spent = {}
    /\ earned = {}
    /\ open = [id \in {} |-> 0]

Enroll(credential, passkey, ceremony) ==
    /\ credential \notin DOMAIN passkeys
    /\ ceremony \notin spent
    /\ passkeys' = [c \in DOMAIN passkeys \cup {credential} |->
                       IF c = credential THEN passkey ELSE passkeys[c]]
    /\ spent' = spent \cup {ceremony}
    /\ earned' \in {earned, earned \cup {[user |-> passkey.user, ceremony |-> ceremony]}}
    /\ UNCHANGED open

LogIn(credential, count, ceremony) ==
    /\ credential \in DOMAIN passkeys
    /\ ceremony \notin spent
    /\ Progress(passkeys[credential].count, count)
    /\ passkeys' = [passkeys EXCEPT ![credential].count = count]
    /\ spent' = spent \cup {ceremony}
    /\ earned' = earned \cup
           {[user |-> passkeys[credential].user, ceremony |-> ceremony]}
    /\ UNCHANGED open

\* Sessions may have expired, been logged out, or made way for a new one; those
\* that remain, but for `new', are unchanged.
SomeSessionsEnd(new) ==
    \A s \in DOMAIN open' \ new : s \in DOMAIN open /\ open'[s] = open[s]

OpenSession(login, id) ==
    /\ id \in DOMAIN open' \ DOMAIN open
    /\ open'[id] = login
    /\ SomeSessionsEnd({id})
    /\ earned' = earned \ {login}
    /\ UNCHANGED <<passkeys, spent>>

\* The handler gives up between the login and its session.
Abandon(login) ==
    /\ earned' = earned \ {login}
    /\ SomeSessionsEnd({})
    /\ UNCHANGED <<passkeys, spent>>

Close ==
    /\ SomeSessionsEnd({})
    /\ UNCHANGED <<passkeys, spent, earned>>

ServiceNext ==
    \/ Close
    \/ \E credential \in CredentialIDs, ceremony \in CeremonyIDs :
           \/ \E passkey \in [user : UserHandles, key : Keys, count : 0 .. MaxSignCount] :
                  Enroll(credential, passkey, ceremony)
           \/ \E count \in 0 .. MaxSignCount : LogIn(credential, count, ceremony)
    \/ \E login \in earned :
           \/ Abandon(login)
           \/ \E id \in SessionIDs : OpenSession(login, id)

ServiceSpec == ServiceInit /\ [][ServiceNext]_service
=============================================================================
