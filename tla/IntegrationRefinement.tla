------------------------ MODULE IntegrationRefinement ------------------------
(***************************************************************************)
(* The concurrent handlers of Integration implement the atomic service of  *)
(* PasskeyService: an enrollment takes effect at Insert, a login at Update.*)
(***************************************************************************)
EXTENDS Integration

Passkey(record) ==
    [user |-> record.user, key |-> record.key, count |-> record.signCount]

\* Handlers that have written their update and not yet created the session.
Earned ==
    {[user |-> calls[r].user, ceremony |-> calls[r].id] :
        r \in {q \in Requests : At(q, "create session")}}

Service == INSTANCE PasskeyService WITH
    InitialPasskeys <- [c \in DOMAIN InitialCredentials |->
                           Passkey(InitialCredentials[c].record)],
    passkeys <- [c \in DOMAIN credentials |-> Passkey(credentials[c].record)],
    spent <- {c.ceremony : c \in commits},
    earned <- Earned,
    open <- sessions

\* Every behaviour of the handlers and stores is, through this mapping, a
\* behaviour of the atomic service: no interleaving of lookups, verifications,
\* conditional updates and cancellations enrolls, logs in or opens a session in
\* a way one indivisible operation could not (app.go, memory.go).
ImplementsService == Service!ServiceSpec
=============================================================================
