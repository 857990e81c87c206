----------------------------- MODULE AccountRoster -----------------------------
(***************************************************************************)
(* Shared dWallets of the Move package: the M-of-N roster kept beside each *)
(* stored cap (account.move), the credentials that approve an operation    *)
(* (auth.move, assertion.move), the challenges they sign (challenges.move) *)
(* and the sign entry points the roster gates (sign.move).  Each entry     *)
(* point is one atomic transaction.  A challenge is the tuple it hashes:   *)
(* sha2_256 is taken to be injective.  Credential ids are model values, so *)
(* the length checks on keys and the scheme byte are left out.             *)
(***************************************************************************)
EXTENDS Naturals, Sequences, FiniteSets

CONSTANTS
    Wallets,         \* dWallet ids; each is stored in one wrapper, its uid
    Keys,            \* credential ids of schemes 0 to 3: a key signs
    Passkeys,        \* the ones of scheme 3
    Addrs,           \* credential ids of scheme 4: a Sui address sends
    Sponsor,         \* a transaction sender that is no credential
    Algs,            \* signature_algorithm
    Msgs,            \* a message and its hash_scheme
    MAX_CREDENTIALS,
    MaxNonce,        \* bound: operations per wallet
    MaxSigs          \* bound: signatures ever given

ASSUME RosterAssumption ==
    /\ IsFiniteSet(Keys) /\ IsFiniteSet(Addrs)
    /\ Passkeys \subseteq Keys /\ Keys \cap Addrs = {}
    /\ Algs \cap Msgs = {}
    /\ MAX_CREDENTIALS \in Nat \ {0}
    /\ MaxNonce \in Nat

VARIABLES
    stored,    \* wallets whose StoredSharedDWallet exists
    creds,     \* its credentials
    threshold, \* its threshold
    nonce,     \* its nonce
    sigs,      \* signatures the key holders have given; anyone may submit them
    log,       \* history: what was authorised on each wallet, in order
    presigns,  \* UnverifiedPresignCaps nobody has spent
    partials,  \* outstanding partial user signature caps of a wallet
    sessions,  \* sign sessions opened at the coordinator
    events     \* SignRequested events emitted

rosterVars == <<creds, threshold, nonce>>

accountVars == <<stored, creds, threshold, nonce, sigs, log, presigns, partials,
                 sessions, events>>

Creds == Keys \cup Addrs

Tags == {"add_credential", "remove_credential", "set_threshold",
         "request_sign", "request_future_sign", "complete_future_sign"}

\* The arguments a payload digest binds.
Payloads == SUBSET (Creds \cup Msgs \cup Algs \cup Nat)

Challenges == Tags \X Wallets \X Nat \X Payloads

\* challenges.move: the bytes a signature is over.
derive(tag, w, payload) == <<tag, w, nonce[w], payload>>

\* sign.move: what the payload of a sign challenge is a digest of.
sign_payload_digest(alg, m) == {alg, m}

\* What a holder can be shown to sign for w as it stands.
Signable(w) ==
    {derive("add_credential", w, {c}) : c \in Creds \ creds[w]}
        \cup {derive("remove_credential", w, {c}) : c \in creds[w]}
        \cup {derive("set_threshold", w, {t}) : t \in 1..Cardinality(creds[w])}
        \cup {derive("request_future_sign", w, {m}) : m \in Msgs}
        \cup {derive(tag, w, sign_payload_digest(a, m)) :
                tag \in {"request_sign", "complete_future_sign"},
                a \in Algs, m \in Msgs}

\* A key holder signs a challenge of today's nonce; an authenticator may do so
\* for another origin or ceremony.  The roster of the moment is history.
SignChallenge(k, w, chal, clean) ==
    /\ w \in stored /\ chal \in Signable(w)
    /\ clean \/ k \in Passkeys
    /\ Cardinality(sigs) < MaxSigs
    /\ sigs' = sigs \cup {[key |-> k, chal |-> chal, clean |-> clean,
                           roster |-> creds[w], quorum |-> threshold[w]]}
    /\ UNCHANGED <<stored, rosterVars, log, presigns, partials, sessions, events>>

-----------------------------------------------------------------------------
\* assertion.move: the client data of a passkey must name the challenge, the
\* type webauthn.get and the one expected origin.
verify_signature(s, chal) == s.chal = chal /\ s.clean

verify_one(c, w, chal, sender) ==
    /\ c \in creds[w]
    /\ c \in Keys => \E s \in sigs : s.key = c /\ verify_signature(s, chal)
    /\ c \in Addrs => c = sender

\* A vector with one signer twice is rejected, so it is the set of its signers.
verify_threshold(w, chal, signers, sender) ==
    /\ Cardinality(signers) >= threshold[w]
    /\ \A c \in signers : verify_one(c, w, chal, sender)

\* What every roster-gated entry point does first: borrow_shared and the quorum.
Authorized(w, chal, signers, sender) ==
    /\ w \in stored /\ nonce[w] < MaxNonce
    /\ verify_threshold(w, chal, signers, sender)
    /\ log' = [log EXCEPT ![w] =
                 Append(@, [chal |-> chal, roster |-> creds[w],
                            quorum |-> threshold[w]])]

BumpNonce(w) == nonce' = [nonce EXCEPT ![w] = @ + 1]

RosterOp == UNCHANGED <<stored, sigs, presigns, partials, sessions, events>>

-----------------------------------------------------------------------------
(***************************************************************************)
(* account.move                                                            *)
(***************************************************************************)
build_initial_roster(initial, t) ==
    /\ initial # {} /\ Cardinality(initial) <= MAX_CREDENTIALS
    /\ 1 <= t /\ t <= Cardinality(initial)

store_shared_dwallet_cap(w, initial, t) ==
    /\ w \notin stored
    /\ build_initial_roster(initial, t)
    /\ stored' = stored \cup {w}
    /\ creds' = [creds EXCEPT ![w] = initial]
    /\ threshold' = [threshold EXCEPT ![w] = t]
    /\ nonce' = [nonce EXCEPT ![w] = 0]

add_credential(w, c, signers, sender) ==
    /\ Cardinality(creds[w]) < MAX_CREDENTIALS
    /\ c \notin creds[w]
    /\ Authorized(w, derive("add_credential", w, {c}), signers, sender)
    /\ creds' = [creds EXCEPT ![w] = @ \cup {c}]
    /\ BumpNonce(w)
    /\ RosterOp /\ UNCHANGED threshold

\* Mutant: the last credential the threshold needs may be removed.
remove_credential_Underflow(w, c, signers, sender) ==
    /\ c \in creds[w]
    /\ Cardinality(creds[w]) >= threshold[w]
    /\ Authorized(w, derive("remove_credential", w, {c}), signers, sender)
    /\ creds' = [creds EXCEPT ![w] = @ \ {c}]
    /\ BumpNonce(w)
    /\ RosterOp /\ UNCHANGED threshold

\* The removed credential may be one of the signers.
remove_credential(w, c, signers, sender) ==
    /\ c \in creds[w]
    /\ Cardinality(creds[w]) > threshold[w]
    /\ Authorized(w, derive("remove_credential", w, {c}), signers, sender)
    /\ creds' = [creds EXCEPT ![w] = @ \ {c}]
    /\ BumpNonce(w)
    /\ RosterOp /\ UNCHANGED threshold

\* Mutant: the nonce is left alone, as only the roster's size matters to it.
set_threshold_NoBump(w, t, signers, sender) ==
    /\ 1 <= t /\ t <= Cardinality(creds[w])
    /\ Authorized(w, derive("set_threshold", w, {t}), signers, sender)
    /\ threshold' = [threshold EXCEPT ![w] = t]
    /\ RosterOp /\ UNCHANGED <<creds, nonce>>

\* The quorum is the old threshold's.
set_threshold(w, t, signers, sender) ==
    /\ 1 <= t /\ t <= Cardinality(creds[w])
    /\ Authorized(w, derive("set_threshold", w, {t}), signers, sender)
    /\ threshold' = [threshold EXCEPT ![w] = t]
    /\ BumpNonce(w)
    /\ RosterOp /\ UNCHANGED creds

\* Mutant: the challenge is verified and the nonce forgotten.
authorize_shared_and_bump_nonce_Forgets(w, chal, signers, sender) ==
    /\ Authorized(w, chal, signers, sender)
    /\ UNCHANGED rosterVars

authorize_shared_and_bump_nonce(w, chal, signers, sender) ==
    /\ Authorized(w, chal, signers, sender)
    /\ BumpNonce(w)
    /\ UNCHANGED <<creds, threshold>>

-----------------------------------------------------------------------------
(***************************************************************************)
(* sign.move, shared dWallets.                                             *)
(***************************************************************************)
\* verify_presign_cap takes the cap by value.
SpendPresign ==
    /\ presigns > 0
    /\ presigns' = presigns - 1

request_sign_shared(w, alg, m, signers, sender) ==
    /\ authorize_shared_and_bump_nonce(w,
         derive("request_sign", w, sign_payload_digest(alg, m)), signers, sender)
    /\ SpendPresign
    /\ sessions' = sessions + 1
    /\ UNCHANGED <<stored, sigs, partials, events>>

\* The presign goes into the partial cap.  The algorithm is not yet fixed.
request_future_sign(w, m, signers, sender) ==
    /\ authorize_shared_and_bump_nonce(w,
         derive("request_future_sign", w, {m}), signers, sender)
    /\ SpendPresign
    /\ partials' = [partials EXCEPT ![w][m] = @ + 1]
    /\ UNCHANGED <<stored, sigs, sessions, events>>

\* Mutant: the partial cap is taken by reference.
complete_future_sign_KeepsCap(w, alg, m, signers, sender) ==
    /\ partials[w][m] > 0
    /\ authorize_shared_and_bump_nonce(w,
         derive("complete_future_sign", w, sign_payload_digest(alg, m)),
         signers, sender)
    /\ sessions' = sessions + 1
    /\ UNCHANGED <<stored, sigs, presigns, partials, events>>

\* Any verified cap of this dWallet and message will do.
complete_future_sign(w, alg, m, signers, sender) ==
    /\ partials[w][m] > 0
    /\ authorize_shared_and_bump_nonce(w,
         derive("complete_future_sign", w, sign_payload_digest(alg, m)),
         signers, sender)
    /\ partials' = [partials EXCEPT ![w][m] = @ - 1]
    /\ sessions' = sessions + 1
    /\ UNCHANGED <<stored, sigs, presigns, events>>

SharedOp(w, signers, sender) ==
    \/ \E c \in Creds : \/ add_credential(w, c, signers, sender)
                        \/ remove_credential(w, c, signers, sender)
    \/ \E t \in 1..MAX_CREDENTIALS : set_threshold(w, t, signers, sender)
    \/ \E m \in Msgs :
         \/ request_future_sign(w, m, signers, sender)
         \/ \E a \in Algs : \/ request_sign_shared(w, a, m, signers, sender)
                            \/ complete_future_sign(w, a, m, signers, sender)
=============================================================================
