------------------------------- MODULE SdkClient -------------------------------
(***************************************************************************)
(* The client SDKs driving the backend of Onboarding and NetworkKeys: the  *)
(* onboard and sign ceremonies of MPCKit (sdk-ts/api.ts and, step for      *)
(* step, the Rust client.rs), the HTTP client, whose timeout ends with the *)
(* headers of the answer, the Ika client without one, the Web Worker       *)
(* crypto engine and the React provider that owns the worker.  The sign    *)
(* request behind prepare and submit is the one SignContract describes;    *)
(* only its status matters here.                                           *)
(***************************************************************************)
EXTENDS NetworkKeys

CONSTANTS
    Signers,     \* clients that go on to sign
    MaxTries     \* bound: calls of onboard

ASSUME SdkAssumption == MaxTries \in Nat /\ Signers \subseteq Clients

VARIABLES
    cpc,       \* client: the await it is at
    dw,        \* client: the dWallet of its ceremony
    nek,       \* client: networkInfo().latestEncryptionKey
    params,    \* MPCKit instance: protocolParametersCache, by the key it is for
    par,       \* client: the parameters its ceremony works with
    sreq,      \* client: status of the sign request of its idempotency key
    bundle,    \* the provider's worker: "live" or "gone"
    dropped,   \* clients whose worker was terminated under their MPCKit
    tries      \* calls of onboard so far

clientVars == <<cpc, dw, nek, params, par, sreq, bundle, dropped, tries>>

vars == <<backVars, keyVars, clientVars>>

Posting == {"postKey", "net", "postDkg", "postAccept", "prepare", "par"}
InEngine == {"open", "dkg", "out", "sig"}
Settled == {"idle", "onboarded", "signed", "error"}

\* The steps of the handlers that serve a client at one of its posts.
Awaited ==
    [postKey    |-> {"ekFind", "ekCharge", "ekExecute", "ekRefund", "ekInsert"},
     net        |-> {"netRead", "ppRead", "ppLoad"},
     postDkg    |-> {"find", "charge", "execute", "refund", "account", "insert"},
     postAccept |-> {"acRead", "acExecute", "acNek", "acUpdate"},
     prepare    |-> {"nekRead", "nekWrite"},
     par        |-> {"ppRead", "ppLoad"}]

ClientPCs ==
    Posting \cup InEngine \cup Settled \cup {"ika", "poll", "submit", "watch", "hung"}

TypeOK ==
    /\ BackTypeOK /\ KeysTypeOK
    /\ cpc \in [Clients -> ClientPCs]
    /\ dw \in [Clients -> DWallets \cup {None}]
    /\ nek \in [Clients -> NEKs \cup {None}]
    /\ params \in NEKs \cup {None}
    /\ par \in [Clients -> NEKs \cup {None}]
    /\ sreq \in [Clients -> {"none", "prepared", "queued", "completed", "failed"}]
    /\ bundle \in {"live", "gone"} /\ dropped \subseteq Clients
    /\ tries \in Nat

Init ==
    /\ BackInit /\ KeysInit
    /\ cpc = [c \in Clients |-> "idle"]
    /\ dw = [c \in Clients |-> None]
    /\ nek = [c \in Clients |-> None]
    /\ params = None
    /\ par = [c \in Clients |-> None]
    /\ sreq = [c \in Clients |-> "none"]
    /\ bundle = "live" /\ dropped = {}
    /\ tries = 0

CGoto(c, to) == cpc' = [cpc EXCEPT ![c] = to]

\* The ceremonies of cs throw; their locals are gone.
Throw(cs) ==
    /\ cpc' = [c \in Clients |-> IF c \in cs THEN "error" ELSE cpc[c]]
    /\ nek' = [c \in Clients |-> IF c \in cs THEN None ELSE nek[c]]
    /\ par' = [c \in Clients |-> IF c \in cs THEN None ELSE par[c]]

\* The free slot a request gets.
Slot == Fresh({h \in Handlers : pc[h] = "idle"})

-----------------------------------------------------------------------------
(***************************************************************************)
(* HTTP: one request, its answer, or the abort after timeoutMs.  A reply   *)
(* that has come is one whose headers have: the timer is cleared and       *)
(* res.text() reads the body for as long as it takes.                      *)
(***************************************************************************)
Request(c, to, a) ==
    /\ \E h \in Handlers : pc[h] = "idle"
    /\ reply[c] = NoReply /\ \A g \in Handlers : owner[g] # c
    /\ Arrive(Slot, c, to, a)
    /\ UNCHANGED <<chainVars, rowVars, ledgerVars, faults, keyVars, clientVars>>

\* The routes the ceremonies post to.
Post(c) ==
    \/ cpc[c] = "postKey" /\ Request(c, "ekFind", NoArg)
    \/ cpc[c] = "net" /\ nek[c] = None /\ Request(c, "netRead", NoArg)
    \/ cpc[c] \in {"net", "par"} /\ par[c] = None /\ Request(c, "ppRead", NoArg)
    \/ cpc[c] = "postDkg" /\ Request(c, "find",
          [NoArg EXCEPT !.nek = nek[c], !.fit = (par[c] = nek[c])])
    \/ cpc[c] = "postAccept" /\ Request(c, "acRead", [NoArg EXCEPT !.dw = dw[c]])
    \/ cpc[c] = "prepare" /\ Request(c, "nekRead", [NoArg EXCEPT !.dw = dw[c]])

TakeReply(c, res) ==
    /\ reply[c].res = res
    /\ reply' = [reply EXCEPT ![c] = NoReply]
    /\ UNCHANGED <<chainVars, rowVars, ledgerVars, faults, pc, owner, arg>>

\* A non-2xx answer throws.
HttpError(c) ==
    /\ cpc[c] \in Posting
    /\ TakeReply(c, "error")
    /\ Throw({c})
    /\ UNCHANGED <<keyVars, dw, params, sreq, bundle, dropped, tries>>

\* No headers in time: the fetch is aborted and the handler goes on without its
\* client.
HttpTimeout(c) ==
    /\ cpc[c] \in Posting /\ reply[c] = NoReply
    /\ Throw({c})
    /\ owner' = [h \in Handlers |-> IF owner[h] = c THEN None ELSE owner[h]]
    /\ UNCHANGED <<chainVars, rowVars, ledgerVars, faults, pc, arg, reply, keyVars,
                   dw, params, sreq, bundle, dropped, tries>>

\* An await with no deadline of its own that does not end: the body of an
\* answer, the first IkaClient.initialize, a read of the dWallet or of the
\* request's status.
Hang(c) ==
    /\ \/ cpc[c] \in Posting /\ reply[c] # NoReply
       \/ cpc[c] \in {"ika", "poll", "sig", "submit", "watch"}
    /\ CGoto(c, "hung")
    /\ reply' = [reply EXCEPT ![c] = NoReply]
    /\ nek' = [nek EXCEPT ![c] = None]
    /\ par' = [par EXCEPT ![c] = None]
    /\ UNCHANGED <<chainVars, rowVars, ledgerVars, faults, pc, owner, arg, keyVars,
                   dw, params, sreq, bundle, dropped, tries>>

\* The connection breaks after all.
HangBreaks(c) ==
    /\ cpc[c] = "hung"
    /\ Throw({c})
    /\ UNCHANGED <<backVars, keyVars, dw, params, sreq, bundle, dropped, tries>>

-----------------------------------------------------------------------------
(***************************************************************************)
(* The crypto engine.  A call to a worker that is gone is never answered.  *)
(***************************************************************************)
Answered(c) == c \notin dropped

EngineFails(c) ==
    /\ cpc[c] \in InEngine /\ Answered(c)
    /\ Throw({c})
    /\ UNCHANGED <<backVars, keyVars, dw, params, sreq, bundle, dropped, tries>>

\* WebWorkerCryptoEngine.onError and terminate reject every pending call.
RejectPending ==
    /\ \E c \in Clients : cpc[c] \in InEngine
    /\ Throw({c \in Clients : cpc[c] \in InEngine /\ Answered(c)})
    /\ UNCHANGED <<backVars, keyVars, dw, params, sreq, bundle, dropped, tries>>

Busy(c) == cpc[c] \notin Settled

\* MPCKitProvider: new options terminate the old worker and build a bundle; an
\* effect cleanup terminates it and keeps the memoised bundle.  Both call
\* Worker.terminate, so the engine's pending map is left as it is.
DropWorker(next) ==
    /\ Fault
    /\ bundle' = next
    /\ dropped' = dropped \cup {c \in Clients : Busy(c)}
    /\ params' = IF next = "live" THEN None ELSE params
    /\ UNCHANGED <<chainVars, rowVars, ledgerVars, pc, owner, arg, reply, keyVars,
                   cpc, dw, nek, par, sreq, tries>>

-----------------------------------------------------------------------------
(***************************************************************************)
(* MPCKit.onboard.                                                         *)
(***************************************************************************)
\* A settled client starts a ceremony on the MPCKit of the current bundle.
Begin(c, to) ==
    /\ dropped' = IF bundle = "gone" THEN dropped \cup {c} ELSE dropped \ {c}
    /\ CGoto(c, to)

OnboardStart(c) ==
    /\ cpc[c] \in {"idle", "error"} /\ sreq[c] = "none"
    /\ tries < MaxTries /\ tries' = tries + 1
    /\ Begin(c, "ika")
    /\ dw' = [dw EXCEPT ![c] = None]
    /\ UNCHANGED <<backVars, keyVars, nek, params, par, sreq, bundle>>

\* openSession, and for onboard, whose ceremony has no dWallet yet,
\* signEncryptionKey.  sign loads its Ika client after it, onboard before.
OpenSession(c) ==
    /\ cpc[c] = "open" /\ Answered(c)
    /\ CGoto(c, IF dw[c] = None THEN "postKey" ELSE "ika")
    /\ UNCHANGED <<backVars, keyVars, dw, nek, params, par, sreq, bundle, dropped, tries>>

\* ika(): the instance's client, or a new one that has read its configuration
\* from the chain.
IkaReady(c) ==
    /\ cpc[c] = "ika" /\ dw[c] = None
    /\ CGoto(c, "open")
    /\ UNCHANGED <<backVars, keyVars, dw, nek, params, par, sreq, bundle, dropped, tries>>

KeyRegistered(c) ==
    /\ cpc[c] = "postKey"
    /\ TakeReply(c, "ok")
    /\ par' = [par EXCEPT ![c] = params]
    /\ CGoto(c, "net")
    /\ UNCHANGED <<keyVars, dw, nek, params, sreq, bundle, dropped, tries>>

\* Promise.all of networkInfo, read afresh, and protocolParameters, fetched once
\* per instance: the answers arrive in either order.
NetworkAnswered(c) ==
    /\ cpc[c] \in {"net", "par"}
    /\ TakeReply(c, "ok")
    /\ nek' = [nek EXCEPT ![c] = IF reply[c].nek = None THEN @ ELSE reply[c].nek]
    /\ par' = [par EXCEPT ![c] = IF reply[c].par = None THEN @ ELSE reply[c].par]
    /\ params' = IF reply[c].par = None \/ (c \in dropped /\ bundle = "live")
                 THEN params ELSE reply[c].par
    /\ UNCHANGED <<keyVars, cpc, dw, sreq, bundle, dropped, tries>>

NetworkKnown(c) ==
    /\ par[c] # None
    /\ \/ cpc[c] = "net" /\ nek[c] # None /\ CGoto(c, "dkg")
       \/ cpc[c] = "par" /\ CGoto(c, "sig")
    /\ UNCHANGED <<backVars, keyVars, dw, nek, params, par, sreq, bundle, dropped, tries>>

\* The caller clears the instance's cache.
InvalidateParams ==
    /\ params # None /\ Fault
    /\ params' = None
    /\ UNCHANGED <<chainVars, rowVars, ledgerVars, pc, owner, arg, reply, keyVars,
                   cpc, dw, nek, par, sreq, bundle, dropped, tries>>

PrepareDKG(c) ==
    /\ cpc[c] = "dkg" /\ Answered(c)
    /\ CGoto(c, "postDkg")
    /\ UNCHANGED <<backVars, keyVars, dw, nek, params, par, sreq, bundle, dropped, tries>>

DkgPosted(c) ==
    /\ cpc[c] = "postDkg"
    /\ TakeReply(c, "ok")
    /\ dw' = [dw EXCEPT ![c] = reply[c].dw]
    /\ nek' = [nek EXCEPT ![c] = None]
    /\ par' = [par EXCEPT ![c] = None]
    /\ CGoto(c, "poll")
    /\ UNCHANGED <<keyVars, params, sreq, bundle, dropped, tries>>

\* getDWalletInParticularState, or /onchain-state.
PollSees(c) ==
    /\ cpc[c] = "poll" /\ chain[dw[c]].st = "awaiting"
    /\ CGoto(c, "out")
    /\ UNCHANGED <<backVars, keyVars, dw, nek, params, par, sreq, bundle, dropped, tries>>

\* Mutant: the wait for the DKG has no deadline.
PollTimeout_NoDeadline(c) ==
    /\ cpc[c] \in {"ika", "submit", "watch"}
    /\ Throw({c})
    /\ UNCHANGED <<backVars, keyVars, dw, params, sreq, bundle, dropped, tries>>

\* The polls of onboard and of sign give up; so does a failed read, that of
\* IkaClient.initialize too.
PollTimeout(c) ==
    /\ cpc[c] \in {"ika", "poll", "submit", "watch"}
    /\ Throw({c})
    /\ UNCHANGED <<backVars, keyVars, dw, params, sreq, bundle, dropped, tries>>

SignUserOutput(c) ==
    /\ cpc[c] = "out" /\ Answered(c)
    /\ CGoto(c, "postAccept")
    /\ UNCHANGED <<backVars, keyVars, dw, nek, params, par, sreq, bundle, dropped, tries>>

\* The only moment the caller gets userSecretKeyShareHex.
Accepted(c) ==
    /\ cpc[c] = "postAccept"
    /\ TakeReply(c, "ok")
    /\ CGoto(c, "onboarded")
    /\ UNCHANGED <<keyVars, dw, nek, params, par, sreq, bundle, dropped, tries>>

\* The route is public: a caller may post its accept again.
AcceptAgain(c) ==
    /\ cpc[c] = "error" /\ sreq[c] = "none"
    /\ dw[c] # None /\ chain[dw[c]].st \in {"awaiting", "active"}
    /\ Begin(c, "postAccept")
    /\ UNCHANGED <<backVars, keyVars, dw, nek, params, par, sreq, bundle, tries>>

-----------------------------------------------------------------------------
(***************************************************************************)
(* MPCKit.sign, with one idempotency key.                                  *)
(***************************************************************************)
SignStart(c) ==
    /\ c \in Signers
    /\ cpc[c] \in {"onboarded", "error"} /\ dw[c] # None
    /\ rows[dw[c]].st = "active"
    /\ Begin(c, "open")
    /\ UNCHANGED <<backVars, keyVars, dw, nek, params, par, sreq, bundle, tries>>

SignIkaReady(c) ==
    /\ cpc[c] = "ika" /\ dw[c] # None /\ sreq[c] = "none"
    /\ CGoto(c, "prepare")
    /\ UNCHANGED <<backVars, keyVars, dw, nek, params, par, sreq, bundle, dropped, tries>>

\* prepareSignRequest: charged, inserted and a presign allocated.
Prepared(c) ==
    /\ cpc[c] = "prepare"
    /\ TakeReply(c, "ok")
    /\ sreq' = [sreq EXCEPT ![c] = "prepared"]
    /\ par' = [par EXCEPT ![c] = params]
    /\ CGoto(c, "par")
    /\ UNCHANGED <<keyVars, dw, nek, params, bundle, dropped, tries>>

\* The same key again: the presign's bytes are read back, unless its cap is
\* spent, which is PRESIGN_CAP_GONE.
PreparedAgain(c) ==
    /\ cpc[c] = "ika" /\ sreq[c] \notin {"none", "completed"}
    /\ CGoto(c, "par")
    /\ par' = [par EXCEPT ![c] = params]
    /\ UNCHANGED <<backVars, keyVars, dw, nek, params, sreq, bundle, dropped, tries>>

PresignCapGone(c) ==
    /\ cpc[c] = "ika" /\ sreq[c] \in {"completed", "failed"}
    /\ Throw({c})
    /\ UNCHANGED <<backVars, keyVars, dw, params, sreq, bundle, dropped, tries>>

\* Reads the dWallet and its active output, then signs.
SignCentralizedMessage(c) ==
    /\ cpc[c] = "sig" /\ Answered(c)
    /\ chain[dw[c]].st = "active"
    /\ par' = [par EXCEPT ![c] = None]
    /\ CGoto(c, "submit")
    /\ UNCHANGED <<backVars, keyVars, dw, nek, params, sreq, bundle, dropped, tries>>

\* submitPreparedSign: idempotent unless the request has failed.
Submit(c) ==
    /\ cpc[c] = "submit"
    /\ sreq' = [sreq EXCEPT ![c] = IF @ = "prepared" THEN "queued" ELSE @]
    /\ CGoto(c, IF sreq[c] = "failed" THEN "error" ELSE "watch")
    /\ UNCHANGED <<backVars, keyVars, dw, nek, params, par, bundle, dropped, tries>>

\* pollUntil, poll_sign_until_terminal.
Watch(c) ==
    /\ cpc[c] = "watch" /\ sreq[c] \in {"completed", "failed"}
    /\ CGoto(c, IF sreq[c] = "completed" THEN "signed" ELSE "error")
    /\ UNCHANGED <<backVars, keyVars, dw, nek, params, par, sreq, bundle, dropped, tries>>

-----------------------------------------------------------------------------
(***************************************************************************)
(* The network and the sign worker.                                        *)
(***************************************************************************)
\* The network finalises a DKG; it refuses one computed for another key.
Finalise(d) ==
    /\ chain[d].st = "dkg"
    /\ chain' = [chain EXCEPT ![d].st = IF chain[d].fit THEN "awaiting"
                                        ELSE "rejected"]
    /\ UNCHANGED <<ekChain, acctChain, rowVars, ledgerVars, faults, pc, owner,
                   arg, reply, keyVars, clientVars>>

\* Module SignLifecycle: the job completes or fails, the sweep fails.
SignWorker(c) ==
    /\ \/ sreq[c] = "queued"
          /\ \E s \in {"completed", "failed"} : sreq' = [sreq EXCEPT ![c] = s]
       \/ sreq[c] = "prepared" /\ sreq' = [sreq EXCEPT ![c] = "failed"]
    /\ UNCHANGED <<backVars, keyVars, cpc, dw, nek, params, par, bundle, dropped, tries>>

-----------------------------------------------------------------------------
Advance(c) ==
    \/ HttpError(c) \/ IkaReady(c) \/ OpenSession(c) \/ KeyRegistered(c)
    \/ NetworkAnswered(c) \/ NetworkKnown(c)
    \/ PrepareDKG(c) \/ DkgPosted(c) \/ PollSees(c) \/ PollTimeout(c)
    \/ SignUserOutput(c) \/ Accepted(c) \/ SignIkaReady(c) \/ Prepared(c)
    \/ PreparedAgain(c) \/ PresignCapGone(c)
    \/ SignCentralizedMessage(c) \/ Submit(c) \/ Watch(c)
    \/ HttpTimeout(c) \/ EngineFails(c)

Next ==
    \/ \E c \in Clients :
         \/ Advance(c)
         \/ OnboardStart(c) \/ AcceptAgain(c) \/ SignStart(c)
         \/ SignWorker(c) \/ Post(c)
         \/ Hang(c) \/ HangBreaks(c)
    \/ \E h \in Handlers : (Step(h) \/ Crash(h)) /\ UNCHANGED <<keyVars, clientVars>>
    \/ \E h \in Handlers : KeyHandler(h) /\ UNCHANGED clientVars
    \/ RejectPending
    \/ \E b \in {"live", "gone"} : DropWorker(b)
    \/ \E d \in DWallets : Finalise(d)
    \/ InvalidateParams
    \/ (Revalidate \/ Rotate) /\ UNCHANGED clientVars

\* A client's own awaits end: the HTTP client aborts a request without an answer
\* after timeoutMs, the polls have deadlines, and a live worker answers every
\* message.  Nothing ends a read that hangs.
Spec == Init /\ [][Next]_vars /\ \A c \in Clients : WF_vars(Advance(c))

-----------------------------------------------------------------------------
(***************************************************************************)
(* Properties.                                                             *)
(***************************************************************************)
\* What the rows say of a dWallet is so on chain: the account of a row is the
\* one that holds the cap, though concurrent first onboardings make several
\* accounts; an active row was accepted; a stored NEK is the dWallet's own,
\* whatever the network's key has become (dwallets/service.ts).
RowsTellTheChain ==
    \A d \in DWallets : rows[d].st # "none" =>
        /\ rows[d].acct = chain[d].acct /\ rows[d].acct \in acctRows
        /\ rows[d].st = "active" => chain[d].st = "active"
        /\ rows[d].nek \in {None, chain[d].nek}

\* chargeWithRefund: every charge kept is for a transaction that landed, a call
\* still in flight, or a counted loss; a landed one goes unpaid only when the
\* executor's answer was lost.
FeesMatchWork ==
    fees + gifts = work + losses + Cardinality({h \in Handlers : Owed(h)})

\* A ceremony ends, with its result or an error, whatever becomes of its
\* handlers, with two exceptions.  The provider dropped the worker under it: a
\* pending engine call is never answered.  Or a read without a deadline never
\* ends: the body of an answer, which http.ts awaits after it has cleared its
\* timer, or the chain behind the Ika client.
CeremonySettles ==
    \A c \in Clients : Busy(c) ~> (~Busy(c) \/ c \in dropped \/ cpc[c] = "hung")

-----------------------------------------------------------------------------
(***************************************************************************)
(* Why the three invariants hold.                                          *)
(***************************************************************************)
Made(d) == chain[d].st # "none"

\* What a handler has read and done by each of its steps.
HandlerFits(h) ==
    LET a == arg[h]
    IN /\ a.dw # None => Made(a.dw)
       /\ pc[h] \in {"ekFind", "ekCharge", "ekExecute", "find", "charge", "execute"} =>
            ~Landed(h)
       /\ pc[h] \in {"charge", "execute", "account"} => a.isNew \/ a.acct \in acctRows
       /\ pc[h] \in {"account", "insert"} =>
            a.dw # None /\ a.acct = chain[a.dw].acct /\ a.acct \in acctChain
       /\ pc[h] = "insert" => a.acct \in acctRows
       /\ pc[h] \in Awaited["postAccept"] \cup Awaited["prepare"] => a.dw # None
       /\ pc[h] \in {"acExecute", "acNek", "acUpdate"} => rows[a.dw].st # "none"
       /\ pc[h] \in {"acNek", "acUpdate"} => chain[a.dw].st = "active"
       /\ pc[h] \in {"acUpdate", "nekWrite"} => a.nek \in {None, chain[a.dw].nek}
       /\ pc[h] = "ppLoad" => a.nek \in 1..latest

\* A client waits for one answer at a time, to the request of the await it is at.
ClientFits(c) ==
    /\ dw[c] # None => Made(dw[c])
    /\ reply[c].dw # None => Made(reply[c].dw)
    /\ cpc[c] \in {"poll", "out", "postAccept", "prepare"} => dw[c] # None
    /\ \A h \in Handlers : owner[h] = c =>
         /\ cpc[c] \in Posting /\ pc[h] \in Awaited[cpc[c]] /\ reply[c] = NoReply
         /\ \A g \in Handlers : owner[g] = c => g = h
    /\ reply[c] # NoReply => cpc[c] \in Posting
    /\ cpc[c] = "postDkg" /\ reply[c].res = "ok" => reply[c].dw # None
    /\ cpc[c] \in {"net", "par"} /\ (reply[c] # NoReply \/ \E h \in Handlers : owner[h] = c) =>
         par[c] = None \/ (cpc[c] = "net" /\ nek[c] = None)

\* A landed call whose answer was lost is about to be given away.
Returning == {h \in Handlers : pc[h] \in {"ekRefund", "refund"} /\ Landed(h)}

\* No key is cached before it is the network's.
ParamsFit == \A k \in NEKs : k > latest => paramsOf[k] = None

SdkInv ==
    /\ TypeOK /\ RowsTellTheChain /\ FeesMatchWork /\ LatestParamsRight /\ ParamsFit
    /\ gifts + Cardinality(Returning) <= work
    /\ \A d \in DWallets : rows[d].st # "none" => Made(d)
    /\ \A h \in Handlers : HandlerFits(h)
    /\ \A c \in Clients : ClientFits(c)
=============================================================================
