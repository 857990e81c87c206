--------------------------- MODULE SdkClientProofs ---------------------------
(***************************************************************************)
(* The rows of the backend, its charges and its cache of protocol          *)
(* parameters, for any number of clients and handlers.  SdkInv is taken    *)
(* apart into what it says of the store, of one handler, of one client,    *)
(* of the money and of the cache, so that a step need only be checked      *)
(* against the parts it touches.                                           *)
(***************************************************************************)
EXTENDS SdkClient, FiniteSetTheorems, TLAPS

ChainType == [st : {"none", "dkg", "awaiting", "rejected", "active"},
              acct : AccountObjs \cup {None}, nek : NEKs \cup {None}, fit : BOOLEAN]

RowType == [st : {"none", "awaiting_user_share", "active"},
            acct : AccountObjs \cup {None}, nek : NEKs \cup {None}]

ArgType == [dw : DWallets \cup {None}, acct : AccountObjs \cup {None}, isNew : BOOLEAN,
            ek : EkObjs \cup {None}, nek : NEKs \cup {None}, fit : BOOLEAN]

ReplyType == [res : {"none", "ok", "error"}, dw : DWallets \cup {None},
              nek : NEKs \cup {None}, par : NEKs \cup {None}]

\* The store: chain, rows and accounts.
RowFits(r, k, ar) ==
    r.st # "none" =>
        /\ k.st # "none" /\ r.acct = k.acct /\ r.acct \in ar
        /\ r.st = "active" => k.st = "active"
        /\ r.nek \in {None, k.nek}

StoreInv ==
    /\ ekChain \subseteq EkObjs /\ ekRow \in EkObjs \cup {None}
    /\ acctChain \subseteq AccountObjs /\ acctRows \subseteq acctChain
    /\ chain \in [DWallets -> ChainType] /\ rows \in [DWallets -> RowType]
    /\ \A d \in DWallets : RowFits(rows[d], chain[d], acctRows)

\* A handler at the step p with the locals a.
HasLanded(a) == a.ek # None \/ a.dw # None

HFit(p, a, ch, rw, ar, ac, lt) ==
    /\ a.dw # None => ch[a.dw].st # "none"
    /\ p \in {"ekFind", "ekCharge", "ekExecute", "find", "charge", "execute"} => ~HasLanded(a)
    /\ p \in {"charge", "execute", "account"} => a.isNew \/ a.acct \in ar
    /\ p \in {"account", "insert"} => a.dw # None /\ a.acct = ch[a.dw].acct /\ a.acct \in ac
    /\ p = "insert" => a.acct \in ar
    /\ p \in Awaited["postAccept"] \cup Awaited["prepare"] => a.dw # None
    /\ p \in {"acExecute", "acNek", "acUpdate"} => rw[a.dw].st # "none"
    /\ p \in {"acNek", "acUpdate"} => ch[a.dw].st = "active"
    /\ p \in {"acUpdate", "nekWrite"} => a.nek \in {None, ch[a.dw].nek}
    /\ p = "ppLoad" => a.nek \in 1..lt

HandlerInv ==
    /\ pc \in [Handlers -> PCs] /\ arg \in [Handlers -> ArgType]
    /\ \A h \in Handlers : HFit(pc[h], arg[h], chain, rows, acctRows, acctChain, latest)

\* Who is served by whom: o, p and q are the owners, the handlers' and the
\* clients' steps.
Serving(o, p, q) ==
    \A h \in Handlers : o[h] # None =>
        /\ q[o[h]] \in Posting /\ p[h] \in Awaited[q[o[h]]]
        /\ \A g \in Handlers : o[g] = o[h] => g = h

\* A client at the await q with the dWallet d, the keys k and m and the reply r;
\* out: a handler is at work for it.
CFit(q, d, k, m, r, out, ch) ==
    /\ d # None => ch[d].st # "none"
    /\ r.dw # None => ch[r.dw].st # "none"
    /\ q \in {"poll", "out", "postAccept", "prepare"} => d # None
    /\ out => r = NoReply
    /\ r # NoReply => q \in Posting
    /\ q = "postDkg" /\ r.res = "ok" => r.dw # None
    /\ q \in {"net", "par"} /\ (r # NoReply \/ out) => m = None \/ (q = "net" /\ k = None)

Out(c, o) == \E h \in Handlers : o[h] = c

ClientTypes ==
    /\ owner \in [Handlers -> Clients \cup {None}] /\ reply \in [Clients -> ReplyType]
    /\ cpc \in [Clients -> ClientPCs] /\ dw \in [Clients -> DWallets \cup {None}]
    /\ nek \in [Clients -> NEKs \cup {None}] /\ params \in NEKs \cup {None}
    /\ par \in [Clients -> NEKs \cup {None}]
    /\ sreq \in [Clients -> {"none", "prepared", "queued", "completed", "failed"}]
    /\ bundle \in {"live", "gone"} /\ dropped \subseteq Clients
    /\ tries \in Nat /\ faults \in Nat

ClientInv ==
    /\ ClientTypes /\ Serving(owner, pc, cpc)
    /\ \A c \in Clients : CFit(cpc[c], dw[c], nek[c], par[c], reply[c], Out(c, owner), chain)

\* The money, and the parameter cache.
OwedAt(p, a) == p \in {"ekExecute", "execute", "ekRefund", "refund"} /\ ~HasLanded(a)

ReturningAt(p, a) == p \in {"ekRefund", "refund"} /\ HasLanded(a)

Owing == {h \in Handlers : OwedAt(pc[h], arg[h])}

MoneyInv ==
    /\ fees \in Nat /\ work \in Nat /\ gifts \in Nat /\ losses \in Nat
    /\ fees + gifts = work + losses + Cardinality(Owing)
    /\ gifts + Cardinality(Returning) <= work

KeysInv == KeysTypeOK /\ LatestParamsRight /\ ParamsFit

LEMMA AwaitedFacts ==
  /\ Awaited["postKey"] = {"ekFind", "ekCharge", "ekExecute", "ekRefund", "ekInsert"}
  /\ Awaited["net"] = {"netRead", "ppRead", "ppLoad"}
  /\ Awaited["postDkg"] = {"find", "charge", "execute", "refund", "account", "insert"}
  /\ Awaited["postAccept"] = {"acRead", "acExecute", "acNek", "acUpdate"}
  /\ Awaited["prepare"] = {"nekRead", "nekWrite"}
  /\ Awaited["par"] = {"ppRead", "ppLoad"}
  BY DEF Awaited

LEMMA PostingFacts ==
  /\ \A q \in Posting : q \in {"postKey", "net", "postDkg", "postAccept", "prepare", "par"}
  /\ None \notin Clients /\ None \notin DWallets
  BY OnboardingAssumption DEF Posting

LEMMA OwingFacts ==
  /\ Owing = {h \in Handlers : Owed(h)}
  /\ Returning = {h \in Handlers : ReturningAt(pc[h], arg[h])}
  BY DEF Owing, Owed, OwedAt, Landed, HasLanded, Returning, ReturningAt

\* SdkInv is its five parts.
LEMMA HandlersAreLocal ==
  ASSUME NEW h \in Handlers
  PROVE  HandlerFits(h) <=> HFit(pc[h], arg[h], chain, rows, acctRows, acctChain, latest)
  BY Zenon DEF HandlerFits, HFit, Landed, HasLanded, Made

LEMMA ClientsAreLocal ==
  ASSUME ClientTypes
  PROVE  (\A c \in Clients : ClientFits(c)) <=>
           /\ Serving(owner, pc, cpc)
           /\ \A c \in Clients :
                CFit(cpc[c], dw[c], nek[c], par[c], reply[c], Out(c, owner), chain)
  <1>1. ASSUME NEW c \in Clients, ClientFits(c)
        PROVE  CFit(cpc[c], dw[c], nek[c], par[c], reply[c], Out(c, owner), chain)
    BY <1>1 DEF ClientFits, CFit, Out, Made
  <1>2. ASSUME \A c \in Clients : ClientFits(c)
        PROVE  Serving(owner, pc, cpc)
    <2>1. SUFFICES ASSUME NEW h \in Handlers, owner[h] # None
                   PROVE  /\ cpc[owner[h]] \in Posting /\ pc[h] \in Awaited[cpc[owner[h]]]
                          /\ \A g \in Handlers : owner[g] = owner[h] => g = h
      BY Zenon DEF Serving
    <2>2. owner[h] \in Clients
      BY <2>1 DEF ClientTypes
    <2>3. ClientFits(owner[h])
      BY <1>2, <2>2
    <2>. QED BY <2>1, <2>3, Zenon DEF ClientFits
  <1>3. ASSUME NEW c \in Clients, Serving(owner, pc, cpc),
               CFit(cpc[c], dw[c], nek[c], par[c], reply[c], Out(c, owner), chain)
        PROVE  ClientFits(c)
    <2>1. c # None
      BY PostingFacts
    <2>2. ASSUME NEW h \in Handlers, owner[h] = c
          PROVE  /\ cpc[c] \in Posting /\ pc[h] \in Awaited[cpc[c]] /\ reply[c] = NoReply
                 /\ \A g \in Handlers : owner[g] = c => g = h
      <3>1. owner[h] # None
        BY <2>1, <2>2
      <3>2. /\ cpc[owner[h]] \in Posting /\ pc[h] \in Awaited[cpc[owner[h]]]
            /\ \A g \in Handlers : owner[g] = owner[h] => g = h
        BY <1>3, <3>1, Zenon DEF Serving
      <3>3. reply[c] = NoReply
        BY <1>3, <2>2 DEF CFit, Out
      <3>. QED BY <2>2, <3>2, <3>3
    <2>. QED BY <1>3, <2>2 DEF ClientFits, CFit, Out, Made
  <1>. QED BY <1>1, <1>2, <1>3

LEMMA PartsOfInv ==
  /\ SdkInv <=> StoreInv /\ HandlerInv /\ ClientInv /\ MoneyInv /\ KeysInv
  /\ SdkInv' <=> StoreInv' /\ HandlerInv' /\ ClientInv' /\ MoneyInv' /\ KeysInv'
  <1>1. TypeOK <=>
          /\ ekChain \subseteq EkObjs /\ ekRow \in EkObjs \cup {None}
          /\ acctChain \subseteq AccountObjs /\ acctRows \subseteq acctChain
          /\ chain \in [DWallets -> ChainType] /\ rows \in [DWallets -> RowType]
          /\ fees \in Nat /\ work \in Nat /\ gifts \in Nat /\ losses \in Nat
          /\ pc \in [Handlers -> PCs] /\ arg \in [Handlers -> ArgType]
          /\ KeysTypeOK /\ ClientTypes
    BY Zenon DEF TypeOK, BackTypeOK, ChainType, RowType, ArgType, ReplyType, ClientTypes
  <1>2. ASSUME TypeOK
        PROVE  /\ (\A h \in Handlers : HandlerFits(h)) <=>
                    \A h \in Handlers :
                      HFit(pc[h], arg[h], chain, rows, acctRows, acctChain, latest)
               /\ (\A c \in Clients : ClientFits(c)) <=>
                    /\ Serving(owner, pc, cpc)
                    /\ \A c \in Clients :
                         CFit(cpc[c], dw[c], nek[c], par[c], reply[c], Out(c, owner), chain)
    BY <1>1, <1>2, HandlersAreLocal, ClientsAreLocal, Zenon
  <1>3. RowsTellTheChain /\ (\A d \in DWallets : rows[d].st # "none" => Made(d)) <=>
          \A d \in DWallets : RowFits(rows[d], chain[d], acctRows)
    BY DEF RowsTellTheChain, RowFits, Made
  <1>4. FeesMatchWork <=> fees + gifts = work + losses + Cardinality(Owing)
    BY OwingFacts DEF FeesMatchWork
  <1>5. SdkInv <=> StoreInv /\ HandlerInv /\ ClientInv /\ MoneyInv /\ KeysInv
    BY <1>1, <1>2, <1>3, <1>4, Zenon
       DEF SdkInv, StoreInv, HandlerInv, ClientInv, MoneyInv, KeysInv
  <1>. QED BY <1>5, PTL

-----------------------------------------------------------------------------
(***************************************************************************)
(* What no step undoes, and what that keeps of the others.                 *)
(***************************************************************************)
ChainLasts ==
    \A d \in DWallets :
        /\ chain[d].st # "none" => /\ chain'[d].st # "none" /\ chain'[d].acct = chain[d].acct
                                   /\ chain'[d].nek = chain[d].nek
        /\ chain[d].st = "active" => chain'[d].st = "active"

Lasting ==
    /\ ChainLasts
    /\ \A d \in DWallets : rows[d].st # "none" => rows'[d].st # "none"
    /\ acctRows \subseteq acctRows' /\ acctChain \subseteq acctChain'
    /\ latest \in Nat /\ latest' \in Nat /\ latest <= latest'

LEMMA StillLasting ==
  ASSUME UNCHANGED <<chain, rows, acctRows, acctChain, latest>>, latest \in Nat
  PROVE  Lasting /\ ChainLasts
  BY DEF Lasting, ChainLasts

LEMMA LatestNat ==
  ASSUME KeysInv
  PROVE  latest \in Nat
  BY DEF KeysInv, KeysTypeOK, NEKs

LEMMA HandlerLasts ==
  ASSUME NEW p, NEW a \in ArgType, Lasting,
         HFit(p, a, chain, rows, acctRows, acctChain, latest)
  PROVE  HFit(p, a, chain', rows', acctRows', acctChain', latest')
  <1>1. a.dw \in DWallets \cup {None}
    BY DEF ArgType
  <1>2. p = "ppLoad" => a.nek \in 1..latest'
    BY DEF HFit, Lasting
  <1>3. a.dw # None => a.dw \in DWallets
    BY <1>1
  <1>4. a.dw # None => chain[a.dw].st # "none"
    BY DEF HFit
  <1>5. a.dw # None => /\ chain'[a.dw].st # "none" /\ chain'[a.dw].acct = chain[a.dw].acct
                       /\ chain'[a.dw].nek = chain[a.dw].nek
                       /\ chain[a.dw].st = "active" => chain'[a.dw].st = "active"
                       /\ rows[a.dw].st # "none" => rows'[a.dw].st # "none"
    BY <1>3, <1>4 DEF Lasting, ChainLasts
  <1>6. p \in {"acExecute", "acNek", "acUpdate", "nekWrite"} => a.dw # None
    BY AwaitedFacts DEF HFit
  <1>. QED BY <1>2, <1>5, <1>6 DEF HFit, Lasting

\* Handlers that do not move.
LEMMA HandlersStand ==
  ASSUME HandlerInv, Lasting, UNCHANGED <<pc, arg>>
  PROVE  HandlerInv'
  <1>1. ASSUME NEW h \in Handlers
        PROVE  HFit(pc'[h], arg'[h], chain', rows', acctRows', acctChain', latest')
    <2>1. /\ HFit(pc[h], arg[h], chain, rows, acctRows, acctChain, latest)
          /\ arg[h] \in ArgType
      BY DEF HandlerInv
    <2>. QED BY <2>1, HandlerLasts
  <1>. QED BY <1>1 DEF HandlerInv

\* One handler moves to the step p with the locals a.
Moves(h, p, a) == pc' = [pc EXCEPT ![h] = p] /\ arg' = [arg EXCEPT ![h] = a]

LEMMA HandlerMoves ==
  ASSUME HandlerInv, NEW h \in Handlers, NEW p \in PCs, NEW a \in ArgType, Moves(h, p, a),
         Lasting, HFit(p, a, chain', rows', acctRows', acctChain', latest')
  PROVE  HandlerInv'
  <1>1. pc' \in [Handlers -> PCs] /\ arg' \in [Handlers -> ArgType]
    BY DEF HandlerInv, Moves
  <1>2. ASSUME NEW g \in Handlers
        PROVE  HFit(pc'[g], arg'[g], chain', rows', acctRows', acctChain', latest')
    <2>1. /\ HFit(pc[g], arg[g], chain, rows, acctRows, acctChain, latest)
          /\ arg[g] \in ArgType /\ pc \in [Handlers -> PCs] /\ arg \in [Handlers -> ArgType]
      BY DEF HandlerInv
    <2>2. CASE g = h
      <3>1. pc'[g] = p /\ arg'[g] = a
        BY <2>1, <2>2 DEF Moves
      <3>. QED BY <3>1
    <2>3. CASE g # h
      <3>1. pc'[g] = pc[g] /\ arg'[g] = arg[g]
        BY <2>1, <2>3 DEF Moves
      <3>. QED BY <2>1, <3>1, HandlerLasts
    <2>. QED BY <2>2, <2>3
  <1>. QED BY <1>1, <1>2 DEF HandlerInv

\* A handler that has nothing to do.
LEMMA IdleFits ==
  /\ NoArg \in ArgType /\ "idle" \in PCs
  /\ HFit("idle", NoArg, chain', rows', acctRows', acctChain', latest')
  <1>1. NoArg.dw = None /\ NoArg.ek = None
    BY DEF NoArg
  <1>. QED BY <1>1, AwaitedFacts DEF HFit, NoArg, ArgType, PCs

-----------------------------------------------------------------------------
(***************************************************************************)
(* Clients.                                                                *)
(***************************************************************************)
LEMMA ClientLasts ==
  ASSUME NEW q, NEW d \in DWallets \cup {None}, NEW k, NEW m, NEW r \in ReplyType, NEW out,
         ChainLasts, CFit(q, d, k, m, r, out, chain)
  PROVE  CFit(q, d, k, m, r, out, chain')
  <1>1. r.dw \in DWallets \cup {None}
    BY DEF ReplyType
  <1>. QED BY <1>1 DEF CFit, ChainLasts

\* No client moves, nor does a handler on behalf of one.
LEMMA ClientsStand ==
  ASSUME ClientInv, ChainLasts, UNCHANGED <<owner, reply, clientVars>>, faults' \in Nat,
         Serving(owner, pc', cpc)
  PROVE  ClientInv'
  <1>1. UNCHANGED <<owner, reply, cpc, dw, nek, params, par, sreq, bundle, dropped, tries>>
    BY DEF clientVars
  <1>2. ClientTypes'
    BY <1>1 DEF ClientInv, ClientTypes
  <1>3. Serving(owner', pc', cpc')
    BY <1>1
  <1>4. ASSUME NEW c \in Clients
        PROVE  CFit(cpc'[c], dw'[c], nek'[c], par'[c], reply'[c], Out(c, owner'), chain')
    <2>1. /\ CFit(cpc[c], dw[c], nek[c], par[c], reply[c], Out(c, owner), chain)
          /\ dw[c] \in DWallets \cup {None} /\ reply[c] \in ReplyType
      BY DEF ClientInv, ClientTypes
    <2>2. CFit(cpc[c], dw[c], nek[c], par[c], reply[c], Out(c, owner), chain')
      BY <2>1, ClientLasts
    <2>. QED BY <1>1, <2>2
  <1>. QED BY <1>2, <1>3, <1>4 DEF ClientInv

\* The step p serves whatever pc[h] serves.
SameService(h, p) == \A q \in Posting : pc[h] \in Awaited[q] => p \in Awaited[q]

\* A handler goes on with its request.
LEMMA GoesOn ==
  ASSUME ClientInv, HandlerInv, ChainLasts, NEW h \in Handlers, NEW p,
         pc' = [pc EXCEPT ![h] = p], SameService(h, p),
         UNCHANGED <<owner, reply, clientVars>>, faults' \in Nat
  PROVE  ClientInv'
  <1>1. Serving(owner, pc', cpc)
    <2>1. SUFFICES ASSUME NEW g \in Handlers, owner[g] # None
                   PROVE  /\ cpc[owner[g]] \in Posting /\ pc'[g] \in Awaited[cpc[owner[g]]]
                          /\ \A f \in Handlers : owner[f] = owner[g] => f = g
      BY Zenon DEF Serving
    <2>2. /\ cpc[owner[g]] \in Posting /\ pc[g] \in Awaited[cpc[owner[g]]]
          /\ \A f \in Handlers : owner[f] = owner[g] => f = g
      BY <2>1, Zenon DEF ClientInv, Serving
    <2>3. pc'[g] \in {pc[g], p} /\ (pc'[g] # pc[g] => g = h)
      BY DEF HandlerInv
    <2>4. pc'[g] \in Awaited[cpc[owner[g]]]
      BY <2>2, <2>3 DEF SameService
    <2>. QED BY <2>2, <2>4
  <1>. QED BY <1>1, ClientsStand

\* A handler answers.
LEMMA Answers ==
  ASSUME ClientInv, HandlerInv, ChainLasts, NEW h \in Handlers, NEW ans \in ReplyType,
         Answer(h, ans), UNCHANGED clientVars, faults' \in Nat,
         ans # NoReply, ans.dw # None => chain'[ans.dw].st # "none",
         pc[h] \in Awaited["postDkg"] /\ ans.res = "ok" => ans.dw # None
  PROVE  ClientInv'
  <1>1. UNCHANGED <<cpc, dw, nek, params, par, sreq, bundle, dropped, tries>>
    BY DEF clientVars
  <1>2. /\ pc' = [pc EXCEPT ![h] = "idle"]
        /\ owner' = [owner EXCEPT ![h] = None]
        /\ reply' = IF owner[h] = None THEN reply ELSE [reply EXCEPT ![owner[h]] = ans]
    BY DEF Answer, Goto
  <1>3. owner \in [Handlers -> Clients \cup {None}] /\ reply \in [Clients -> ReplyType]
    BY DEF ClientInv, ClientTypes
  <1>4. owner' \in [Handlers -> Clients \cup {None}] /\ reply' \in [Clients -> ReplyType]
    BY <1>2, <1>3
  <1>5. ClientTypes'
    BY <1>1, <1>4 DEF ClientInv, ClientTypes
  <1>6. owner'[h] = None /\ \A g \in Handlers \ {h} : owner'[g] = owner[g] /\ pc'[g] = pc[g]
    BY <1>2, <1>3 DEF HandlerInv
  <1>7. Serving(owner', pc', cpc')
    <2>1. SUFFICES ASSUME NEW g \in Handlers, owner'[g] # None
                   PROVE  /\ cpc'[owner'[g]] \in Posting /\ pc'[g] \in Awaited[cpc'[owner'[g]]]
                          /\ \A f \in Handlers : owner'[f] = owner'[g] => f = g
      BY Zenon DEF Serving
    <2>2. g # h /\ owner'[g] = owner[g] /\ pc'[g] = pc[g]
      BY <1>6, <2>1
    <2>3. /\ cpc[owner[g]] \in Posting /\ pc[g] \in Awaited[cpc[owner[g]]]
          /\ \A f \in Handlers : owner[f] = owner[g] => f = g
      BY <2>1, <2>2, Zenon DEF ClientInv, Serving
    <2>4. ASSUME NEW f \in Handlers, owner'[f] = owner'[g]
          PROVE  f = g
      <3>1. f # h
        BY <1>6, <2>1, <2>4
      <3>. QED BY <1>6, <2>2, <2>3, <2>4, <3>1
    <2>. QED BY <1>1, <2>2, <2>3, <2>4
  <1>8. ASSUME NEW c \in Clients
        PROVE  CFit(cpc'[c], dw'[c], nek'[c], par'[c], reply'[c], Out(c, owner'), chain')
    <2>1. /\ CFit(cpc[c], dw[c], nek[c], par[c], reply[c], Out(c, owner), chain)
          /\ dw[c] \in DWallets \cup {None} /\ reply[c] \in ReplyType /\ c # None
      BY PostingFacts DEF ClientInv, ClientTypes
    <2>2. CFit(cpc[c], dw[c], nek[c], par[c], reply[c], Out(c, owner), chain')
      BY <2>1, ClientLasts
    <2>3. CASE owner[h] = c
      <3>1. /\ cpc[c] \in Posting /\ pc[h] \in Awaited[cpc[c]]
            /\ \A g \in Handlers : owner[g] = c => g = h
        BY <2>1, <2>3, Zenon DEF ClientInv, Serving
      <3>2. ~Out(c, owner') /\ Out(c, owner)
        BY <1>6, <2>1, <2>3, <3>1 DEF Out
      <3>3. reply'[c] = ans
        BY <1>2, <1>3, <2>1, <2>3
      <3>4. cpc[c] = "postDkg" /\ ans.res = "ok" => ans.dw # None
        BY <3>1
      <3>5. CFit(cpc[c], dw[c], nek[c], par[c], ans, FALSE, chain')
        BY <2>2, <3>1, <3>2, <3>4 DEF CFit
      <3>6. Out(c, owner') = FALSE
        BY <3>2 DEF Out
      <3>. QED BY <1>1, <3>3, <3>5, <3>6
    <2>4. CASE owner[h] # c
      <3>1. reply'[c] = reply[c]
        BY <1>2, <1>3, <2>4
      <3>2. Out(c, owner') = Out(c, owner)
        BY <1>6, <2>1, <2>4 DEF Out
      <3>. QED BY <1>1, <2>2, <3>1, <3>2
    <2>. QED BY <2>3, <2>4
  <1>. QED BY <1>5, <1>7, <1>8 DEF ClientInv

\* The answer Finish gives.
LEMMA FinishAnswers ==
  ASSUME ClientInv, HandlerInv, ChainLasts, NEW h \in Handlers, NEW res \in {"ok", "error"},
         Finish(h, res), UNCHANGED clientVars, faults' \in Nat,
         pc[h] \in Awaited["postDkg"] /\ res = "ok" => arg[h].dw # None
  PROVE  ClientInv' /\ Moves(h, "idle", NoArg)
  <1>. DEFINE ans == [NoReply EXCEPT !.res = res, !.dw = arg[h].dw]
  <1>1. arg[h] \in ArgType /\ HFit(pc[h], arg[h], chain, rows, acctRows, acctChain, latest)
    BY DEF HandlerInv
  <1>2. arg[h].dw \in DWallets \cup {None}
    BY <1>1 DEF ArgType
  <1>3. ans \in ReplyType /\ ans.dw = arg[h].dw /\ ans.res = res
    BY <1>2 DEF NoReply, ReplyType
  <1>4. ans # NoReply
    BY <1>3 DEF NoReply
  <1>5. Answer(h, ans)
    BY DEF Finish
  <1>. HIDE DEF ans
  <1>6. ans.dw # None => chain'[ans.dw].st # "none"
    BY <1>1, <1>2, <1>3 DEF HFit, ChainLasts
  <1>7. ClientInv'
    BY <1>3, <1>4, <1>5, <1>6, Answers
  <1>. QED BY <1>5, <1>7 DEF Answer, Goto, Moves

-----------------------------------------------------------------------------
(***************************************************************************)
(* The money.                                                              *)
(***************************************************************************)
Bit(b) == IF b THEN 1 ELSE 0

LEMMA CardMoves ==
  ASSUME NEW S, IsFiniteSet(S), NEW T, NEW h, \A x : x # h => (x \in S <=> x \in T)
  PROVE  /\ IsFiniteSet(T) /\ Cardinality(S) \in Nat /\ Cardinality(T) \in Nat
         /\ Cardinality(T) + Bit(h \in S) = Cardinality(S) + Bit(h \in T)
         /\ Bit(h \in S) <= Cardinality(S)
  <1>1. CASE h \in S /\ h \in T
    <2>1. S = T
      BY <1>1
    <2>2. Cardinality(S) \in Nat /\ Cardinality(S) # 0
      BY <1>1, FS_CardinalityType, FS_EmptySet
    <2>. QED BY <1>1, <2>1, <2>2 DEF Bit
  <1>2. CASE h \in S /\ h \notin T
    <2>1. T = S \ {h}
      BY <1>2
    <2>2. Cardinality(S) \in Nat /\ IsFiniteSet(T) /\ Cardinality(T) = Cardinality(S) - 1
      BY <1>2, <2>1, FS_CardinalityType, FS_RemoveElement
    <2>3. Cardinality(T) \in Nat
      BY <2>2, FS_CardinalityType
    <2>. QED BY <1>2, <2>2, <2>3 DEF Bit
  <1>3. CASE h \notin S /\ h \in T
    <2>1. T = S \cup {h}
      BY <1>3
    <2>2. Cardinality(S) \in Nat /\ IsFiniteSet(T) /\ Cardinality(T) = Cardinality(S) + 1
      BY <1>3, <2>1, FS_CardinalityType, FS_AddElement
    <2>. QED BY <1>3, <2>2 DEF Bit
  <1>4. CASE h \notin S /\ h \notin T
    <2>1. S = T
      BY <1>4
    <2>. QED BY <1>4, <2>1, FS_CardinalityType DEF Bit
  <1>. QED BY <1>1, <1>2, <1>3, <1>4

\* How a handler's move changes the two counts.
LEMMA CountsMove ==
  ASSUME HandlerInv, NEW h \in Handlers, NEW p \in PCs, NEW a \in ArgType, Moves(h, p, a)
  PROVE  /\ Cardinality(Owing) \in Nat /\ Cardinality(Owing') \in Nat
         /\ Cardinality(Returning) \in Nat /\ Cardinality(Returning') \in Nat
         /\ Cardinality(Owing') + Bit(OwedAt(pc[h], arg[h])) = Cardinality(Owing) + Bit(OwedAt(p, a))
         /\ Cardinality(Returning') + Bit(ReturningAt(pc[h], arg[h]))
              = Cardinality(Returning) + Bit(ReturningAt(p, a))
         /\ Bit(OwedAt(pc[h], arg[h])) <= Cardinality(Owing)
         /\ Bit(ReturningAt(pc[h], arg[h])) <= Cardinality(Returning)
  <1>1. /\ pc \in [Handlers -> PCs] /\ arg \in [Handlers -> ArgType]
        /\ pc'[h] = p /\ arg'[h] = a
        /\ \A g \in Handlers \ {h} : pc'[g] = pc[g] /\ arg'[g] = arg[g]
    BY DEF HandlerInv, Moves
  <1>2. /\ Owing = {g \in Handlers : OwedAt(pc[g], arg[g])}
        /\ Owing' = {g \in Handlers : OwedAt(pc'[g], arg'[g])}
        /\ Returning = {g \in Handlers : ReturningAt(pc[g], arg[g])}
        /\ Returning' = {g \in Handlers : ReturningAt(pc'[g], arg'[g])}
    <2>1. Returning' = {g \in Handlers : ReturningAt(pc'[g], arg'[g])}
      BY DEF Returning, ReturningAt, Landed, HasLanded
    <2>. QED BY <2>1, OwingFacts DEF Owing
  <1>3. IsFiniteSet(Owing) /\ IsFiniteSet(Returning)
    BY <1>2, OnboardingAssumption, FS_Subset
  <1>4. (\A x : x # h => (x \in Owing <=> x \in Owing'))
        /\ (h \in Owing <=> OwedAt(pc[h], arg[h])) /\ (h \in Owing' <=> OwedAt(p, a))
    BY <1>1, <1>2, Zenon
  <1>5. (\A x : x # h => (x \in Returning <=> x \in Returning'))
        /\ (h \in Returning <=> ReturningAt(pc[h], arg[h]))
        /\ (h \in Returning' <=> ReturningAt(p, a))
    BY <1>1, <1>2, Zenon
  <1>6. /\ Bit(h \in Owing) = Bit(OwedAt(pc[h], arg[h])) /\ Bit(h \in Owing') = Bit(OwedAt(p, a))
        /\ Bit(h \in Returning) = Bit(ReturningAt(pc[h], arg[h]))
        /\ Bit(h \in Returning') = Bit(ReturningAt(p, a))
    BY <1>4, <1>5 DEF Bit
  <1>7. /\ Cardinality(Owing) \in Nat /\ Cardinality(Owing') \in Nat
        /\ Cardinality(Owing') + Bit(h \in Owing) = Cardinality(Owing) + Bit(h \in Owing')
        /\ Bit(h \in Owing) <= Cardinality(Owing)
    BY <1>3, <1>4, CardMoves
  <1>8. /\ Cardinality(Returning) \in Nat /\ Cardinality(Returning') \in Nat
        /\ Cardinality(Returning') + Bit(h \in Returning) = Cardinality(Returning) + Bit(h \in Returning')
        /\ Bit(h \in Returning) <= Cardinality(Returning)
    BY <1>3, <1>5, CardMoves
  <1>. QED BY <1>6, <1>7, <1>8

\* Nothing is charged, landed or refunded: what is owed stays owed.
LEMMA MoneyStands ==
  ASSUME HandlerInv, MoneyInv, NEW h \in Handlers, NEW p \in PCs, NEW a \in ArgType,
         Moves(h, p, a), UNCHANGED ledgerVars,
         OwedAt(pc[h], arg[h]) <=> OwedAt(p, a),
         ReturningAt(p, a) => ReturningAt(pc[h], arg[h])
  PROVE  MoneyInv'
  <1>1. UNCHANGED <<fees, work, gifts, losses>>
    BY DEF ledgerVars
  <1>2. Bit(OwedAt(p, a)) = Bit(OwedAt(pc[h], arg[h]))
        /\ Bit(OwedAt(p, a)) \in {0, 1}
        /\ Bit(ReturningAt(p, a)) <= Bit(ReturningAt(pc[h], arg[h]))
        /\ Bit(ReturningAt(p, a)) \in {0, 1} /\ Bit(ReturningAt(pc[h], arg[h])) \in {0, 1}
    BY DEF Bit
  <1>. QED BY <1>1, <1>2, CountsMove DEF MoneyInv

LEMMA MoneySame ==
  ASSUME MoneyInv, UNCHANGED <<ledgerVars, pc, arg>>
  PROVE  MoneyInv'
  BY DEF MoneyInv, ledgerVars, Owing, Returning, Landed

-----------------------------------------------------------------------------
(***************************************************************************)
(* The steps of the handlers.                                              *)
(***************************************************************************)
LEMMA HandlerFacts ==
  ASSUME SdkInv, NEW h \in Handlers
  PROVE  /\ StoreInv /\ HandlerInv /\ ClientInv /\ MoneyInv /\ KeysInv
         /\ pc[h] \in PCs /\ arg[h] \in ArgType /\ faults \in Nat /\ latest \in Nat
         /\ HFit(pc[h], arg[h], chain, rows, acctRows, acctChain, latest)
         /\ arg' = arg => arg' = [arg EXCEPT ![h] = arg[h]]
  <1>1. StoreInv /\ HandlerInv /\ ClientInv /\ MoneyInv /\ KeysInv
    BY PartsOfInv
  <1>2. arg \in [Handlers -> ArgType] /\ pc \in [Handlers -> PCs]
    BY <1>1 DEF HandlerInv
  <1>3. faults \in Nat
    BY <1>1 DEF ClientInv, ClientTypes
  <1>. QED BY <1>1, <1>2, <1>3, LatestNat DEF HandlerInv

LEMMA StoreSame ==
  ASSUME StoreInv, UNCHANGED <<chainVars, rowVars>>
  PROVE  StoreInv'
  BY DEF StoreInv, chainVars, rowVars

LEMMA KeysSame ==
  ASSUME KeysInv, UNCHANGED keyVars
  PROVE  KeysInv'
  BY DEF KeysInv, keyVars, KeysTypeOK, LatestParamsRight, ParamsFit

LEMMA PlaceLasts ==
  ASSUME KeysInv, UNCHANGED <<chainVars, rowVars, latest>>
  PROVE  Lasting /\ ChainLasts
  BY LatestNat, StillLasting DEF chainVars, rowVars

\* A handler that reads, and goes on to the step p with the locals a.
LEMMA GoesOnReading ==
  ASSUME SdkInv, NEW h \in Handlers, NEW p \in PCs, NEW a \in ArgType, Moves(h, p, a),
         UNCHANGED <<chainVars, rowVars, ledgerVars, faults, owner, reply, keyVars, clientVars>>,
         SameService(h, p), HFit(p, a, chain, rows, acctRows, acctChain, latest),
         OwedAt(pc[h], arg[h]) <=> OwedAt(p, a),
         ReturningAt(p, a) => ReturningAt(pc[h], arg[h])
  PROVE  SdkInv'
  <1>1. StoreInv /\ HandlerInv /\ ClientInv /\ MoneyInv /\ KeysInv /\ faults \in Nat
    BY HandlerFacts
  <1>2. UNCHANGED <<chain, rows, acctRows, acctChain, latest>>
    BY DEF chainVars, rowVars, keyVars
  <1>3. Lasting /\ ChainLasts
    BY <1>1, <1>2, PlaceLasts
  <1>4. HFit(p, a, chain', rows', acctRows', acctChain', latest')
    BY <1>2
  <1>5. HandlerInv'
    BY <1>1, <1>3, <1>4, HandlerMoves
  <1>6. ClientInv'
    BY <1>1, <1>3, GoesOn DEF Moves
  <1>7. MoneyInv'
    BY <1>1, MoneyStands
  <1>. QED BY <1>1, <1>5, <1>6, <1>7, StoreSame, KeysSame, PartsOfInv

\* A handler that ends, and that has nothing to give back.
LEMMA EndsReading ==
  ASSUME SdkInv, NEW h \in Handlers, NEW res \in {"ok", "error"}, Finish(h, res),
         UNCHANGED <<chainVars, rowVars, ledgerVars, faults, keyVars, clientVars>>,
         ~OwedAt(pc[h], arg[h]),
         pc[h] \in Awaited["postDkg"] /\ res = "ok" => arg[h].dw # None
  PROVE  SdkInv'
  <1>1. StoreInv /\ HandlerInv /\ ClientInv /\ MoneyInv /\ KeysInv /\ faults' \in Nat
    BY HandlerFacts
  <1>2. Lasting /\ ChainLasts
    BY <1>1, PlaceLasts DEF keyVars
  <1>3. ClientInv' /\ Moves(h, "idle", NoArg)
    BY <1>1, <1>2, FinishAnswers
  <1>4. HandlerInv'
    BY <1>1, <1>2, <1>3, IdleFits, HandlerMoves
  <1>5. ~OwedAt("idle", NoArg) /\ ~ReturningAt("idle", NoArg)
    BY DEF OwedAt, ReturningAt
  <1>6. MoneyInv'
    BY <1>1, <1>3, <1>5, IdleFits, MoneyStands
  <1>. QED BY <1>1, <1>3, <1>4, <1>6, StoreSame, KeysSame, PartsOfInv

LEMMA EndingsKeep ==
  ASSUME SdkInv, NEW h \in Handlers, UNCHANGED <<keyVars, clientVars>>,
         \/ ChargeFails(h) \/ EkFound(h) \/ AcceptDone(h) \/ AcceptFails(h) \/ NekKnown(h)
  PROVE  SdkInv'
  <1>1. UNCHANGED <<chainVars, rowVars, ledgerVars, faults>>
    BY DEF ChargeFails, EkFound, AcceptDone, AcceptFails, NekKnown
  <1>2. PICK res \in {"ok", "error"} : Finish(h, res) /\ (pc[h] = "charge" => res = "error")
    BY DEF ChargeFails, EkFound, AcceptDone, AcceptFails, NekKnown
  <1>3. pc[h] \in {"ekCharge", "charge", "ekFind", "ekInsert", "acRead", "acExecute", "nekRead"}
    BY DEF ChargeFails, EkFound, AcceptDone, AcceptFails, NekKnown
  <1>4. ~OwedAt(pc[h], arg[h])
    BY <1>3 DEF OwedAt
  <1>. QED BY <1>1, <1>2, <1>3, <1>4, AwaitedFacts, EndsReading

LEMMA ReadingsKeep ==
  ASSUME SdkInv, NEW h \in Handlers, UNCHANGED <<keyVars, clientVars>>,
         EkFind(h) \/ EkFails(h) \/ ExecuteFails(h)
  PROVE  SdkInv'
  <1>1. /\ UNCHANGED <<chainVars, rowVars, ledgerVars, faults, owner, arg, reply>>
        /\ \/ pc[h] = "ekFind" /\ Goto(h, "ekCharge")
           \/ pc[h] = "ekExecute" /\ Goto(h, "ekRefund")
           \/ pc[h] = "execute" /\ Goto(h, "refund")
    BY DEF EkFind, EkFails, ExecuteFails, NotLanded
  <1>2. PICK p \in {"ekCharge", "ekRefund", "refund"} :
          /\ Goto(h, p)
          /\ p = "ekCharge" => pc[h] = "ekFind"
          /\ p = "ekRefund" => pc[h] = "ekExecute"
          /\ p = "refund" => pc[h] = "execute"
    BY <1>1
  <1>3. /\ arg[h] \in ArgType /\ HFit(pc[h], arg[h], chain, rows, acctRows, acctChain, latest)
        /\ Moves(h, p, arg[h]) /\ p \in PCs
    BY <1>1, <1>2, HandlerFacts DEF Moves, Goto, PCs
  <1>4. ~HasLanded(arg[h])
    BY <1>2, <1>3 DEF HFit
  <1>5. HFit(p, arg[h], chain, rows, acctRows, acctChain, latest)
    BY <1>2, <1>3, <1>4, AwaitedFacts DEF HFit
  <1>6. SameService(h, p)
    BY <1>2, AwaitedFacts, PostingFacts DEF SameService
  <1>7. /\ OwedAt(pc[h], arg[h]) <=> OwedAt(p, arg[h])
        /\ ~ReturningAt(p, arg[h])
    BY <1>2, <1>4 DEF OwedAt, ReturningAt
  <1>. QED BY <1>1, <1>3, <1>5, <1>6, <1>7, GoesOnReading

LEMMA FindKeeps ==
  ASSUME SdkInv, NEW h \in Handlers, UNCHANGED <<keyVars, clientVars>>, Find(h)
  PROVE  SdkInv'
  <1>1. /\ UNCHANGED <<chainVars, rowVars, ledgerVars, faults, owner, reply>>
        /\ pc[h] = "find" /\ Goto(h, "charge")
    BY DEF Find
  <1>2. /\ StoreInv /\ arg[h] \in ArgType /\ HFit(pc[h], arg[h], chain, rows, acctRows, acctChain, latest)
    BY HandlerFacts
  <1>3. ~HasLanded(arg[h]) /\ arg[h].dw = None /\ arg[h].ek = None
    BY <1>1, <1>2 DEF HFit, HasLanded
  <1>4. PICK a : /\ arg' = [arg EXCEPT ![h] = a] /\ a \in ArgType
                 /\ a.isNew \/ a.acct \in acctRows
                 /\ a.dw = arg[h].dw /\ a.ek = arg[h].ek
    <2>1. CASE arg' = [arg EXCEPT ![h].isNew = TRUE]
      <3>. WITNESS [arg[h] EXCEPT !.isNew = TRUE]
      <3>. QED BY <1>2, <2>1 DEF ArgType
    <2>2. ASSUME NEW x \in acctRows, arg' = [arg EXCEPT ![h].acct = x]
          PROVE  \E a : /\ arg' = [arg EXCEPT ![h] = a] /\ a \in ArgType
                        /\ a.isNew \/ a.acct \in acctRows
                        /\ a.dw = arg[h].dw /\ a.ek = arg[h].ek
      <3>1. x \in AccountObjs
        BY <1>2, <2>2 DEF StoreInv
      <3>. WITNESS [arg[h] EXCEPT !.acct = x]
      <3>. QED BY <1>2, <2>2, <3>1 DEF ArgType
    <2>. QED BY <2>1, <2>2 DEF Find
  <1>5. Moves(h, "charge", a) /\ "charge" \in PCs
    BY <1>1, <1>4 DEF Moves, Goto, PCs
  <1>6. HFit("charge", a, chain, rows, acctRows, acctChain, latest)
    BY <1>3, <1>4, AwaitedFacts DEF HFit, HasLanded
  <1>7. SameService(h, "charge")
    BY <1>1, AwaitedFacts, PostingFacts DEF SameService
  <1>8. ~OwedAt(pc[h], arg[h]) /\ ~OwedAt("charge", a) /\ ~ReturningAt("charge", a)
    BY <1>1 DEF OwedAt, ReturningAt
  <1>. QED BY <1>1, <1>4, <1>5, <1>6, <1>7, <1>8, GoesOnReading

\* The reads of accept and of ensureDwalletNek.
LEMMA LookupsKeep ==
  ASSUME SdkInv, NEW h \in Handlers, UNCHANGED <<keyVars, clientVars>>,
         AcceptRead(h) \/ AcceptNek(h) \/ NekRead(h)
  PROVE  SdkInv'
  <1>1. UNCHANGED <<chainVars, rowVars, ledgerVars, faults, owner, reply>>
    BY DEF AcceptRead, AcceptNek, NekRead
  <1>2. /\ StoreInv /\ arg[h] \in ArgType /\ HFit(pc[h], arg[h], chain, rows, acctRows, acctChain, latest)
    BY HandlerFacts
  <1>3. pc[h] \in {"acRead", "acNek", "nekRead"}
    BY DEF AcceptRead, AcceptNek, NekRead
  <1>4. arg[h].dw # None /\ arg[h].dw \in DWallets
    BY <1>2, <1>3, AwaitedFacts DEF HFit, ArgType
  <1>5. chain[arg[h].dw] \in ChainType /\ rows[arg[h].dw] \in RowType
    BY <1>2, <1>4 DEF StoreInv
  <1>6. PICK a, p : /\ arg' = [arg EXCEPT ![h] = a] /\ a \in ArgType /\ a.dw = arg[h].dw
                    /\ Goto(h, p) /\ p \in {"acExecute", "acUpdate", "nekWrite"}
                    /\ p = "acExecute" => pc[h] = "acRead" /\ rows[a.dw].st # "none"
                    /\ p = "acUpdate" => pc[h] = "acNek" /\ a.nek \in {None, chain[a.dw].nek}
                    /\ p = "nekWrite" => pc[h] = "nekRead" /\ a.nek \in {None, chain[a.dw].nek}
    <2>1. CASE AcceptRead(h)
      <3>. DEFINE a == [arg[h] EXCEPT !.acct = rows[arg[h].dw].acct]
      <3>1. a \in ArgType /\ a.dw = arg[h].dw
        BY <1>2, <1>5 DEF ArgType, RowType
      <3>2. /\ arg' = [arg EXCEPT ![h] = a] /\ Goto(h, "acExecute") /\ pc[h] = "acRead"
            /\ rows[arg[h].dw].st # "none"
        BY <2>1 DEF AcceptRead
      <3>. HIDE DEF a
      <3>. WITNESS a, "acExecute"
      <3>. QED BY <3>1, <3>2
    <2>2. CASE AcceptNek(h)
      <3>1. PICK n \in {None, chain[arg[h].dw].nek} : arg' = [arg EXCEPT ![h].nek = n]
        BY <2>2 DEF AcceptNek
      <3>. DEFINE a == [arg[h] EXCEPT !.nek = n]
      <3>2. a \in ArgType /\ a.dw = arg[h].dw /\ a.nek = n
        BY <1>2, <1>5, <3>1 DEF ArgType, ChainType
      <3>3. arg' = [arg EXCEPT ![h] = a] /\ Goto(h, "acUpdate") /\ pc[h] = "acNek"
        BY <2>2, <3>1 DEF AcceptNek
      <3>. HIDE DEF a
      <3>. WITNESS a, "acUpdate"
      <3>. QED BY <3>1, <3>2, <3>3
    <2>3. CASE NekRead(h)
      <3>. DEFINE a == [arg[h] EXCEPT !.nek = chain[arg[h].dw].nek]
      <3>1. a \in ArgType /\ a.dw = arg[h].dw /\ a.nek = chain[arg[h].dw].nek
        BY <1>2, <1>5 DEF ArgType, ChainType
      <3>2. arg' = [arg EXCEPT ![h] = a] /\ Goto(h, "nekWrite") /\ pc[h] = "nekRead"
        BY <2>3 DEF NekRead
      <3>. HIDE DEF a
      <3>. WITNESS a, "nekWrite"
      <3>. QED BY <3>1, <3>2
    <2>. QED BY <2>1, <2>2, <2>3
  <1>7. Moves(h, p, a) /\ p \in PCs
    BY <1>6 DEF Moves, Goto, PCs
  <1>8. HFit(p, a, chain, rows, acctRows, acctChain, latest)
    BY <1>2, <1>4, <1>6, AwaitedFacts DEF HFit
  <1>9. SameService(h, p)
    BY <1>6, AwaitedFacts, PostingFacts DEF SameService
  <1>10. ~OwedAt(pc[h], arg[h]) /\ ~OwedAt(p, a) /\ ~ReturningAt(p, a)
    BY <1>3, <1>6 DEF OwedAt, ReturningAt
  <1>. QED BY <1>1, <1>6, <1>7, <1>8, <1>9, <1>10, GoesOnReading

\* The charge: from here on the handler is owed a landed transaction.
LEMMA ChargedKeeps ==
  ASSUME SdkInv, NEW h \in Handlers, UNCHANGED <<keyVars, clientVars>>,
         EkCharge(h) \/ ChargeDkg(h)
  PROVE  SdkInv'
  <1>1. PICK p \in {"ekExecute", "execute"} :
          /\ Charged(h, p)
          /\ p = "ekExecute" => pc[h] = "ekCharge"
          /\ p = "execute" => pc[h] = "charge"
    BY DEF EkCharge, ChargeDkg
  <1>2. /\ StoreInv /\ HandlerInv /\ ClientInv /\ MoneyInv /\ KeysInv
        /\ arg[h] \in ArgType /\ HFit(pc[h], arg[h], chain, rows, acctRows, acctChain, latest)
        /\ faults \in Nat
    BY HandlerFacts
  <1>3. /\ fees' = fees + 1
        /\ UNCHANGED <<chainVars, rowVars, work, gifts, losses, faults, owner, arg, reply>>
    BY <1>1 DEF Charged
  <1>4. Moves(h, p, arg[h]) /\ p \in PCs
    BY <1>1, <1>3, HandlerFacts DEF Moves, Goto, PCs, Charged
  <1>5. ~HasLanded(arg[h])
    BY <1>1, <1>2 DEF HFit
  <1>6. HFit(p, arg[h], chain', rows', acctRows', acctChain', latest')
    <2>1. HFit(p, arg[h], chain, rows, acctRows, acctChain, latest)
      BY <1>1, <1>2, <1>5, AwaitedFacts DEF HFit
    <2>. QED BY <1>3, <2>1 DEF chainVars, rowVars, keyVars
  <1>7. Lasting /\ ChainLasts
    BY <1>2, <1>3, PlaceLasts DEF keyVars
  <1>8. HandlerInv'
    BY <1>2, <1>4, <1>6, <1>7, HandlerMoves
  <1>9. ClientInv'
    <2>1. SameService(h, p)
      BY <1>1, AwaitedFacts, PostingFacts DEF SameService
    <2>. QED BY <1>2, <1>3, <1>4, <1>7, <2>1, GoesOn DEF Moves
  <1>10. MoneyInv'
    <2>1. /\ Bit(OwedAt(pc[h], arg[h])) = 0 /\ Bit(OwedAt(p, arg[h])) = 1
          /\ Bit(ReturningAt(pc[h], arg[h])) = 0 /\ Bit(ReturningAt(p, arg[h])) = 0
      BY <1>1, <1>5 DEF Bit, OwedAt, ReturningAt
    <2>2. /\ Cardinality(Owing) \in Nat /\ Cardinality(Returning) \in Nat
          /\ Cardinality(Owing') \in Nat /\ Cardinality(Returning') \in Nat
          /\ Cardinality(Owing') = Cardinality(Owing) + 1
          /\ Cardinality(Returning') = Cardinality(Returning)
      BY <1>2, <1>4, <2>1, CountsMove
    <2>. QED BY <1>2, <1>3, <2>2 DEF MoneyInv
  <1>. QED BY <1>2, <1>3, <1>8, <1>9, <1>10, StoreSame, KeysSame, PartsOfInv

\* The refund: of a charge that is owed, or of one that had landed.
LEMMA RefundKeeps ==
  ASSUME SdkInv, NEW h \in Handlers, UNCHANGED <<keyVars, clientVars>>, Refund(h)
  PROVE  SdkInv'
  <1>1. /\ pc[h] \in {"ekRefund", "refund"} /\ Finish(h, "error") /\ fees' = fees - 1
        /\ gifts' = IF HasLanded(arg[h]) THEN gifts + 1 ELSE gifts
        /\ UNCHANGED <<chainVars, rowVars, work, losses, faults>>
    BY DEF Refund, Landed, HasLanded
  <1>2. StoreInv /\ HandlerInv /\ ClientInv /\ MoneyInv /\ KeysInv /\ faults' \in Nat
    BY <1>1, HandlerFacts
  <1>3. Lasting /\ ChainLasts
    BY <1>1, <1>2, PlaceLasts DEF keyVars
  <1>4. ClientInv' /\ Moves(h, "idle", NoArg)
    BY <1>1, <1>2, <1>3, FinishAnswers
  <1>5. HandlerInv'
    BY <1>2, <1>3, <1>4, IdleFits, HandlerMoves
  <1>6. MoneyInv'
    <2>1. Bit(OwedAt("idle", NoArg)) = 0 /\ Bit(ReturningAt("idle", NoArg)) = 0
      BY DEF Bit, OwedAt, ReturningAt
    <2>2. CASE HasLanded(arg[h])
      <3>1. Bit(OwedAt(pc[h], arg[h])) = 0 /\ Bit(ReturningAt(pc[h], arg[h])) = 1
        BY <1>1, <2>2 DEF Bit, OwedAt, ReturningAt
      <3>2. /\ Cardinality(Owing) \in Nat /\ Cardinality(Returning) \in Nat
            /\ Cardinality(Owing') = Cardinality(Owing)
            /\ Cardinality(Returning') = Cardinality(Returning) - 1
            /\ 1 <= Cardinality(Returning)
        BY <1>2, <1>4, <2>1, <3>1, IdleFits, CountsMove
      <3>. QED BY <1>1, <1>2, <2>2, <3>2 DEF MoneyInv
    <2>3. CASE ~HasLanded(arg[h])
      <3>1. Bit(OwedAt(pc[h], arg[h])) = 1 /\ Bit(ReturningAt(pc[h], arg[h])) = 0
        BY <1>1, <2>3 DEF Bit, OwedAt, ReturningAt
      <3>2. /\ Cardinality(Owing) \in Nat /\ Cardinality(Returning) \in Nat
            /\ Cardinality(Owing') = Cardinality(Owing) - 1
            /\ Cardinality(Returning') = Cardinality(Returning)
            /\ 1 <= Cardinality(Owing)
        BY <1>2, <1>4, <2>1, <3>1, IdleFits, CountsMove
      <3>. QED BY <1>1, <1>2, <2>3, <3>2 DEF MoneyInv
    <2>. QED BY <2>2, <2>3
  <1>. QED BY <1>1, <1>2, <1>4, <1>5, <1>6, StoreSame, KeysSame, PartsOfInv

\* A handler dies: what it was owed is a loss.
LEMMA CrashKeeps ==
  ASSUME SdkInv, NEW h \in Handlers, UNCHANGED <<keyVars, clientVars>>, Crash(h)
  PROVE  SdkInv'
  <1>1. /\ Finish(h, "error") /\ Fault
        /\ losses' = IF OwedAt(pc[h], arg[h]) THEN losses + 1 ELSE losses
        /\ UNCHANGED <<chainVars, rowVars, fees, work, gifts>>
    BY DEF Crash, Owed, OwedAt, Landed, HasLanded
  <1>2. StoreInv /\ HandlerInv /\ ClientInv /\ MoneyInv /\ KeysInv /\ faults' \in Nat
    BY <1>1, HandlerFacts DEF Fault
  <1>3. Lasting /\ ChainLasts
    BY <1>1, <1>2, PlaceLasts DEF keyVars
  <1>4. ClientInv' /\ Moves(h, "idle", NoArg)
    BY <1>1, <1>2, <1>3, FinishAnswers
  <1>5. HandlerInv'
    BY <1>2, <1>3, <1>4, IdleFits, HandlerMoves
  <1>6. MoneyInv'
    <2>1. Bit(OwedAt("idle", NoArg)) = 0 /\ Bit(ReturningAt("idle", NoArg)) = 0
      BY DEF Bit, OwedAt, ReturningAt
    <2>2. /\ Bit(ReturningAt(pc[h], arg[h])) \in {0, 1}
          /\ Bit(OwedAt(pc[h], arg[h])) \in {0, 1}
          /\ losses' = losses + Bit(OwedAt(pc[h], arg[h]))
      BY <1>1, <1>2 DEF Bit, MoneyInv
    <2>3. /\ Cardinality(Owing) \in Nat /\ Cardinality(Returning) \in Nat
          /\ Cardinality(Owing') \in Nat /\ Cardinality(Returning') \in Nat
          /\ Cardinality(Owing') + Bit(OwedAt(pc[h], arg[h])) = Cardinality(Owing)
          /\ Cardinality(Returning') <= Cardinality(Returning)
      BY <1>2, <1>4, <2>1, <2>2, IdleFits, CountsMove
    <2>. QED BY <1>1, <1>2, <2>2, <2>3 DEF MoneyInv
  <1>. QED BY <1>1, <1>2, <1>4, <1>5, <1>6, StoreSame, KeysSame, PartsOfInv

\* A paid transaction lands; its answer arrives or is lost.
LEMMA LandedMoney ==
  ASSUME HandlerInv, MoneyInv, NEW h \in Handlers, NEW p \in PCs, NEW a \in ArgType,
         Moves(h, p, a), pc[h] \in {"ekExecute", "execute"}, ~HasLanded(arg[h]), HasLanded(a),
         p \in {"ekInsert", "ekRefund", "account", "refund"},
         work' = work + 1, UNCHANGED <<fees, losses, gifts>>
  PROVE  MoneyInv'
  <1>1. /\ Bit(OwedAt(pc[h], arg[h])) = 1 /\ Bit(OwedAt(p, a)) = 0
        /\ Bit(ReturningAt(pc[h], arg[h])) = 0 /\ Bit(ReturningAt(p, a)) \in {0, 1}
    BY DEF Bit, OwedAt, ReturningAt
  <1>2. /\ Cardinality(Owing) \in Nat /\ Cardinality(Returning) \in Nat
        /\ Cardinality(Owing') = Cardinality(Owing) - 1
        /\ Cardinality(Returning') \in Nat
        /\ Cardinality(Returning') <= Cardinality(Returning) + 1
        /\ 1 <= Cardinality(Owing)
    BY <1>1, CountsMove
  <1>. QED BY <1>2 DEF MoneyInv

LEMMA FreshIsOne ==
  ASSUME NEW S, S # {}
  PROVE  Fresh(S) \in S
  BY DEF Fresh

LEMMA EkExecuteKeeps ==
  ASSUME SdkInv, NEW h \in Handlers, UNCHANGED <<keyVars, clientVars>>, EkExecute(h)
  PROVE  SdkInv'
  <1>. DEFINE e == Fresh(EkObjs \ ekChain)
              a == [arg[h] EXCEPT !.ek = e]
  <1>1. /\ pc[h] = "ekExecute" /\ e \in EkObjs \ ekChain
        /\ ekChain' = ekChain \cup {e} /\ arg' = [arg EXCEPT ![h] = a] /\ work' = work + 1
        /\ UNCHANGED <<acctChain, chain, rowVars, fees, losses, gifts, owner, reply>>
    BY FreshIsOne DEF EkExecute
  <1>2. PICK p \in {"ekInsert", "ekRefund"} : Goto(h, p) /\ (Fault \/ UNCHANGED faults)
    BY DEF EkExecute
  <1>3. /\ StoreInv /\ HandlerInv /\ ClientInv /\ MoneyInv /\ KeysInv /\ faults \in Nat
        /\ arg[h] \in ArgType /\ HFit(pc[h], arg[h], chain, rows, acctRows, acctChain, latest)
        /\ latest \in Nat
    BY HandlerFacts
  <1>4. ~HasLanded(arg[h])
    BY <1>1, <1>3 DEF HFit
  <1>5. e # None
    BY <1>1, OnboardingAssumption
  <1>. HIDE DEF e
  <1>6. a \in ArgType /\ a.dw = None /\ HasLanded(a)
    BY <1>1, <1>3, <1>4, <1>5 DEF ArgType, HasLanded
  <1>. HIDE DEF a
  <1>7. Moves(h, p, a) /\ p \in PCs
    BY <1>1, <1>2 DEF Moves, Goto, PCs
  <1>8. faults' \in Nat
    BY <1>2, <1>3 DEF Fault
  <1>9. Lasting /\ ChainLasts
    BY <1>1, <1>3, StillLasting DEF rowVars, keyVars
  <1>10. StoreInv'
    BY <1>1, <1>3 DEF StoreInv, rowVars
  <1>11. HFit(p, a, chain', rows', acctRows', acctChain', latest')
    BY <1>2, <1>6, AwaitedFacts DEF HFit
  <1>12. HandlerInv'
    BY <1>3, <1>6, <1>7, <1>9, <1>11, HandlerMoves
  <1>13. ClientInv'
    <2>1. SameService(h, p)
      BY <1>1, <1>2, AwaitedFacts, PostingFacts DEF SameService
    <2>. QED BY <1>1, <1>3, <1>7, <1>8, <1>9, <2>1, GoesOn DEF Moves
  <1>14. MoneyInv'
    BY <1>1, <1>2, <1>3, <1>4, <1>6, <1>7, LandedMoney
  <1>. QED BY <1>3, <1>10, <1>12, <1>13, <1>14, KeysSame, PartsOfInv

LEMMA EkInsertKeeps ==
  ASSUME SdkInv, NEW h \in Handlers, UNCHANGED <<keyVars, clientVars>>, EkInsert(h)
  PROVE  SdkInv'
  <1>1. /\ pc[h] = "ekInsert" /\ Finish(h, "ok") /\ ekRow' = arg[h].ek
        /\ UNCHANGED <<chainVars, acctRows, rows, ledgerVars, faults>>
    BY DEF EkInsert
  <1>2. /\ StoreInv /\ HandlerInv /\ ClientInv /\ MoneyInv /\ KeysInv /\ faults' \in Nat
        /\ arg[h] \in ArgType /\ latest \in Nat
    BY <1>1, HandlerFacts
  <1>3. Lasting /\ ChainLasts
    BY <1>1, <1>2, StillLasting DEF keyVars, chainVars
  <1>4. ClientInv' /\ Moves(h, "idle", NoArg)
    BY <1>1, <1>2, <1>3, AwaitedFacts, FinishAnswers
  <1>5. HandlerInv'
    BY <1>2, <1>3, <1>4, IdleFits, HandlerMoves
  <1>6. StoreInv'
    BY <1>1, <1>2 DEF StoreInv, chainVars, ArgType
  <1>7. MoneyInv'
    <2>1. ~OwedAt(pc[h], arg[h]) /\ ~OwedAt("idle", NoArg) /\ ~ReturningAt("idle", NoArg)
      BY <1>1 DEF OwedAt, ReturningAt
    <2>. QED BY <1>1, <1>2, <1>4, <2>1, IdleFits, MoneyStands
  <1>. QED BY <1>2, <1>4, <1>5, <1>6, <1>7, KeysSame, PartsOfInv

\* A new dWallet: no row and no handler knows it yet.
LEMMA DkgKeeps ==
  ASSUME SdkInv, NEW h \in Handlers, UNCHANGED <<keyVars, clientVars>>,
         OnboardZeroTrust(h) \/ AddDwalletZeroTrust(h)
  PROVE  SdkInv'
  <1>1. /\ StoreInv /\ HandlerInv /\ ClientInv /\ MoneyInv /\ KeysInv /\ faults \in Nat
        /\ arg[h] \in ArgType /\ HFit(pc[h], arg[h], chain, rows, acctRows, acctChain, latest)
        /\ latest \in Nat
    BY HandlerFacts
  <1>2. PICK x \in AccountObjs :
          DkgLands(h, x) /\ (arg[h].isNew \/ x \in acctRows)
    <2>1. CASE OnboardZeroTrust(h)
      BY <2>1, FreshIsOne DEF OnboardZeroTrust
    <2>2. CASE AddDwalletZeroTrust(h)
      <3>1. pc[h] = "execute" /\ ~arg[h].isNew /\ DkgLands(h, arg[h].acct)
        BY <2>2 DEF AddDwalletZeroTrust, DkgLands
      <3>2. arg[h].acct \in acctRows
        BY <1>1, <3>1 DEF HFit
      <3>. QED BY <1>1, <3>1, <3>2 DEF StoreInv
    <2>. QED BY <2>1, <2>2
  <1>. DEFINE d == Fresh(Unmade)
              k == [st |-> "dkg", acct |-> x, nek |-> arg[h].nek, fit |-> arg[h].fit]
              a == [arg[h] EXCEPT !.dw = d, !.acct = x]
  <1>3. /\ pc[h] = "execute" /\ d \in Unmade /\ acctChain' = acctChain \cup {x}
        /\ chain' = [chain EXCEPT ![d] = k] /\ arg' = [arg EXCEPT ![h] = a]
        /\ work' = work + 1
        /\ UNCHANGED <<ekChain, rowVars, fees, losses, gifts, owner, reply>>
    BY <1>2, FreshIsOne DEF DkgLands
  <1>4. PICK p \in {"account", "refund"} : Goto(h, p) /\ (Fault \/ UNCHANGED faults)
    BY <1>2 DEF DkgLands
  <1>5. ~HasLanded(arg[h])
    BY <1>1, <1>3 DEF HFit
  <1>6. d \in DWallets /\ chain[d].st = "none" /\ d # None
    BY <1>3, PostingFacts DEF Unmade
  <1>. HIDE DEF d
  <1>7. k \in ChainType /\ k.st = "dkg" /\ k.acct = x
    BY <1>1, <1>2 DEF ChainType, ArgType
  <1>8. a \in ArgType /\ a.dw = d /\ a.acct = x /\ a.isNew = arg[h].isNew /\ HasLanded(a)
    BY <1>1, <1>2, <1>6 DEF ArgType, HasLanded
  <1>. HIDE DEF k, a
  <1>9. Moves(h, p, a) /\ p \in PCs /\ faults' \in Nat
    BY <1>1, <1>3, <1>4 DEF Moves, Goto, PCs, Fault
  <1>10. chain'[d] = k /\ \A c \in DWallets \ {d} : chain'[c] = chain[c]
    BY <1>1, <1>3, <1>6 DEF StoreInv
  <1>11. ChainLasts
    BY <1>6, <1>10 DEF ChainLasts
  <1>12. Lasting
    BY <1>1, <1>3, <1>11 DEF Lasting, rowVars, keyVars
  <1>13. StoreInv'
    <2>1. \A c \in DWallets : RowFits(rows[c], chain'[c], acctRows)
      BY <1>1, <1>6, <1>10 DEF StoreInv, RowFits
    <2>2. UNCHANGED <<rows, ekRow, acctRows>>
      BY <1>3 DEF rowVars
    <2>3. chain' \in [DWallets -> ChainType] /\ acctChain' \subseteq AccountObjs
      BY <1>1, <1>2, <1>3, <1>7 DEF StoreInv
    <2>. QED BY <1>1, <1>3, <2>1, <2>2, <2>3 DEF StoreInv
  <1>14. HFit(p, a, chain', rows', acctRows', acctChain', latest')
    <2>1. a.isNew \/ a.acct \in acctRows'
      BY <1>2, <1>3, <1>8 DEF rowVars
    <2>2. a.acct \in acctChain' /\ a.acct = chain'[a.dw].acct /\ chain'[a.dw].st # "none"
      BY <1>3, <1>7, <1>8, <1>10
    <2>. QED BY <1>4, <1>6, <1>8, <2>1, <2>2, AwaitedFacts DEF HFit
  <1>15. HandlerInv'
    BY <1>1, <1>8, <1>9, <1>12, <1>14, HandlerMoves
  <1>16. ClientInv'
    <2>1. SameService(h, p)
      BY <1>3, <1>4, AwaitedFacts, PostingFacts DEF SameService
    <2>. QED BY <1>1, <1>3, <1>9, <1>11, <2>1, GoesOn DEF Moves
  <1>17. MoneyInv'
    BY <1>1, <1>3, <1>4, <1>5, <1>8, <1>9, LandedMoney
  <1>. QED BY <1>1, <1>13, <1>15, <1>16, <1>17, KeysSame, PartsOfInv

LEMMA RecordAccountKeeps ==
  ASSUME SdkInv, NEW h \in Handlers, UNCHANGED <<keyVars, clientVars>>, RecordAccount(h)
  PROVE  SdkInv'
  <1>1. /\ pc[h] = "account" /\ Goto(h, "insert")
        /\ acctRows' = IF arg[h].isNew THEN acctRows \cup {arg[h].acct} ELSE acctRows
        /\ UNCHANGED <<chainVars, ekRow, rows, ledgerVars, faults, owner, arg, reply>>
    BY DEF RecordAccount
  <1>2. /\ StoreInv /\ HandlerInv /\ ClientInv /\ MoneyInv /\ KeysInv /\ faults \in Nat
        /\ arg[h] \in ArgType /\ HFit(pc[h], arg[h], chain, rows, acctRows, acctChain, latest)
        /\ latest \in Nat
    BY HandlerFacts
  <1>3. Moves(h, "insert", arg[h]) /\ "insert" \in PCs
    BY <1>1, HandlerFacts DEF Moves, Goto, PCs
  <1>4. UNCHANGED <<chain, acctChain, ekChain>>
    BY <1>1 DEF chainVars
  <1>5. Lasting /\ ChainLasts
    BY <1>1, <1>2, <1>4 DEF Lasting, ChainLasts, keyVars
  <1>6. /\ arg[h].dw # None /\ arg[h].acct = chain[arg[h].dw].acct
        /\ arg[h].acct \in acctChain /\ arg[h].acct \in acctRows'
    BY <1>1, <1>2 DEF HFit
  <1>7. StoreInv'
    <2>1. acctRows \subseteq acctRows' /\ acctRows' \subseteq acctChain
      BY <1>1, <1>2, <1>6 DEF StoreInv
    <2>2. \A d \in DWallets : RowFits(rows[d], chain[d], acctRows')
      BY <1>2, <2>1 DEF StoreInv, RowFits
    <2>. QED BY <1>1, <1>2, <1>4, <2>1, <2>2 DEF StoreInv
  <1>8. HFit("insert", arg[h], chain', rows', acctRows', acctChain', latest')
    BY <1>2, <1>4, <1>6, AwaitedFacts DEF HFit
  <1>9. HandlerInv'
    BY <1>2, <1>3, <1>5, <1>8, HandlerMoves
  <1>10. ClientInv'
    <2>1. SameService(h, "insert")
      BY <1>1, AwaitedFacts, PostingFacts DEF SameService
    <2>. QED BY <1>1, <1>2, <1>3, <1>5, <2>1, GoesOn DEF Moves
  <1>11. MoneyInv'
    <2>1. ~OwedAt(pc[h], arg[h]) /\ ~OwedAt("insert", arg[h]) /\ ~ReturningAt("insert", arg[h])
      BY <1>1 DEF OwedAt, ReturningAt
    <2>. QED BY <1>1, <1>2, <1>3, <2>1, MoneyStands
  <1>. QED BY <1>2, <1>7, <1>9, <1>10, <1>11, KeysSame, PartsOfInv

\* A handler writes the row of its dWallet, and ends.
LEMMA RowWritten ==
  ASSUME SdkInv, NEW h \in Handlers, NEW r \in RowType, UNCHANGED <<keyVars, clientVars>>,
         pc[h] \in {"insert", "acUpdate", "nekWrite"},
         rows' = [rows EXCEPT ![arg[h].dw] = r], Finish(h, "ok"),
         RowFits(r, chain[arg[h].dw], acctRows),
         rows[arg[h].dw].st # "none" => r.st # "none",
         UNCHANGED <<chainVars, ekRow, acctRows, ledgerVars, faults>>
  PROVE  SdkInv'
  <1>1. /\ StoreInv /\ HandlerInv /\ ClientInv /\ MoneyInv /\ KeysInv /\ faults' \in Nat
        /\ arg[h] \in ArgType /\ HFit(pc[h], arg[h], chain, rows, acctRows, acctChain, latest)
        /\ latest \in Nat
    BY HandlerFacts
  <1>2. arg[h].dw # None /\ arg[h].dw \in DWallets
    BY <1>1, AwaitedFacts DEF HFit, ArgType
  <1>3. UNCHANGED <<chain, acctChain, ekChain, latest>>
    BY DEF chainVars, keyVars
  <1>4. rows'[arg[h].dw] = r /\ \A d \in DWallets \ {arg[h].dw} : rows'[d] = rows[d]
    BY <1>1, <1>2 DEF StoreInv
  <1>5. Lasting /\ ChainLasts
    BY <1>1, <1>3, <1>4 DEF Lasting, ChainLasts
  <1>6. StoreInv'
    <2>1. \A d \in DWallets : RowFits(rows'[d], chain[d], acctRows)
      BY <1>1, <1>4 DEF StoreInv
    <2>2. rows' \in [DWallets -> RowType]
      BY <1>1 DEF StoreInv
    <2>. QED BY <1>1, <1>3, <2>1, <2>2 DEF StoreInv
  <1>7. ClientInv' /\ Moves(h, "idle", NoArg)
    BY <1>1, <1>2, <1>5, FinishAnswers
  <1>8. HandlerInv'
    BY <1>1, <1>5, <1>7, IdleFits, HandlerMoves
  <1>9. MoneyInv'
    <2>1. ~OwedAt(pc[h], arg[h]) /\ ~OwedAt("idle", NoArg) /\ ~ReturningAt("idle", NoArg)
      BY DEF OwedAt, ReturningAt
    <2>. QED BY <1>1, <1>7, <2>1, IdleFits, MoneyStands
  <1>. QED BY <1>1, <1>6, <1>7, <1>8, <1>9, KeysSame, PartsOfInv

LEMMA WritesKeep ==
  ASSUME SdkInv, NEW h \in Handlers, UNCHANGED <<keyVars, clientVars>>,
         InsertDWallet(h) \/ AcceptUpdate(h) \/ NekWrite(h)
  PROVE  SdkInv'
  <1>1. /\ StoreInv /\ arg[h] \in ArgType
        /\ HFit(pc[h], arg[h], chain, rows, acctRows, acctChain, latest)
    BY HandlerFacts
  <1>2. /\ pc[h] \in {"insert", "acUpdate", "nekWrite"} /\ Finish(h, "ok")
        /\ UNCHANGED <<chainVars, ekRow, acctRows, ledgerVars, faults>>
    BY DEF InsertDWallet, AcceptUpdate, NekWrite
  <1>. DEFINE d == arg[h].dw
  <1>3. d # None /\ d \in DWallets /\ chain[d].st # "none"
    BY <1>1, <1>2, AwaitedFacts DEF HFit, ArgType
  <1>4. rows[d] \in RowType /\ RowFits(rows[d], chain[d], acctRows)
    BY <1>1, <1>3 DEF StoreInv
  <1>5. CASE InsertDWallet(h)
    <2>. DEFINE r == [st |-> "awaiting_user_share", acct |-> arg[h].acct, nek |-> None]
    <2>1. pc[h] = "insert" /\ rows' = [rows EXCEPT ![d] = r]
      BY <1>5 DEF InsertDWallet
    <2>2. r \in RowType /\ r.st = "awaiting_user_share" /\ r.acct = arg[h].acct /\ r.nek = None
      BY <1>1 DEF RowType, ArgType
    <2>. HIDE DEF r
    <2>3. RowFits(r, chain[d], acctRows)
      BY <1>1, <1>3, <2>1, <2>2 DEF RowFits, HFit
    <2>. QED BY <1>2, <2>1, <2>2, <2>3, RowWritten
  <1>6. CASE AcceptUpdate(h)
    <2>. DEFINE n == IF arg[h].nek = None THEN rows[d].nek ELSE arg[h].nek
                r == [rows[d] EXCEPT !.st = "active", !.nek = n]
    <2>1. pc[h] = "acUpdate"
      BY <1>6 DEF AcceptUpdate
    <2>2. rows' = [rows EXCEPT ![d] = r]
      BY <1>1, <1>3, <1>6 DEF AcceptUpdate, StoreInv, RowType
    <2>3. r \in RowType /\ r.st = "active" /\ r.acct = rows[d].acct /\ r.nek = n
      BY <1>1, <1>4 DEF RowType, ArgType
    <2>4. rows[d].st # "none" /\ chain[d].st = "active" /\ arg[h].nek \in {None, chain[d].nek}
      BY <1>1, <2>1 DEF HFit
    <2>5. n \in {None, chain[d].nek}
      BY <1>4, <2>4 DEF RowFits
    <2>. HIDE DEF r, n
    <2>6. RowFits(r, chain[d], acctRows)
      BY <1>4, <2>3, <2>4, <2>5 DEF RowFits
    <2>. QED BY <1>2, <2>2, <2>3, <2>6, RowWritten
  <1>7. CASE NekWrite(h)
    <2>. DEFINE r == [rows[d] EXCEPT !.nek = arg[h].nek]
    <2>1. pc[h] = "nekWrite" /\ rows' = [rows EXCEPT ![d] = r]
      BY <1>7 DEF NekWrite
    <2>2. r \in RowType /\ r.st = rows[d].st /\ r.acct = rows[d].acct /\ r.nek = arg[h].nek
      BY <1>1, <1>4 DEF RowType, ArgType
    <2>3. arg[h].nek \in {None, chain[d].nek}
      BY <1>1, <2>1 DEF HFit
    <2>. HIDE DEF r
    <2>4. RowFits(r, chain[d], acctRows)
      BY <1>4, <2>2, <2>3 DEF RowFits
    <2>. QED BY <1>2, <2>1, <2>2, <2>4, RowWritten
  <1>. QED BY <1>5, <1>6, <1>7

\* The state of a dWallet on chain moves on.
LEMMA ChainMoves ==
  ASSUME SdkInv, NEW d \in DWallets, NEW st \in {"awaiting", "rejected", "active"},
         chain' = [chain EXCEPT ![d].st = st], chain[d].st \notin {"none", "active"},
         UNCHANGED <<ekChain, acctChain, rowVars, keyVars>>
  PROVE  StoreInv' /\ Lasting /\ ChainLasts /\ chain'[d].st = st
  <1>1. StoreInv /\ KeysInv
    BY PartsOfInv
  <1>2. /\ chain \in [DWallets -> ChainType] /\ chain[d] \in ChainType
        /\ UNCHANGED <<rows, ekRow, acctRows, latest>>
    BY <1>1 DEF StoreInv, rowVars, keyVars
  <1>3. /\ chain'[d] = [chain[d] EXCEPT !.st = st]
        /\ \A c \in DWallets \ {d} : chain'[c] = chain[c]
    BY <1>2
  <1>4. /\ chain'[d] \in ChainType /\ chain'[d].st = st
        /\ chain'[d].acct = chain[d].acct /\ chain'[d].nek = chain[d].nek
    BY <1>2, <1>3 DEF ChainType
  <1>5. ChainLasts
    BY <1>3, <1>4 DEF ChainLasts
  <1>6. Lasting
    BY <1>1, <1>2, <1>5, LatestNat DEF Lasting
  <1>7. ASSUME NEW c \in DWallets
        PROVE  RowFits(rows[c], chain'[c], acctRows)
    BY <1>1, <1>3, <1>4 DEF StoreInv, RowFits
  <1>8. chain' \in [DWallets -> ChainType]
    BY <1>2, <1>3, <1>4
  <1>. QED BY <1>1, <1>2, <1>4, <1>5, <1>6, <1>7, <1>8 DEF StoreInv

LEMMA AcceptExecuteKeeps ==
  ASSUME SdkInv, NEW h \in Handlers, UNCHANGED <<keyVars, clientVars>>, AcceptExecute(h)
  PROVE  SdkInv'
  <1>1. /\ pc[h] = "acExecute" /\ chain[arg[h].dw].st = "awaiting"
        /\ chain' = [chain EXCEPT ![arg[h].dw].st = "active"]
        /\ UNCHANGED <<ekChain, acctChain, rowVars, ledgerVars>>
    BY DEF AcceptExecute
  <1>2. /\ StoreInv /\ HandlerInv /\ ClientInv /\ MoneyInv /\ KeysInv /\ faults \in Nat
        /\ arg[h] \in ArgType /\ HFit(pc[h], arg[h], chain, rows, acctRows, acctChain, latest)
        /\ latest \in Nat
    BY HandlerFacts
  <1>3. arg[h].dw # None /\ arg[h].dw \in DWallets /\ rows[arg[h].dw].st # "none"
    BY <1>1, <1>2, AwaitedFacts DEF HFit, ArgType
  <1>4. StoreInv' /\ Lasting /\ ChainLasts /\ chain'[arg[h].dw].st = "active"
    BY <1>1, <1>3, ChainMoves
  <1>5. CASE Goto(h, "acNek") /\ UNCHANGED <<faults, owner, arg, reply>>
    <2>1. Moves(h, "acNek", arg[h]) /\ "acNek" \in PCs
      BY <1>5, HandlerFacts DEF Moves, Goto, PCs
    <2>2. HFit("acNek", arg[h], chain', rows', acctRows', acctChain', latest')
      <3>1. rows' = rows
        BY <1>1 DEF rowVars
      <3>. QED BY <1>3, <1>4, <3>1, AwaitedFacts DEF HFit
    <2>3. HandlerInv'
      BY <1>2, <1>4, <2>1, <2>2, HandlerMoves
    <2>4. SameService(h, "acNek")
      BY <1>1, AwaitedFacts, PostingFacts DEF SameService
    <2>5. ClientInv'
      BY <1>2, <1>4, <1>5, <2>1, <2>4, GoesOn DEF Moves
    <2>6. ~OwedAt(pc[h], arg[h]) /\ ~OwedAt("acNek", arg[h]) /\ ~ReturningAt("acNek", arg[h])
      BY <1>1 DEF OwedAt, ReturningAt
    <2>7. MoneyInv'
      BY <1>1, <1>2, <2>1, <2>6, MoneyStands
    <2>. QED BY <1>2, <1>4, <2>3, <2>5, <2>7, KeysSame, PartsOfInv
  <1>6. CASE Fault /\ Finish(h, "error")
    <2>1. faults' \in Nat
      BY <1>2, <1>6 DEF Fault
    <2>2. ClientInv' /\ Moves(h, "idle", NoArg)
      BY <1>2, <1>4, <1>6, <2>1, FinishAnswers
    <2>3. HandlerInv'
      BY <1>2, <1>4, <2>2, IdleFits, HandlerMoves
    <2>4. ~OwedAt(pc[h], arg[h]) /\ ~OwedAt("idle", NoArg) /\ ~ReturningAt("idle", NoArg)
      BY <1>1 DEF OwedAt, ReturningAt
    <2>5. MoneyInv'
      BY <1>1, <1>2, <2>2, <2>4, IdleFits, MoneyStands
    <2>. QED BY <1>2, <1>4, <2>2, <2>3, <2>5, KeysSame, PartsOfInv
  <1>. QED BY <1>5, <1>6 DEF AcceptExecute

LEMMA StepKeeps ==
  ASSUME SdkInv, NEW h \in Handlers, UNCHANGED <<keyVars, clientVars>>, Step(h) \/ Crash(h)
  PROVE  SdkInv'
  BY EndingsKeep, ReadingsKeep, FindKeeps, LookupsKeep, ChargedKeeps, RefundKeeps, CrashKeeps,
     EkExecuteKeeps, EkInsertKeeps, DkgKeeps, RecordAccountKeeps, WritesKeep,
     AcceptExecuteKeeps, Zenon DEF Step

-----------------------------------------------------------------------------
(***************************************************************************)
(* The keys of the network.                                                *)
(***************************************************************************)
\* A read of the keys is answered: the cache alone may change.
LEMMA KeyAnswered ==
  ASSUME SdkInv, NEW h \in Handlers, NEW ans \in ReplyType, Answer(h, ans), OnlyReads,
         UNCHANGED clientVars, KeysInv', ans # NoReply, ans.dw # None => arg[h].dw = ans.dw,
         pc[h] \in {"netRead", "ppRead", "ppLoad"}
  PROVE  SdkInv'
  <1>1. /\ StoreInv /\ HandlerInv /\ ClientInv /\ MoneyInv /\ KeysInv /\ faults' \in Nat
        /\ HFit(pc[h], arg[h], chain, rows, acctRows, acctChain, latest)
        /\ UNCHANGED <<chainVars, rowVars, ledgerVars, latest>>
    BY HandlerFacts DEF OnlyReads
  <1>2. Lasting /\ ChainLasts
    BY <1>1, PlaceLasts
  <1>3. ans.dw # None => chain'[ans.dw].st # "none"
    BY <1>1 DEF HFit, chainVars
  <1>4. ClientInv'
    BY <1>1, <1>2, <1>3, AwaitedFacts, Answers
  <1>5. Moves(h, "idle", NoArg)
    BY DEF Answer, Goto, Moves
  <1>6. HandlerInv'
    BY <1>1, <1>2, <1>5, IdleFits, HandlerMoves
  <1>7. ~OwedAt(pc[h], arg[h]) /\ ~OwedAt("idle", NoArg) /\ ~ReturningAt("idle", NoArg)
    BY DEF OwedAt, ReturningAt
  <1>8. MoneyInv'
    BY <1>1, <1>5, <1>7, IdleFits, MoneyStands
  <1>. QED BY <1>1, <1>4, <1>6, <1>8, StoreSame, PartsOfInv

\* The bytes cached under a key the network has left are never read again.
LEMMA KeyHandlerKeeps ==
  ASSUME SdkInv, NEW h \in Handlers, KeyHandler(h), UNCHANGED clientVars
  PROVE  SdkInv'
  <1>1. /\ StoreInv /\ HandlerInv /\ ClientInv /\ MoneyInv /\ KeysInv /\ latest \in Nat
        /\ arg[h] \in ArgType /\ HFit(pc[h], arg[h], chain, rows, acctRows, acctChain, latest)
    BY HandlerFacts
  <1>2. /\ latest \in NEKs /\ netInfo \in NEKs \cup {None}
        /\ paramsOf \in [NEKs -> NEKs \cup {None}]
        /\ LatestParamsRight /\ ParamsFit
    BY <1>1 DEF KeysInv, KeysTypeOK
  <1>3. ASSUME NEW n \in NEKs \cup {None}, NEW m \in NEKs \cup {None}
        PROVE  LET ans == [NoReply EXCEPT !.res = "ok", !.nek = n]
                   bns == [NoReply EXCEPT !.res = "ok", !.par = m]
               IN /\ ans \in ReplyType /\ ans # NoReply /\ ans.dw = None
                  /\ bns \in ReplyType /\ bns # NoReply /\ bns.dw = None
    <2>1. /\ [NoReply EXCEPT !.res = "ok", !.nek = n].res = "ok"
          /\ [NoReply EXCEPT !.res = "ok", !.par = m].res = "ok" /\ NoReply.res = "none"
      BY DEF NoReply
    <2>. QED BY <1>3, <2>1 DEF ReplyType, NoReply
  <1>4. CASE GetNetworkInfo(h)
    <2>1. /\ Answer(h, [NoReply EXCEPT !.res = "ok", !.nek = netInfo']) /\ OnlyReads
          /\ UNCHANGED paramsOf /\ pc[h] = "netRead"
          /\ netInfo' = IF netInfo = None THEN latest ELSE netInfo
      BY <1>4 DEF GetNetworkInfo
    <2>2. netInfo' \in NEKs \cup {None} /\ UNCHANGED latest
      BY <1>2, <2>1 DEF OnlyReads
    <2>3. KeysInv'
      BY <1>2, <2>1, <2>2 DEF KeysInv, KeysTypeOK, LatestParamsRight, ParamsFit
    <2>. QED BY <1>3, <2>1, <2>2, <2>3, KeyAnswered
  <1>5. CASE ParamsHit(h)
    <2>1. /\ Answer(h, [NoReply EXCEPT !.res = "ok", !.par = paramsOf[latest]]) /\ OnlyReads
          /\ UNCHANGED <<netInfo, paramsOf>> /\ pc[h] = "ppRead"
      BY <1>5 DEF ParamsHit
    <2>2. paramsOf[latest] \in NEKs \cup {None}
      BY <1>2
    <2>3. KeysInv'
      BY <1>1, <2>1, KeysSame DEF OnlyReads, keyVars
    <2>. QED BY <1>3, <2>1, <2>2, <2>3, KeyAnswered
  <1>6. CASE ParamsLoad(h)
    <2>1. /\ Answer(h, [NoReply EXCEPT !.res = "ok", !.par = latest]) /\ OnlyReads
          /\ paramsOf' = [paramsOf EXCEPT ![arg[h].nek] = latest]
          /\ UNCHANGED <<netInfo, latest>> /\ pc[h] = "ppLoad"
      BY <1>6 DEF ParamsLoad, OnlyReads
    <2>2. arg[h].nek \in 1..latest
      BY <1>1, <2>1 DEF HFit
    <2>3. \A k \in NEKs : paramsOf'[k] \in {paramsOf[k], latest}
                          /\ (k > latest => paramsOf'[k] = paramsOf[k])
      BY <1>1, <1>2, <2>1, <2>2 DEF NEKs
    <2>4. paramsOf' \in [NEKs -> NEKs \cup {None}]
      BY <1>2, <2>1
    <2>5. KeysInv'
      BY <1>2, <2>1, <2>3, <2>4 DEF KeysInv, KeysTypeOK, LatestParamsRight, ParamsFit
    <2>. QED BY <1>2, <1>3, <2>1, <2>5, KeyAnswered
  <1>7. CASE KeyReadFails(h)
    <2>. DEFINE ans == [NoReply EXCEPT !.res = "error", !.dw = arg[h].dw]
    <2>1. /\ Answer(h, ans) /\ OnlyReads
          /\ UNCHANGED <<netInfo, paramsOf>> /\ pc[h] \in {"netRead", "ppRead", "ppLoad"}
      BY <1>7 DEF KeyReadFails, Finish
    <2>2. ans \in ReplyType /\ ans.res = "error" /\ ans.dw = arg[h].dw
      BY <1>1 DEF ReplyType, NoReply, ArgType
    <2>3. ans # NoReply
      BY <2>2 DEF NoReply
    <2>4. KeysInv'
      BY <1>1, <2>1, KeysSame DEF OnlyReads, keyVars
    <2>. HIDE DEF ans
    <2>. QED BY <2>1, <2>2, <2>3, <2>4, KeyAnswered
  <1>8. CASE ParamsMiss(h)
    <2>. DEFINE a == [arg[h] EXCEPT !.nek = latest]
    <2>1. /\ arg' = [arg EXCEPT ![h] = a] /\ Goto(h, "ppLoad") /\ pc[h] = "ppRead"
          /\ UNCHANGED <<chainVars, rowVars, ledgerVars, faults, keyVars, owner, reply>>
      BY <1>8 DEF ParamsMiss, OnlyReads, keyVars
    <2>2. a \in ArgType /\ a.dw = arg[h].dw /\ a.nek = latest
      BY <1>1, <1>2 DEF ArgType
    <2>. HIDE DEF a
    <2>3. Moves(h, "ppLoad", a) /\ "ppLoad" \in PCs
      BY <2>1 DEF Moves, Goto, PCs
    <2>4. latest \in 1..latest
      BY <1>1, <1>2 DEF NEKs
    <2>5. HFit("ppLoad", a, chain, rows, acctRows, acctChain, latest)
      BY <1>1, <2>2, <2>4, AwaitedFacts DEF HFit
    <2>6. SameService(h, "ppLoad")
      BY <2>1, AwaitedFacts, PostingFacts DEF SameService
    <2>7. ~OwedAt(pc[h], arg[h]) /\ ~OwedAt("ppLoad", a) /\ ~ReturningAt("ppLoad", a)
      BY <2>1 DEF OwedAt, ReturningAt
    <2>. QED BY <2>1, <2>2, <2>3, <2>5, <2>6, <2>7, GoesOnReading
  <1>. QED BY <1>4, <1>5, <1>6, <1>7, <1>8 DEF KeyHandler

\* A reconfiguration: the new key is not cached yet.
LEMMA NetworkKeeps ==
  ASSUME SdkInv, Revalidate \/ Rotate, UNCHANGED clientVars
  PROVE  SdkInv'
  <1>1. StoreInv /\ HandlerInv /\ ClientInv /\ MoneyInv /\ KeysInv
    BY PartsOfInv
  <1>2. /\ latest \in NEKs /\ netInfo \in NEKs \cup {None}
        /\ paramsOf \in [NEKs -> NEKs \cup {None}]
        /\ LatestParamsRight /\ ParamsFit /\ latest \in Nat /\ faults \in Nat
    BY <1>1, LatestNat DEF KeysInv, KeysTypeOK, ClientInv, ClientTypes
  <1>3. /\ UNCHANGED <<chainVars, rowVars, ledgerVars, pc, owner, arg, reply, paramsOf>>
        /\ latest' \in NEKs /\ netInfo' \in NEKs \cup {None} /\ faults' \in Nat
        /\ \/ latest' = latest + 1
           \/ latest' = latest
    BY <1>2 DEF Revalidate, Rotate, Fault, backVars
  <1>4. KeysInv'
    <2>1. LatestParamsRight'
      BY <1>2, <1>3 DEF LatestParamsRight, ParamsFit
    <2>2. ParamsFit'
      BY <1>2, <1>3 DEF ParamsFit, NEKs
    <2>. QED BY <1>2, <1>3, <2>1, <2>2 DEF KeysInv, KeysTypeOK
  <1>5. Lasting /\ ChainLasts
    BY <1>2, <1>3 DEF Lasting, ChainLasts, chainVars, rowVars
  <1>6. HandlerInv'
    BY <1>1, <1>3, <1>5, HandlersStand
  <1>7. ClientInv'
    BY <1>1, <1>3, <1>5, ClientsStand DEF ClientInv
  <1>. QED BY <1>1, <1>3, <1>4, <1>6, <1>7, StoreSame, MoneySame, PartsOfInv

LEMMA FinaliseKeeps ==
  ASSUME SdkInv, NEW d \in DWallets, Finalise(d)
  PROVE  SdkInv'
  <1>1. StoreInv /\ HandlerInv /\ ClientInv /\ MoneyInv /\ KeysInv
    BY PartsOfInv
  <1>2. /\ chain[d].st = "dkg"
        /\ UNCHANGED <<ekChain, acctChain, rowVars, ledgerVars, faults, pc, owner, arg, reply,
                       keyVars, clientVars>>
    BY DEF Finalise
  <1>3. StoreInv' /\ Lasting /\ ChainLasts
    <2>1. PICK st \in {"awaiting", "rejected"} : chain' = [chain EXCEPT ![d].st = st]
      BY DEF Finalise
    <2>. QED BY <1>2, <2>1, ChainMoves
  <1>4. HandlerInv'
    BY <1>1, <1>2, <1>3, HandlersStand
  <1>5. ClientInv'
    BY <1>1, <1>2, <1>3, ClientsStand DEF ClientInv, ClientTypes
  <1>. QED BY <1>1, <1>2, <1>3, <1>4, <1>5, KeysSame, MoneySame, PartsOfInv

-----------------------------------------------------------------------------
(***************************************************************************)
(* The steps of the clients.                                               *)
(***************************************************************************)
NeedsDWallet == {"poll", "out", "postAccept", "prepare"}

\* What the backend keeps when clients move.
Backend == <<chainVars, rowVars, ledgerVars, pc, owner, arg, keyVars>>

\* The clients of S move, none of which has a request under way or an answer
\* left; the others stand.
LEMMA ClientsMove ==
  ASSUME SdkInv, ClientTypes', UNCHANGED Backend, NEW S \in SUBSET Clients,
         \A c \in Clients \ S : /\ cpc'[c] = cpc[c] /\ dw'[c] = dw[c] /\ nek'[c] = nek[c]
                                /\ par'[c] = par[c] /\ reply'[c] = reply[c],
         \A c \in S : /\ ~Out(c, owner) /\ reply'[c] = NoReply
                      /\ dw'[c] # None => chain[dw'[c]].st # "none"
                      /\ cpc'[c] \in NeedsDWallet => dw'[c] # None
  PROVE  SdkInv'
  <1>1. StoreInv /\ HandlerInv /\ ClientInv /\ MoneyInv /\ KeysInv
    BY PartsOfInv
  <1>2. UNCHANGED <<chainVars, rowVars, ledgerVars, pc, owner, arg, keyVars, chain>>
    BY DEF Backend, chainVars
  <1>3. Serving(owner', pc', cpc')
    <2>1. SUFFICES ASSUME NEW h \in Handlers, owner[h] # None
                   PROVE  /\ cpc'[owner[h]] \in Posting /\ pc[h] \in Awaited[cpc'[owner[h]]]
                          /\ \A g \in Handlers : owner[g] = owner[h] => g = h
      BY <1>2, Zenon DEF Serving
    <2>2. /\ cpc[owner[h]] \in Posting /\ pc[h] \in Awaited[cpc[owner[h]]]
          /\ \A g \in Handlers : owner[g] = owner[h] => g = h
      BY <1>1, <2>1, Zenon DEF ClientInv, Serving
    <2>3. owner[h] \in Clients /\ owner[h] \notin S
      BY <1>1, <2>1 DEF ClientInv, ClientTypes, Out
    <2>. QED BY <2>2, <2>3
  <1>4. ASSUME NEW c \in Clients
        PROVE  CFit(cpc'[c], dw'[c], nek'[c], par'[c], reply'[c], Out(c, owner'), chain')
    <2>1. CASE c \notin S
      <3>1. CFit(cpc[c], dw[c], nek[c], par[c], reply[c], Out(c, owner), chain)
        BY <1>1 DEF ClientInv
      <3>. QED BY <1>2, <2>1, <3>1
    <2>2. CASE c \in S
      <3>1. NoReply.dw = None /\ NoReply.res = "none"
        BY DEF NoReply
      <3>2. ~Out(c, owner')
        BY <1>2, <2>2
      <3>. QED BY <1>2, <2>2, <3>1, <3>2 DEF CFit, NeedsDWallet
    <2>. QED BY <2>1, <2>2
  <1>5. ClientInv'
    BY <1>3, <1>4 DEF ClientInv
  <1>6. HandlerInv'
    BY <1>1, <1>2, PlaceLasts, HandlersStand DEF keyVars
  <1>. QED BY <1>1, <1>2, <1>5, <1>6, StoreSame, KeysSame, MoneySame, PartsOfInv

LEMMA ClientsStay ==
  ASSUME SdkInv, ClientTypes', UNCHANGED Backend,
         \A c \in Clients : /\ cpc'[c] = cpc[c] /\ dw'[c] = dw[c] /\ nek'[c] = nek[c]
                           /\ par'[c] = par[c] /\ reply'[c] = reply[c]
  PROVE  SdkInv'
  <1>1. {} \in SUBSET Clients
    OBVIOUS
  <1>2. \A c \in {} : /\ ~Out(c, owner) /\ reply'[c] = NoReply
                      /\ dw'[c] # None => chain[dw'[c]].st # "none"
                      /\ cpc'[c] \in NeedsDWallet => dw'[c] # None
    OBVIOUS
  <1>3. \A c \in Clients \ {} : /\ cpc'[c] = cpc[c] /\ dw'[c] = dw[c] /\ nek'[c] = nek[c]
                                /\ par'[c] = par[c] /\ reply'[c] = reply[c]
    OBVIOUS
  <1>. QED BY ONLY <1>1, <1>2, <1>3, ClientsMove, SdkInv, ClientTypes', UNCHANGED Backend, Zenon

LEMMA ClientMoves ==
  ASSUME SdkInv, ClientTypes', UNCHANGED Backend, NEW c \in Clients,
         \A b \in Clients \ {c} : /\ cpc'[b] = cpc[b] /\ dw'[b] = dw[b] /\ nek'[b] = nek[b]
                                  /\ par'[b] = par[b] /\ reply'[b] = reply[b],
         ~Out(c, owner), reply'[c] = NoReply, dw'[c] # None => chain[dw'[c]].st # "none",
         cpc'[c] \in NeedsDWallet => dw'[c] # None
  PROVE  SdkInv'
  <1>1. {c} \in SUBSET Clients
    OBVIOUS
  <1>2. \A b \in {c} : /\ ~Out(b, owner) /\ reply'[b] = NoReply
                       /\ dw'[b] # None => chain[dw'[b]].st # "none"
                       /\ cpc'[b] \in NeedsDWallet => dw'[b] # None
    OBVIOUS
  <1>. QED BY ONLY <1>1, <1>2, ClientsMove, SdkInv, ClientTypes', UNCHANGED Backend,
              \A b \in Clients \ {c} : /\ cpc'[b] = cpc[b] /\ dw'[b] = dw[b] /\ nek'[b] = nek[b]
                                       /\ par'[b] = par[b] /\ reply'[b] = reply[b]

LEMMA ClientFacts ==
  ASSUME SdkInv, NEW c \in Clients
  PROVE  /\ ClientTypes /\ Serving(owner, pc, cpc) /\ c # None
         /\ CFit(cpc[c], dw[c], nek[c], par[c], reply[c], Out(c, owner), chain)
         /\ dw[c] # None => chain[dw[c]].st # "none"
         /\ cpc[c] \in NeedsDWallet => dw[c] # None
         /\ cpc[c] \notin Posting => ~Out(c, owner) /\ reply[c] = NoReply
         /\ reply[c].res # "none" => ~Out(c, owner)
         /\ cpc[c] \in {"net", "par"} /\ par[c] # None /\ (cpc[c] = "net" => nek[c] # None) =>
              ~Out(c, owner) /\ reply[c] = NoReply
  <1>1. ClientInv
    BY PartsOfInv
  <1>2. CFit(cpc[c], dw[c], nek[c], par[c], reply[c], Out(c, owner), chain)
    BY <1>1 DEF ClientInv
  <1>3. c # None
    BY PostingFacts
  <1>4. cpc[c] \notin Posting => ~Out(c, owner)
    BY <1>1, <1>3 DEF ClientInv, Serving, Out
  <1>5. reply[c].res # "none" => reply[c] # NoReply
    BY DEF NoReply
  <1>. QED BY <1>1, <1>2, <1>3, <1>4, <1>5 DEF ClientInv, CFit, NeedsDWallet

\* One client moves to q; its other locals keep their types.
LEMMA ClientGoes ==
  ASSUME SdkInv, NEW c \in Clients, NEW q \in ClientPCs, CGoto(c, q),
         UNCHANGED <<backVars, keyVars, dw, nek, params, bundle>>, tries' \in Nat,
         ~Out(c, owner), reply[c] = NoReply, q \in NeedsDWallet => dw[c] # None,
         \A b \in Clients \ {c} : par'[b] = par[b],
         par' \in [Clients -> NEKs \cup {None}],
         sreq' \in [Clients -> {"none", "prepared", "queued", "completed", "failed"}],
         dropped' \subseteq Clients
  PROVE  SdkInv'
  <1>1. /\ ClientTypes /\ UNCHANGED <<Backend, owner, faults, reply, dw, nek>>
        /\ dw[c] # None => chain[dw[c]].st # "none"
    BY ClientFacts DEF Backend, backVars
  <1>2. /\ cpc' = [cpc EXCEPT ![c] = q] /\ cpc \in [Clients -> ClientPCs]
    BY <1>1 DEF CGoto, ClientTypes
  <1>3. ClientTypes'
    BY <1>1, <1>2 DEF ClientTypes
  <1>4. \A b \in Clients \ {c} : cpc'[b] = cpc[b]
    BY <1>2
  <1>5. cpc'[c] = q
    BY <1>2
  <1>. QED BY <1>1, <1>3, <1>4, <1>5, ClientMoves

LEMMA PlaceTypes ==
  Posting \cup InEngine \cup Settled \cup {"ika", "poll", "submit", "watch", "hung"} = ClientPCs
  BY DEF ClientPCs

\* The steps that change where the client is, and no more than par or sreq.
LEMMA GoingsKeep ==
  ASSUME SdkInv, NEW c \in Clients,
         \/ IkaReady(c) \/ SignIkaReady(c) \/ PreparedAgain(c)
         \/ OpenSession(c) \/ NetworkKnown(c) \/ PrepareDKG(c) \/ PollSees(c)
         \/ SignUserOutput(c) \/ SignCentralizedMessage(c) \/ Submit(c) \/ Watch(c)
  PROVE  SdkInv'
  <1>1. /\ ClientTypes /\ UNCHANGED <<backVars, keyVars, dw, nek, params, bundle, dropped, tries>>
    BY ClientFacts DEF IkaReady, SignIkaReady, PreparedAgain, OpenSession, NetworkKnown, PrepareDKG, PollSees, SignUserOutput,
                       SignCentralizedMessage, Submit, Watch
  <1>2. PICK q \in ClientPCs : /\ CGoto(c, q)
                                /\ (q \in NeedsDWallet => cpc[c] \in NeedsDWallet \/ dw[c] # None)
    BY DEF IkaReady, SignIkaReady, PreparedAgain, OpenSession, NetworkKnown, PrepareDKG, PollSees, SignUserOutput,
           SignCentralizedMessage, Submit, Watch, ClientPCs, Posting, InEngine, Settled,
           NeedsDWallet
  <1>3. ~Out(c, owner) /\ reply[c] = NoReply
    <2>1. \/ cpc[c] \notin Posting
          \/ cpc[c] \in {"net", "par"} /\ par[c] # None /\ (cpc[c] = "net" => nek[c] # None)
      BY DEF IkaReady, SignIkaReady, PreparedAgain, OpenSession, NetworkKnown, PrepareDKG, PollSees, SignUserOutput,
             SignCentralizedMessage, Submit, Watch, Posting
    <2>. QED BY <2>1, ClientFacts
  <1>4. /\ par' = par \/ par' = [par EXCEPT ![c] = None] \/ par' = [par EXCEPT ![c] = params]
        /\ sreq' = sreq \/ sreq' = [sreq EXCEPT ![c] = "queued"]
           \/ sreq' = [sreq EXCEPT ![c] = sreq[c]]
    BY DEF IkaReady, SignIkaReady, PreparedAgain, OpenSession, NetworkKnown, PrepareDKG, PollSees, SignUserOutput,
           SignCentralizedMessage, Submit, Watch
  <1>5. /\ \A b \in Clients \ {c} : par'[b] = par[b]
        /\ par' \in [Clients -> NEKs \cup {None}]
        /\ sreq' \in [Clients -> {"none", "prepared", "queued", "completed", "failed"}]
        /\ dropped' \subseteq Clients /\ tries' \in Nat
    BY <1>1, <1>4 DEF ClientTypes
  <1>6. q \in NeedsDWallet => dw[c] # None
    BY <1>2, ClientFacts
  <1>. QED BY <1>1, <1>2, <1>3, <1>5, <1>6, ClientGoes

\* Settled clients start again.
LEMMA StartsKeep ==
  ASSUME SdkInv, NEW c \in Clients,
         AcceptAgain(c) \/ SignStart(c)
  PROVE  SdkInv'
  <1>1. /\ ClientTypes /\ UNCHANGED <<backVars, keyVars, dw, nek, params, sreq, bundle, tries>>
    BY ClientFacts DEF AcceptAgain, SignStart
  <1>2. PICK q \in {"postAccept", "open"} :
          Begin(c, q) /\ (q \in NeedsDWallet => dw[c] # None)
    BY DEF AcceptAgain, SignStart, NeedsDWallet
  <1>3. cpc[c] \in {"onboarded", "error"}
    BY DEF AcceptAgain, SignStart
  <1>4. ~Out(c, owner) /\ reply[c] = NoReply
    BY <1>3, ClientFacts DEF Posting
  <1>5. par' = par
    BY DEF AcceptAgain, SignStart
  <1>6. CGoto(c, q) /\ dropped' \subseteq Clients /\ q \in ClientPCs
    BY <1>1, <1>2 DEF Begin, ClientTypes, ClientPCs, Posting, InEngine
  <1>7. /\ \A b \in Clients \ {c} : par'[b] = par[b]
        /\ par' \in [Clients -> NEKs \cup {None}]
        /\ sreq' \in [Clients -> {"none", "prepared", "queued", "completed", "failed"}]
        /\ tries' \in Nat
    BY <1>1, <1>5 DEF ClientTypes
  <1>. QED BY <1>1, <1>2, <1>4, <1>6, <1>7, ClientGoes

LEMMA OnboardStartKeeps ==
  ASSUME SdkInv, NEW c \in Clients, OnboardStart(c)
  PROVE  SdkInv'
  <1>1. /\ ClientTypes /\ UNCHANGED <<backVars, keyVars, nek, params, par, sreq, bundle>>
        /\ cpc[c] \in {"idle", "error"} /\ Begin(c, "ika") /\ tries' = tries + 1
        /\ dw' = [dw EXCEPT ![c] = None]
    BY ClientFacts DEF OnboardStart
  <1>2. UNCHANGED <<Backend, owner, faults, reply>>
    BY <1>1 DEF Backend, backVars
  <1>3. ~Out(c, owner) /\ reply[c] = NoReply
    BY <1>1, ClientFacts DEF Posting
  <1>4. cpc' = [cpc EXCEPT ![c] = "ika"] /\ dropped' \subseteq Clients
    BY <1>1 DEF Begin, CGoto, ClientTypes
  <1>5. ClientTypes'
    BY <1>1, <1>2, <1>4 DEF ClientTypes, ClientPCs
  <1>6. /\ \A b \in Clients \ {c} : cpc'[b] = cpc[b] /\ dw'[b] = dw[b]
        /\ cpc'[c] = "ika" /\ dw'[c] = None
    BY <1>1, <1>4 DEF ClientTypes
  <1>7. \A b \in Clients \ {c} : /\ cpc'[b] = cpc[b] /\ dw'[b] = dw[b] /\ nek'[b] = nek[b]
                                 /\ par'[b] = par[b] /\ reply'[b] = reply[b]
    BY <1>1, <1>2, <1>6
  <1>. QED BY <1>2, <1>3, <1>5, <1>6, <1>7, ClientMoves DEF NeedsDWallet

\* The ceremonies of S throw.
LEMMA ThrowTypes ==
  ASSUME ClientTypes, NEW S \in SUBSET Clients, Throw(S)
  PROVE  /\ cpc' \in [Clients -> ClientPCs] /\ nek' \in [Clients -> NEKs \cup {None}]
         /\ par' \in [Clients -> NEKs \cup {None}]
         /\ \A c \in Clients \ S : cpc'[c] = cpc[c] /\ nek'[c] = nek[c] /\ par'[c] = par[c]
         /\ \A c \in S : cpc'[c] = "error"
  <1>1. "error" \in ClientPCs
    BY DEF ClientPCs, Settled
  <1>. QED BY <1>1 DEF ClientTypes, Throw

LEMMA ThrowsKeep ==
  ASSUME SdkInv, NEW S \in SUBSET Clients, Throw(S),
         UNCHANGED <<backVars, keyVars, dw, params, sreq, bundle, dropped, tries>>,
         \A c \in S : cpc[c] \notin Posting
  PROVE  SdkInv'
  <1>1. ClientTypes /\ UNCHANGED <<Backend, owner, faults, reply>>
    BY PartsOfInv DEF ClientInv, Backend, backVars
  <1>2. ClientTypes'
    BY <1>1, ThrowTypes DEF ClientTypes
  <1>3. \A c \in S : /\ ~Out(c, owner) /\ reply'[c] = NoReply
                     /\ dw'[c] # None => chain[dw'[c]].st # "none"
                     /\ cpc'[c] \notin NeedsDWallet
    BY <1>1, ClientFacts, ThrowTypes DEF NeedsDWallet
  <1>4. \A c \in Clients \ S : /\ cpc'[c] = cpc[c] /\ dw'[c] = dw[c] /\ nek'[c] = nek[c]
                               /\ par'[c] = par[c] /\ reply'[c] = reply[c]
    BY <1>1, ThrowTypes
  <1>. QED BY <1>1, <1>2, <1>3, <1>4, ClientsMove

LEMMA GivingUpKeeps ==
  ASSUME SdkInv,
         RejectPending \/ \E c \in Clients :
           PollTimeout(c) \/ EngineFails(c) \/ HangBreaks(c) \/ PresignCapGone(c)
  PROVE  SdkInv'
  <1>1. PICK S \in SUBSET Clients : Throw(S) /\ \A c \in S : cpc[c] \notin Posting
    <2>1. CASE RejectPending
      <3>. DEFINE S == {c \in Clients : cpc[c] \in InEngine /\ Answered(c)}
      <3>1. Throw(S)
        BY <2>1 DEF RejectPending
      <3>2. S \in SUBSET Clients /\ \A c \in S : cpc[c] \notin Posting
        BY DEF InEngine, Posting
      <3>. QED BY <3>1, <3>2
    <2>2. ASSUME NEW c \in Clients,
                 PollTimeout(c) \/ EngineFails(c) \/ HangBreaks(c) \/ PresignCapGone(c)
          PROVE  \E S \in SUBSET Clients : Throw(S) /\ \A b \in S : cpc[b] \notin Posting
      <3>1. Throw({c}) /\ cpc[c] \notin Posting
        BY <2>2 DEF PollTimeout, EngineFails, HangBreaks, PresignCapGone, InEngine, Posting
      <3>. QED BY <3>1
    <2>. QED BY <2>1, <2>2
  <1>2. UNCHANGED <<backVars, keyVars, dw, params, sreq, bundle, dropped, tries>>
    BY DEF RejectPending, PollTimeout, EngineFails, HangBreaks, PresignCapGone
  <1>. QED BY <1>1, <1>2, ThrowsKeep

\* A read of the client's never ends.
LEMMA HangKeeps ==
  ASSUME SdkInv, NEW c \in Clients, Hang(c)
  PROVE  SdkInv'
  <1>1. /\ ClientTypes /\ NoReply \in ReplyType /\ "hung" \in ClientPCs
        /\ dw[c] # None => chain[dw[c]].st # "none"
    BY ClientFacts DEF ReplyType, NoReply, ClientPCs
  <1>2. ~Out(c, owner)
    <2>1. CASE cpc[c] \in {"ika", "poll", "sig", "submit", "watch"}
      BY <2>1, ClientFacts DEF Posting
    <2>2. CASE reply[c] # NoReply
      BY <2>2, ClientFacts DEF CFit
    <2>. QED BY <2>1, <2>2 DEF Hang
  <1>3. /\ cpc' = [cpc EXCEPT ![c] = "hung"] /\ reply' = [reply EXCEPT ![c] = NoReply]
        /\ nek' = [nek EXCEPT ![c] = None] /\ par' = [par EXCEPT ![c] = None]
        /\ UNCHANGED <<Backend, owner, faults, dw, params, sreq, bundle, dropped, tries>>
    BY DEF Hang, CGoto, Backend
  <1>4. ClientTypes'
    BY <1>1, <1>3 DEF ClientTypes
  <1>5. /\ \A b \in Clients \ {c} : /\ cpc'[b] = cpc[b] /\ dw'[b] = dw[b] /\ nek'[b] = nek[b]
                                    /\ par'[b] = par[b] /\ reply'[b] = reply[b]
        /\ cpc'[c] = "hung" /\ reply'[c] = NoReply /\ dw'[c] = dw[c]
    BY <1>1, <1>3 DEF ClientTypes
  <1>. QED BY <1>1, <1>2, <1>3, <1>4, <1>5, ClientMoves DEF NeedsDWallet

\* A client takes its answer.
LEMMA AnswersTaken ==
  ASSUME SdkInv, NEW c \in Clients,
         \/ HttpError(c) \/ KeyRegistered(c) \/ NetworkAnswered(c) \/ DkgPosted(c)
         \/ Accepted(c) \/ Prepared(c)
  PROVE  SdkInv'
  <1>1. PICK res \in {"ok", "error"} : TakeReply(c, res) /\ (~HttpError(c) => res = "ok")
    BY DEF HttpError, KeyRegistered, NetworkAnswered, DkgPosted, Accepted, Prepared
  <1>2. /\ ClientTypes /\ ~Out(c, owner) /\ reply[c].res = res
        /\ dw[c] # None => chain[dw[c]].st # "none"
        /\ CFit(cpc[c], dw[c], nek[c], par[c], reply[c], Out(c, owner), chain)
    BY <1>1, ClientFacts DEF TakeReply
  <1>3. /\ reply' = [reply EXCEPT ![c] = NoReply]
        /\ UNCHANGED <<chainVars, rowVars, ledgerVars, faults, pc, owner, arg>>
    BY <1>1 DEF TakeReply
  <1>4. UNCHANGED keyVars /\ UNCHANGED <<bundle, dropped, tries>>
    BY DEF HttpError, KeyRegistered, NetworkAnswered, DkgPosted, Accepted, Prepared
  <1>5. UNCHANGED Backend
    BY <1>3, <1>4 DEF Backend
  <1>6. reply[c] \in ReplyType /\ NoReply \in ReplyType
    BY <1>2 DEF ClientTypes, ReplyType, NoReply
  <1>7. /\ reply' \in [Clients -> ReplyType] /\ reply'[c] = NoReply
        /\ \A b \in Clients \ {c} : reply'[b] = reply[b]
    BY <1>2, <1>3, <1>6 DEF ClientTypes
  <1>8. /\ params' \in NEKs \cup {None}
        /\ sreq' \in [Clients -> {"none", "prepared", "queued", "completed", "failed"}]
    <2>1. params' \in {params, reply[c].par}
      BY DEF HttpError, KeyRegistered, NetworkAnswered, DkgPosted, Accepted, Prepared
    <2>2. sreq' = sreq \/ sreq' = [sreq EXCEPT ![c] = "prepared"]
      BY DEF HttpError, KeyRegistered, NetworkAnswered, DkgPosted, Accepted, Prepared
    <2>. QED BY <1>2, <1>6, <2>1, <2>2 DEF ClientTypes, ReplyType
  <1>9. /\ nek' \in [Clients -> NEKs \cup {None}] /\ par' \in [Clients -> NEKs \cup {None}]
        /\ \A b \in Clients \ {c} : nek'[b] = nek[b] /\ par'[b] = par[b]
    <2>1. CASE HttpError(c)
      BY <1>2, <2>1, ThrowTypes DEF HttpError
    <2>2. CASE ~HttpError(c)
      <3>1. PICK n \in NEKs \cup {None} : nek' = nek \/ nek' = [nek EXCEPT ![c] = n]
        <4>1. \/ nek' = nek \/ nek' = [nek EXCEPT ![c] = None]
              \/ nek' = [nek EXCEPT ![c] = reply[c].nek] \/ nek' = [nek EXCEPT ![c] = nek[c]]
          BY <2>2 DEF KeyRegistered, NetworkAnswered, DkgPosted, Accepted, Prepared
        <4>2. nek[c] \in NEKs \cup {None} /\ reply[c].nek \in NEKs \cup {None}
          BY <1>2, <1>6 DEF ClientTypes, ReplyType
        <4>. QED BY <4>1, <4>2
      <3>2. PICK p \in NEKs \cup {None} : par' = par \/ par' = [par EXCEPT ![c] = p]
        <4>1. \/ par' = par \/ par' = [par EXCEPT ![c] = None]
              \/ par' = [par EXCEPT ![c] = params]
              \/ par' = [par EXCEPT ![c] = reply[c].par] \/ par' = [par EXCEPT ![c] = par[c]]
          BY <2>2 DEF KeyRegistered, NetworkAnswered, DkgPosted, Accepted, Prepared
        <4>2. /\ par[c] \in NEKs \cup {None} /\ reply[c].par \in NEKs \cup {None}
              /\ params \in NEKs \cup {None}
          BY <1>2, <1>6 DEF ClientTypes, ReplyType
        <4>. QED BY <4>1, <4>2
      <3>. QED BY <1>2, <3>1, <3>2 DEF ClientTypes
    <2>. QED BY <2>1, <2>2
  <1>10. /\ dw' \in [Clients -> DWallets \cup {None}]
         /\ \A b \in Clients \ {c} : dw'[b] = dw[b]
         /\ dw'[c] # None => chain[dw'[c]].st # "none"
         /\ DkgPosted(c) => dw'[c] # None
    <2>1. CASE DkgPosted(c)
      <3>1. dw' = [dw EXCEPT ![c] = reply[c].dw] /\ cpc[c] = "postDkg" /\ reply[c].res = "ok"
        BY <2>1 DEF DkgPosted, TakeReply
      <3>2. reply[c].dw # None /\ chain[reply[c].dw].st # "none"
        BY <1>2, <3>1 DEF CFit
      <3>. QED BY <1>2, <1>6, <3>1, <3>2 DEF ClientTypes, ReplyType
    <2>2. CASE ~DkgPosted(c)
      <3>1. dw' = dw
        BY <2>2 DEF HttpError, KeyRegistered, NetworkAnswered, Accepted, Prepared
      <3>. QED BY <1>2, <2>2, <3>1 DEF ClientTypes
    <2>. QED BY <2>1, <2>2
  <1>11. /\ cpc' \in [Clients -> ClientPCs] /\ \A b \in Clients \ {c} : cpc'[b] = cpc[b]
         /\ cpc'[c] \in NeedsDWallet => DkgPosted(c)
    <2>1. CASE HttpError(c)
      BY <1>2, <2>1, ThrowTypes DEF HttpError, NeedsDWallet
    <2>2. CASE NetworkAnswered(c)
      BY <1>2, <2>2 DEF NetworkAnswered, ClientTypes, NeedsDWallet
    <2>3. CASE KeyRegistered(c) \/ DkgPosted(c) \/ Accepted(c) \/ Prepared(c)
      <3>1. PICK q \in {"net", "poll", "onboarded", "par"} :
              CGoto(c, q) /\ (q = "poll" => DkgPosted(c))
        BY <2>3 DEF KeyRegistered, DkgPosted, Accepted, Prepared
      <3>2. q \in ClientPCs
        BY DEF ClientPCs, Posting, Settled
      <3>. QED BY <1>2, <3>1, <3>2 DEF CGoto, ClientTypes, NeedsDWallet
    <2>. QED BY <2>1, <2>2, <2>3
  <1>12. ClientTypes'
    BY <1>2, <1>3, <1>4, <1>7, <1>8, <1>9, <1>10, <1>11 DEF ClientTypes
  <1>. QED BY <1>2, <1>5, <1>7, <1>9, <1>10, <1>11, <1>12, ClientMoves

\* The client gives up on its request; the handler goes on for nobody.
LEMMA HttpTimeoutKeeps ==
  ASSUME SdkInv, NEW c \in Clients, HttpTimeout(c)
  PROVE  SdkInv'
  <1>1. StoreInv /\ HandlerInv /\ ClientInv /\ MoneyInv /\ KeysInv
    BY PartsOfInv
  <1>2. /\ ClientTypes /\ c # None
        /\ dw[c] # None => chain[dw[c]].st # "none"
    BY ClientFacts
  <1>3. /\ Throw({c}) /\ owner' = [h \in Handlers |-> IF owner[h] = c THEN None ELSE owner[h]]
        /\ reply[c] = NoReply
        /\ UNCHANGED <<chainVars, rowVars, ledgerVars, faults, pc, arg, reply, keyVars, dw, params,
                       sreq, bundle, dropped, tries>>
    BY DEF HttpTimeout
  <1>4. /\ cpc' \in [Clients -> ClientPCs] /\ nek' \in [Clients -> NEKs \cup {None}]
        /\ par' \in [Clients -> NEKs \cup {None}] /\ cpc'[c] = "error"
        /\ \A b \in Clients \ {c} : cpc'[b] = cpc[b] /\ nek'[b] = nek[b] /\ par'[b] = par[b]
    BY <1>2, <1>3, ThrowTypes
  <1>5. NoReply \in ReplyType /\ NoReply.dw = None /\ NoReply.res = "none"
    BY DEF NoReply, ReplyType
  <1>6. /\ owner' \in [Handlers -> Clients \cup {None}] /\ reply' \in [Clients -> ReplyType]
        /\ reply'[c] = NoReply /\ \A b \in Clients \ {c} : reply'[b] = reply[b]
        /\ \A h \in Handlers : owner'[h] # None => owner'[h] = owner[h] /\ owner[h] # c
        /\ \A h \in Handlers : owner[h] # c => owner'[h] = owner[h]
    BY <1>2, <1>3, <1>5 DEF ClientTypes
  <1>7. ClientTypes'
    BY <1>2, <1>3, <1>4, <1>6 DEF ClientTypes
  <1>8. Serving(owner', pc', cpc')
    <2>1. SUFFICES ASSUME NEW h \in Handlers, owner'[h] # None
                   PROVE  /\ cpc'[owner'[h]] \in Posting /\ pc'[h] \in Awaited[cpc'[owner'[h]]]
                          /\ \A g \in Handlers : owner'[g] = owner'[h] => g = h
      BY Zenon DEF Serving
    <2>2. owner'[h] = owner[h] /\ owner[h] # c /\ owner[h] # None /\ owner[h] \in Clients
      BY <1>2, <1>6, <2>1 DEF ClientTypes
    <2>3. /\ cpc[owner[h]] \in Posting /\ pc[h] \in Awaited[cpc[owner[h]]]
          /\ \A g \in Handlers : owner[g] = owner[h] => g = h
      BY <1>1, <2>2, Zenon DEF ClientInv, Serving
    <2>4. cpc'[owner[h]] = cpc[owner[h]] /\ pc' = pc
      BY <1>3, <1>4, <2>2
    <2>5. ASSUME NEW g \in Handlers, owner'[g] = owner'[h]
          PROVE  g = h
      <3>1. owner[g] = owner[h]
        BY <1>6, <2>1, <2>2, <2>5
      <3>. QED BY <2>3, <3>1
    <2>. QED BY <2>2, <2>3, <2>4, <2>5
  <1>9. ASSUME NEW b \in Clients
        PROVE  CFit(cpc'[b], dw'[b], nek'[b], par'[b], reply'[b], Out(b, owner'), chain')
    <2>1. CASE b = c
      <3>1. ~Out(c, owner')
        BY <1>2, <1>6 DEF Out
      <3>2. dw'[c] # None => chain'[dw'[c]].st # "none"
        BY <1>2, <1>3 DEF chainVars
      <3>. QED BY <1>4, <1>5, <1>6, <2>1, <3>1, <3>2 DEF CFit
    <2>2. CASE b # c
      <3>1. CFit(cpc[b], dw[b], nek[b], par[b], reply[b], Out(b, owner), chain)
        BY <1>1 DEF ClientInv
      <3>2. b # None
        BY PostingFacts
      <3>3. Out(b, owner') = Out(b, owner)
        BY <1>6, <2>2, <3>2 DEF Out
      <3>. QED BY <1>3, <1>4, <1>6, <2>2, <3>1, <3>3 DEF chainVars
    <2>. QED BY <2>1, <2>2
  <1>10. ClientInv'
    BY <1>7, <1>8, <1>9 DEF ClientInv
  <1>11. HandlerInv'
    BY <1>1, <1>3, PlaceLasts, HandlersStand DEF keyVars
  <1>. QED BY <1>1, <1>3, <1>10, <1>11, StoreSame, KeysSame, MoneySame, PartsOfInv

\* A request arrives at a free handler.
LEMMA RequestKeeps ==
  ASSUME SdkInv, NEW c \in Clients, NEW p \in PCs, NEW a \in ArgType, Request(c, p, a),
         cpc[c] \in Posting, p \in Awaited[cpc[c]],
         cpc[c] \in {"net", "par"} => par[c] = None \/ (cpc[c] = "net" /\ nek[c] = None),
         HFit(p, a, chain, rows, acctRows, acctChain, latest),
         p \in {"ekFind", "netRead", "ppRead", "find", "acRead", "nekRead"}
  PROVE  SdkInv'
  <1>. DEFINE h == Slot
  <1>1. StoreInv /\ HandlerInv /\ ClientInv /\ MoneyInv /\ KeysInv
    BY PartsOfInv
  <1>2. /\ h \in Handlers /\ pc[h] = "idle" /\ Arrive(h, c, p, a)
        /\ reply[c] = NoReply /\ ~Out(c, owner)
        /\ UNCHANGED <<chainVars, rowVars, ledgerVars, faults, keyVars, clientVars>>
    <2>1. {g \in Handlers : pc[g] = "idle"} # {}
      BY DEF Request
    <2>2. h \in {g \in Handlers : pc[g] = "idle"}
      BY <2>1, FreshIsOne DEF Slot
    <2>. QED BY <2>2 DEF Request, Out
  <1>. HIDE DEF h
  <1>3. Moves(h, p, a) /\ owner' = [owner EXCEPT ![h] = c] /\ reply' = reply
    BY <1>2 DEF Arrive, Moves, Goto
  <1>4. UNCHANGED <<cpc, dw, nek, params, par, sreq, bundle, dropped, tries, chain, rows,
                    acctRows, acctChain, latest>>
    BY <1>2 DEF clientVars, chainVars, rowVars, keyVars
  <1>5. Lasting /\ ChainLasts
    BY <1>1, <1>2, PlaceLasts DEF keyVars
  <1>6. HandlerInv'
    BY <1>1, <1>2, <1>3, <1>4, <1>5, HandlerMoves
  <1>7. MoneyInv'
    <2>1. ~OwedAt(pc[h], arg[h]) /\ ~OwedAt(p, a) /\ ~ReturningAt(p, a)
      BY <1>2 DEF OwedAt, ReturningAt
    <2>. QED BY <1>1, <1>2, <1>3, <2>1, MoneyStands
  <1>8. ClientTypes'
    BY <1>1, <1>2, <1>3, <1>4 DEF ClientInv, ClientTypes
  <1>9. owner[h] = None
    <2>1. \A q \in Posting : "idle" \notin Awaited[q]
      BY AwaitedFacts, PostingFacts
    <2>. QED BY <1>1, <1>2, <2>1 DEF ClientInv, Serving
  <1>10. /\ owner'[h] = c /\ pc'[h] = p
         /\ \A g \in Handlers \ {h} : owner'[g] = owner[g] /\ pc'[g] = pc[g]
    BY <1>1, <1>2, <1>3 DEF ClientInv, ClientTypes, HandlerInv, Moves
  <1>11. Serving(owner', pc', cpc')
    <2>1. SUFFICES ASSUME NEW g \in Handlers, owner'[g] # None
                   PROVE  /\ cpc[owner'[g]] \in Posting /\ pc'[g] \in Awaited[cpc[owner'[g]]]
                          /\ \A f \in Handlers : owner'[f] = owner'[g] => f = g
      BY <1>4, Zenon DEF Serving
    <2>2. CASE g = h
      BY <1>2, <1>10, <2>2 DEF Out
    <2>3. CASE g # h
      <3>1. owner'[g] = owner[g] /\ pc'[g] = pc[g] /\ owner[g] # None /\ owner[g] # c
        BY <1>2, <1>10, <2>1, <2>3 DEF Out
      <3>2. /\ cpc[owner[g]] \in Posting /\ pc[g] \in Awaited[cpc[owner[g]]]
            /\ \A f \in Handlers : owner[f] = owner[g] => f = g
        BY <1>1, <3>1, Zenon DEF ClientInv, Serving
      <3>. QED BY <1>10, <3>1, <3>2
    <2>. QED BY <2>2, <2>3
  <1>12. ASSUME NEW b \in Clients
         PROVE  CFit(cpc'[b], dw'[b], nek'[b], par'[b], reply'[b], Out(b, owner'), chain')
    <2>1. CFit(cpc[b], dw[b], nek[b], par[b], reply[b], Out(b, owner), chain)
      BY <1>1 DEF ClientInv
    <2>2. CASE b = c
      <3>1. CFit(cpc[c], dw[c], nek[c], par[c], NoReply, TRUE, chain)
        BY <1>2, <2>1, <2>2 DEF CFit
      <3>2. Out(c, owner') = TRUE
        BY <1>2, <1>10 DEF Out
      <3>. QED BY <1>2, <1>3, <1>4, <2>2, <3>1, <3>2
    <2>3. CASE b # c
      <3>1. b # None
        BY PostingFacts
      <3>2. Out(b, owner') = Out(b, owner)
        BY <1>9, <1>10, <2>3, <3>1 DEF Out
      <3>. QED BY <1>3, <1>4, <2>1, <3>2
    <2>. QED BY <2>2, <2>3
  <1>13. ClientInv'
    BY <1>8, <1>11, <1>12 DEF ClientInv
  <1>. QED BY <1>1, <1>2, <1>6, <1>7, <1>13, StoreSame, KeysSame, PartsOfInv

LEMMA PostKeeps ==
  ASSUME SdkInv, NEW c \in Clients, Post(c)
  PROVE  SdkInv'
  <1>1. /\ ClientTypes /\ (dw[c] # None => chain[dw[c]].st # "none")
        /\ (cpc[c] \in NeedsDWallet => dw[c] # None)
    BY ClientFacts
  <1>2. /\ dw[c] \in DWallets \cup {None} /\ nek[c] \in NEKs \cup {None}
    BY <1>1 DEF ClientTypes
  <1>3. /\ NoArg \in ArgType /\ NoArg.dw = None /\ NoArg.ek = None
        /\ {"ekFind", "netRead", "ppRead", "find", "acRead", "nekRead"} \subseteq PCs
    BY IdleFits DEF NoArg, PCs
  <1>4. ASSUME NEW p \in {"ekFind", "netRead", "ppRead"}
        PROVE  HFit(p, NoArg, chain, rows, acctRows, acctChain, latest)
    BY <1>3, AwaitedFacts DEF HFit, HasLanded
  <1>5. CASE cpc[c] = "postKey" /\ Request(c, "ekFind", NoArg)
    BY <1>3, <1>4, <1>5, AwaitedFacts, RequestKeeps DEF Posting
  <1>6. CASE cpc[c] = "net" /\ nek[c] = None /\ Request(c, "netRead", NoArg)
    BY <1>3, <1>4, <1>6, AwaitedFacts, RequestKeeps DEF Posting
  <1>7. CASE cpc[c] \in {"net", "par"} /\ par[c] = None /\ Request(c, "ppRead", NoArg)
    BY <1>3, <1>4, <1>7, AwaitedFacts, RequestKeeps DEF Posting
  <1>8. CASE /\ cpc[c] = "postDkg"
             /\ Request(c, "find", [NoArg EXCEPT !.nek = nek[c], !.fit = (par[c] = nek[c])])
    <2>. DEFINE a == [NoArg EXCEPT !.nek = nek[c], !.fit = (par[c] = nek[c])]
    <2>1. a \in ArgType /\ a.dw = None /\ a.ek = None
      BY <1>2, <1>3 DEF ArgType
    <2>. HIDE DEF a
    <2>2. HFit("find", a, chain, rows, acctRows, acctChain, latest)
      BY <2>1, AwaitedFacts DEF HFit, HasLanded
    <2>. QED BY <1>3, <1>8, <2>1, <2>2, AwaitedFacts, RequestKeeps DEF Posting, a
  <1>9. CASE \/ cpc[c] = "postAccept" /\ Request(c, "acRead", [NoArg EXCEPT !.dw = dw[c]])
             \/ cpc[c] = "prepare" /\ Request(c, "nekRead", [NoArg EXCEPT !.dw = dw[c]])
    <2>. DEFINE a == [NoArg EXCEPT !.dw = dw[c]]
    <2>1. PICK p \in {"acRead", "nekRead"} :
            /\ Request(c, p, a) /\ p \in Awaited[cpc[c]] /\ cpc[c] \in {"postAccept", "prepare"}
      BY <1>9, AwaitedFacts
    <2>2. a \in ArgType /\ a.dw = dw[c] /\ dw[c] # None
      BY <1>1, <1>2, <1>3, <2>1 DEF ArgType, NeedsDWallet
    <2>. HIDE DEF a
    <2>3. HFit(p, a, chain, rows, acctRows, acctChain, latest)
      BY <1>1, <2>2, AwaitedFacts DEF HFit
    <2>. QED BY <1>3, <2>1, <2>2, <2>3, RequestKeeps DEF Posting
  <1>. QED BY <1>5, <1>6, <1>7, <1>8, <1>9, Zenon DEF Post

\* What does not move any ceremony.
LEMMA AsideKeeps ==
  ASSUME SdkInv,
         \/ InvalidateParams \/ \E b \in {"live", "gone"} : DropWorker(b)
         \/ \E c \in Clients : SignWorker(c)
  PROVE  SdkInv'
  <1>1. ClientTypes
    BY PartsOfInv DEF ClientInv
  <1>2. /\ UNCHANGED <<chainVars, rowVars, ledgerVars, pc, owner, arg, reply, keyVars,
                       cpc, dw, nek, par, tries>>
        /\ faults' = faults \/ faults' = faults + 1
        /\ params' \in {params, None} /\ bundle' \in {bundle, "live", "gone"}
        /\ dropped' \subseteq dropped \cup Clients
        /\ \/ sreq' = sreq
           \/ \E c \in Clients, st \in {"completed", "failed"} : sreq' = [sreq EXCEPT ![c] = st]
    BY DEF InvalidateParams, DropWorker, SignWorker, Fault, backVars
  <1>3. ClientTypes'
    <2>1. sreq' \in [Clients -> {"none", "prepared", "queued", "completed", "failed"}]
      BY <1>1, <1>2 DEF ClientTypes
    <2>. QED BY <1>1, <1>2, <2>1 DEF ClientTypes
  <1>4. UNCHANGED Backend
    BY <1>2 DEF Backend
  <1>5. \A c \in Clients : /\ cpc'[c] = cpc[c] /\ dw'[c] = dw[c] /\ nek'[c] = nek[c]
                           /\ par'[c] = par[c] /\ reply'[c] = reply[c]
    BY <1>2
  <1>. QED BY <1>3, <1>4, <1>5, ClientsStay

-----------------------------------------------------------------------------
(***************************************************************************)
(* The inductive invariant and the theorems.                               *)
(***************************************************************************)
LEMMA SdkStarts ==
  ASSUME Init
  PROVE  SdkInv
  <1>1. 1 \in NEKs
    BY OnboardingAssumption DEF NEKs
  <1>2. StoreInv
    <2>1. NoDWallet \in ChainType /\ NoRow \in RowType /\ NoRow.st = "none"
      BY DEF NoDWallet, ChainType, NoRow, RowType
    <2>. QED BY <2>1 DEF Init, BackInit, StoreInv, RowFits
  <1>3. HandlerInv
    <2>1. /\ NoArg \in ArgType /\ "idle" \in PCs
          /\ HFit("idle", NoArg, chain, rows, acctRows, acctChain, latest)
      <3>1. NoArg.dw = None /\ NoArg.ek = None
        BY DEF NoArg
      <3>. QED BY <3>1, AwaitedFacts DEF HFit, NoArg, ArgType, PCs
    <2>. QED BY <2>1 DEF Init, BackInit, HandlerInv
  <1>4. ClientInv
    <2>1. NoReply \in ReplyType /\ NoReply.dw = None /\ NoReply.res = "none"
      BY DEF NoReply, ReplyType
    <2>2. ClientTypes
      BY <1>1, <2>1 DEF Init, BackInit, ClientTypes, ClientPCs, Settled
    <2>3. \A h \in Handlers : owner[h] = None
      BY DEF Init, BackInit
    <2>4. Serving(owner, pc, cpc)
      BY <2>3 DEF Serving
    <2>5. ASSUME NEW c \in Clients
          PROVE  CFit(cpc[c], dw[c], nek[c], par[c], reply[c], Out(c, owner), chain)
      <3>1. ~Out(c, owner)
        BY <2>3, PostingFacts DEF Out
      <3>2. cpc[c] = "idle" /\ dw[c] = None /\ reply[c] = NoReply
        BY DEF Init, BackInit
      <3>. QED BY <2>1, <3>1, <3>2 DEF CFit
    <2>. QED BY <2>2, <2>4, <2>5 DEF ClientInv
  <1>5. MoneyInv
    <2>1. Owing = {} /\ Returning = {}
      BY DEF Init, BackInit, Owing, OwedAt, Returning
    <2>. QED BY <2>1, FS_EmptySet DEF Init, BackInit, MoneyInv
  <1>6. KeysInv
    <2>1. latest = 1 /\ paramsOf = [k \in NEKs |-> IF k = 1 THEN 1 ELSE None] /\ netInfo = None
      BY DEF Init, KeysInit
    <2>. QED BY <1>1, <2>1 DEF KeysInv, KeysTypeOK, LatestParamsRight, ParamsFit
  <1>. QED BY <1>2, <1>3, <1>4, <1>5, <1>6, PartsOfInv

LEMMA SdkSteps ==
  ASSUME SdkInv, [Next]_vars
  PROVE  SdkInv'
  <1>1. ASSUME NEW c \in Clients, Advance(c)
        PROVE  SdkInv'
    BY <1>1, AnswersTaken, GoingsKeep, GivingUpKeeps, HttpTimeoutKeeps, Zenon DEF Advance
  <1>2. ASSUME NEW c \in Clients,
               \/ OnboardStart(c) \/ AcceptAgain(c) \/ SignStart(c)
               \/ SignWorker(c) \/ Post(c) \/ Hang(c) \/ HangBreaks(c)
        PROVE  SdkInv'
    BY <1>2, OnboardStartKeeps, StartsKeep, AsideKeeps, PostKeeps, HangKeeps, GivingUpKeeps,
       Zenon
  <1>3. ASSUME NEW h \in Handlers, Step(h) \/ Crash(h), UNCHANGED <<keyVars, clientVars>>
        PROVE  SdkInv'
    BY <1>3, StepKeeps
  <1>4. ASSUME NEW h \in Handlers, KeyHandler(h), UNCHANGED clientVars
        PROVE  SdkInv'
    BY <1>4, KeyHandlerKeeps
  <1>5. CASE \/ RejectPending \/ \E b \in {"live", "gone"} : DropWorker(b)
             \/ \E d \in DWallets : Finalise(d)
             \/ InvalidateParams
             \/ (Revalidate \/ Rotate) /\ UNCHANGED clientVars
    BY <1>5, GivingUpKeeps, AsideKeeps, FinaliseKeeps, NetworkKeeps, Zenon
  <1>6. CASE UNCHANGED vars
    <2>1. UNCHANGED Backend /\ ClientTypes /\ ClientTypes'
      BY <1>6, PartsOfInv DEF Backend, vars, backVars, ClientInv, ClientTypes, clientVars
    <2>2. \A c \in Clients : /\ cpc'[c] = cpc[c] /\ dw'[c] = dw[c] /\ nek'[c] = nek[c]
                             /\ par'[c] = par[c] /\ reply'[c] = reply[c]
      BY <1>6 DEF vars, backVars, clientVars
    <2>. QED BY <2>1, <2>2, ClientsStay
  <1>7. ASSUME NEW c \in Clients,
               \/ Advance(c)
               \/ OnboardStart(c) \/ AcceptAgain(c) \/ SignStart(c)
               \/ SignWorker(c) \/ Post(c)
               \/ Hang(c) \/ HangBreaks(c)
        PROVE  SdkInv'
    BY <1>1, <1>2, <1>7
  <1>8. ASSUME NEW h \in Handlers,
               \/ (Step(h) \/ Crash(h)) /\ UNCHANGED <<keyVars, clientVars>>
               \/ KeyHandler(h) /\ UNCHANGED clientVars
        PROVE  SdkInv'
    BY <1>3, <1>4, <1>8
  <1>9. CASE Next
    BY ONLY <1>9, <1>5, <1>7, <1>8 DEF Next
  <1>. QED BY ONLY <1>6, <1>9, [Next]_vars

LEMMA SdkInvariant == Spec => []SdkInv
  BY SdkStarts, SdkSteps, PTL DEF Spec

\* Every variable of the backend, of its caches and of the clients keeps its type.
THEOREM SdkTypeCorrect == Spec => []TypeOK
  <1>1. SdkInv => TypeOK
    BY DEF SdkInv
  <1>. QED BY <1>1, SdkInvariant, PTL

\* What the dwallets rows say is so on chain, whatever handlers race, die or lose
\* their answers.
THEOREM RowsAreTrue == Spec => []RowsTellTheChain
  <1>1. SdkInv => RowsTellTheChain
    BY DEF SdkInv
  <1>. QED BY <1>1, SdkInvariant, PTL

\* Every charge of chargeWithRefund is accounted for.
THEOREM FeesAreAccounted == Spec => []FeesMatchWork
  <1>1. SdkInv => FeesMatchWork
    BY DEF SdkInv
  <1>. QED BY <1>1, SdkInvariant, PTL

\* The parameters served are those of the network's key, though a load may store
\* them under the wrong id.
THEOREM ParamsAreLatest == Spec => []LatestParamsRight
  <1>1. SdkInv => LatestParamsRight
    BY DEF SdkInv
  <1>. QED BY <1>1, SdkInvariant, PTL
=============================================================================
