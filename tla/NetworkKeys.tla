------------------------------ MODULE NetworkKeys ------------------------------
(***************************************************************************)
(* What the backend tells a client about the network's encryption key: GET *)
(* /v1/network, out of a cache that serves a stale entry while it reloads  *)
(* (network/service.ts, mutableCache), and GET /v1/protocol-parameters,    *)
(* out of a cache whose entries never expire (protocol-parameters/         *)
(* service.ts, immutableCache).  One pod, network and curve.  The requests *)
(* are handlers of module Onboarding.  A key is numbered by its epoch: a   *)
(* reconfiguration always brings a new one.                                *)
(***************************************************************************)
EXTENDS Onboarding

VARIABLES
    latest,    \* the network's encryption key
    netInfo,   \* cached network info: the key it names
    paramsOf   \* parameters cache: by key id, the key the bytes belong to

keyVars == <<latest, netInfo, paramsOf>>

KeysTypeOK ==
    /\ latest \in NEKs
    /\ netInfo \in NEKs \cup {None}
    /\ paramsOf \in [NEKs -> NEKs \cup {None}]

\* warmupProtocolParameters has run before the pod listens.  (A curve that it
\* skips misses later, as every curve does after a reconfiguration.)
KeysInit ==
    /\ latest = 1
    /\ netInfo = None
    /\ paramsOf = [k \in NEKs |-> IF k = 1 THEN 1 ELSE None]

OnlyReads == UNCHANGED <<chainVars, rowVars, ledgerVars, faults, latest>>

\* getNetworkInfo: cache.fetch loads an absent entry and returns a present one,
\* however old.
GetNetworkInfo(h) ==
    /\ pc[h] = "netRead"
    /\ netInfo' = IF netInfo = None THEN latest ELSE netInfo
    /\ Answer(h, [NoReply EXCEPT !.res = "ok", !.nek = netInfo'])
    /\ OnlyReads /\ UNCHANGED paramsOf

\* The soft TTL has passed: a read starts the reload that replaces the entry.
Revalidate ==
    /\ netInfo # None /\ netInfo # latest
    /\ netInfo' = latest
    /\ UNCHANGED <<latest, paramsOf, backVars>>

\* getProtocolParameters asks for the latest key and looks its id up.
ParamsHit(h) ==
    /\ pc[h] = "ppRead" /\ paramsOf[latest] # None
    /\ Answer(h, [NoReply EXCEPT !.res = "ok", !.par = paramsOf[latest]])
    /\ OnlyReads /\ UNCHANGED <<netInfo, paramsOf>>

ParamsMiss(h) ==
    /\ pc[h] = "ppRead" /\ paramsOf[latest] = None
    /\ arg' = [arg EXCEPT ![h].nek = latest]
    /\ Goto(h, "ppLoad")
    /\ OnlyReads /\ UNCHANGED <<netInfo, paramsOf, owner, reply>>

\* Mutant: the bytes are loaded for the key the network info cache names.
ParamsLoad_CachedKey(h) ==
    /\ pc[h] = "ppLoad" /\ netInfo # None
    /\ paramsOf' = [paramsOf EXCEPT ![arg[h].nek] = netInfo]
    /\ Answer(h, [NoReply EXCEPT !.res = "ok", !.par = netInfo])
    /\ OnlyReads /\ UNCHANGED netInfo

\* getProtocolPublicParameters(undefined, curve) reads whatever key is the
\* latest by then; the bytes are kept under the id read before.
ParamsLoad(h) ==
    /\ pc[h] = "ppLoad"
    /\ paramsOf' = [paramsOf EXCEPT ![arg[h].nek] = latest]
    /\ Answer(h, [NoReply EXCEPT !.res = "ok", !.par = latest])
    /\ OnlyReads /\ UNCHANGED netInfo

\* A call to the chain fails: the route answers 500.
KeyReadFails(h) ==
    /\ pc[h] \in {"netRead", "ppRead", "ppLoad"}
    /\ Finish(h, "error")
    /\ OnlyReads /\ UNCHANGED <<netInfo, paramsOf>>

\* A reconfiguration of the network.
Rotate ==
    /\ latest + 1 \in NEKs /\ Fault
    /\ latest' = latest + 1
    /\ UNCHANGED <<netInfo, paramsOf, chainVars, rowVars, ledgerVars, pc, owner,
                   arg, reply>>

KeyHandler(h) ==
    GetNetworkInfo(h) \/ ParamsHit(h) \/ ParamsMiss(h) \/ ParamsLoad(h)
    \/ KeyReadFails(h)

-----------------------------------------------------------------------------
\* A read of the parameters is never answered with those of a key the network
\* has left: a load that a reconfiguration overtakes leaves wrong bytes under an
\* id that is not asked for again (protocol-parameters/service.ts).
LatestParamsRight == paramsOf[latest] \in {None, latest}
=============================================================================
