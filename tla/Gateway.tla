------------------------------ MODULE Gateway ------------------------------
(***************************************************************************)
(* A capsule's egress gateway.  Policies are installed by separate         *)
(* processes under one lock: the kernel's ruleset first, the document the  *)
(* relay reads second.  The relay compiles the document when it sees that  *)
(* it changed, checks an address before it connects to it, and again while *)
(* a transfer runs.  Plain requests share pooled connections, which are    *)
(* not checked again when they are reused.  Names, ports and bytes are     *)
(* left out: a name may resolve to any address each time it is asked.      *)
(***************************************************************************)
EXTENDS Integers, FiniteSets

CONSTANTS
  Dests,        \* addresses
  Documents,    \* policies a reload may carry: the addresses they deny
  Transfers,    \* client connections
  Slots,        \* MaxProxyConnections
  MaxInstalls,  \* bound: installs after the first
  MaxPools      \* bound: connection pools made

ASSUME GatewayAssumption ==
  /\ Documents \subseteq SUBSET Dests /\ Slots \in Nat \ {0}
  /\ MaxInstalls \in Nat /\ MaxPools \in Nat \ {0}

VARIABLES
  installer,   \* the process that holds the policy lock
  ruleset,     \* what the ruleset denies
  document,    \* what the document denies; "none" before the first install
  torn,        \* the last install failed between its two halves
  installs,
  relay,       \* the relay's compiled document and its generation
  connPool,    \* the pool in force and the generation it was made for
  pools,       \* pools made so far
  idleConns,   \* connections nobody uses: their pool, address and generation
  transfer,    \* client connection: step and what is joined to it
  slotsTaken   \* slots taken

policyVars == <<installer, ruleset, document, torn, installs>>
relayVars  == <<relay, connPool, pools, idleConns>>
gatewayVars == <<policyVars, relayVars, transfer, slotsTaken>>

NoInstaller == [who |-> "nobody", at |-> "none", next |-> {}]
NoDocument == {"none"}
NoTransfer == [at |-> "none", kind |-> "none", seen |-> -1, pool |-> 0, policy |-> {}, gen |-> 0,
               dest |-> "none", ends |-> {}, open |-> FALSE]
Denies == Documents \cup {Dests}

GatewayTypeOK ==
  /\ installer \in [who : {"nobody", "boot", "reload", "close"}, at : {"none", "read", "built", "applied"},
                    next : Denies \cup {{}}]
  /\ ruleset \in Denies \cup {NoDocument} /\ document \in Denies \cup {NoDocument} /\ torn \in BOOLEAN
  /\ installs \in 0..MaxInstalls + 1
  /\ relay.doc \in Denies \cup {NoDocument} /\ relay.gen \in 0..MaxInstalls + 1
  /\ connPool.id \in 0..MaxPools /\ connPool.gen \in 0..MaxInstalls + 1 /\ pools \in 0..MaxPools
  /\ \A c \in idleConns : c.pool \in 1..MaxPools /\ c.dest \in Dests
  /\ \A t \in Transfers :
       /\ transfer[t].at \in {"none", "accepted", "chosen", "pooled", "dialing", "flow", "ended"}
       /\ transfer[t].kind \in {"none", "tunnel", "forward"} /\ transfer[t].seen \in -1..MaxInstalls + 1
       /\ transfer[t].dest \in Dests \cup {"none"} /\ transfer[t].ends \subseteq {"up", "down"}
  /\ slotsTaken \in 0..Slots

GatewayInit ==
  /\ installer = NoInstaller /\ ruleset = NoDocument /\ document = NoDocument /\ torn = FALSE /\ installs = 0
  /\ relay = [doc |-> NoDocument, gen |-> 0] /\ connPool = [id |-> 0, gen |-> 0] /\ pools = 0 /\ idleConns = {}
  /\ transfer = [t \in Transfers |-> NoTransfer] /\ slotsTaken = 0

-----------------------------------------------------------------------------
(* Installing a policy *)

\* Mutant: an installer does not wait for the one before it.
TakesLock_Never == TRUE

\* The lock is waited for.
TakesLock == installer = NoInstaller

\* The first install is the gateway's own; the others need a predecessor.
TakePolicyLock(who, deny) ==
  /\ TakesLock /\ installs <= MaxInstalls /\ installs' = installs + 1
  /\ who = "boot" <=> document = NoDocument
  /\ installer' = [who |-> who, at |-> "read", next |-> deny]
  /\ UNCHANGED <<ruleset, document, torn, relayVars, transfer, slotsTaken>>

\* The successor is built from the document in force: a reload brings its own
\* sets, a close denies everything and drops what was allowed.
BuildSuccessor ==
  /\ installer.at = "read"
  /\ installer' = [installer EXCEPT !.at = "built", !.next = IF installer.who = "close" THEN Dests ELSE @]
  /\ UNCHANGED <<ruleset, document, torn, installs, relayVars, transfer, slotsTaken>>

\* Mutant: the document is replaced while the ruleset is still the old one.
ApplyToKernel_Later(done) ==
  /\ installer.at = "built" /\ done
  /\ document' = installer.next /\ installer' = [installer EXCEPT !.at = "applied"]
  /\ UNCHANGED <<ruleset, torn, installs, relayVars, transfer, slotsTaken>>

\* The ruleset; the v4 half may be in when the call as a whole fails.
ApplyToKernel(done) ==
  /\ installer.at = "built" /\ ruleset' = installer.next
  /\ IF done THEN installer' = [installer EXCEPT !.at = "applied"] /\ UNCHANGED torn
     ELSE installer' = NoInstaller /\ torn' = TRUE
  /\ UNCHANGED <<document, installs, relayVars, transfer, slotsTaken>>

\* The document is replaced in one rename, and the lock given back.
ReplaceFile(done) ==
  /\ installer.at = "applied" /\ installer' = NoInstaller /\ torn' = ~done
  /\ document' = IF done THEN installer.next ELSE document
  /\ UNCHANGED <<ruleset, installs, relayVars, transfer, slotsTaken>>

InstallFails ==
  /\ installer.at \in {"read", "built"} /\ installer' = NoInstaller
  /\ UNCHANGED <<ruleset, document, torn, installs, relayVars, transfer, slotsTaken>>

-----------------------------------------------------------------------------
(* The relay's policy *)

\* What a read of the document leaves in the relay.
CurrentPolicy == IF relay.doc = document THEN relay ELSE [doc |-> document, gen |-> relay.gen + 1]

Readable == document # NoDocument

-----------------------------------------------------------------------------
(* Connections *)

SetTransfer(t, r) == transfer' = [transfer EXCEPT ![t] = r]

\* Over the quota a connection is closed at once and leaves no trace.
AcceptConn(t, kind) ==
  /\ Readable /\ transfer[t] = NoTransfer /\ slotsTaken < Slots
  /\ slotsTaken' = slotsTaken + 1
  /\ SetTransfer(t, [NoTransfer EXCEPT !.at = "accepted", !.kind = kind, !.open = TRUE])
  /\ UNCHANGED <<policyVars, relayVars>>

\* Mutant: every close gives the slot back.
ReleaseSlot_Twice(t) == slotsTaken' = slotsTaken - 1

\* A slot is given back by the first close only.
ReleaseSlot(t) == slotsTaken' = IF transfer[t].open THEN slotsTaken - 1 ELSE slotsTaken

\* dial reads the policy, resolves the name and connects to an address that
\* the policy it read allows; the ruleset may still refuse.
DialReads(t) ==
  /\ \/ transfer[t].at = "accepted" /\ transfer[t].kind = "tunnel"
     \/ transfer[t].at = "pooled" /\ ~\E c \in idleConns : c.pool = transfer[t].pool
  /\ relay' = CurrentPolicy
  /\ SetTransfer(t, [transfer[t] EXCEPT !.at = "dialing", !.policy = document, !.gen = CurrentPolicy.gen])
  /\ UNCHANGED <<policyVars, connPool, pools, idleConns, slotsTaken>>

DialConnects(t, d) ==
  /\ transfer[t].at = "dialing" /\ d \notin transfer[t].policy /\ d \notin ruleset
  /\ SetTransfer(t, [transfer[t] EXCEPT !.at = "flow", !.dest = d, !.policy = {}, !.ends = {"up", "down"}])
  /\ UNCHANGED <<policyVars, relayVars, slotsTaken>>

\* Refused by a policy that cannot be read, by the policy, by the ruleset or by
\* the other side: answered, and the client connection closed.
DialRefused(t) ==
  /\ transfer[t].at \in {"accepted", "pooled", "dialing"} /\ ReleaseSlot(t) /\ SetTransfer(t, NoTransfer)
  /\ UNCHANGED <<policyVars, relayVars>>

\* transportInForce: the policy is read, and generation zero stands for one
\* that cannot be.
ForwardReads(t, readable) ==
  /\ transfer[t].at = "accepted" /\ transfer[t].kind = "forward"
  /\ relay' = IF readable THEN CurrentPolicy ELSE relay
  /\ SetTransfer(t, [transfer[t] EXCEPT !.at = "chosen", !.seen = IF readable THEN CurrentPolicy.gen ELSE 0])
  /\ UNCHANGED <<policyVars, connPool, pools, idleConns, slotsTaken>>

TakePool(t, id) == SetTransfer(t, [transfer[t] EXCEPT !.at = "pooled", !.pool = id])

\* Mutant: a pool once made is kept.
PoolServes_Any(gen) == connPool.id > 0

\* The pool in force serves a generation that is its own or older.
PoolServes(gen) == connPool.id > 0 /\ (connPool.gen = gen \/ (gen > 0 /\ connPool.gen > gen))

\* The generation is read apart from the policy, and may be newer.  A pool that
\* is replaced loses its idle connections and is never handed out again.
PoolAt(t) ==
  LET gen == IF transfer[t].seen = 0 THEN 0 ELSE relay.gen IN
  /\ transfer[t].at = "chosen"
  /\ IF PoolServes(gen) THEN TakePool(t, connPool.id) /\ UNCHANGED <<connPool, pools, idleConns>>
     ELSE /\ pools < MaxPools /\ pools' = pools + 1 /\ connPool' = [id |-> pools + 1, gen |-> gen]
          /\ idleConns' = {c \in idleConns : c.pool # connPool.id} /\ TakePool(t, pools + 1)
  /\ UNCHANGED <<policyVars, relay, slotsTaken>>

\* A connection of the pool that nobody uses is taken without a dial.
Reuse(t, c) ==
  /\ transfer[t].at = "pooled" /\ c \in idleConns /\ c.pool = transfer[t].pool
  /\ idleConns' = idleConns \ {c}
  /\ SetTransfer(t, [transfer[t] EXCEPT !.at = "flow", !.dest = c.dest, !.gen = c.gen, !.ends = {"up", "down"}])
  /\ UNCHANGED <<policyVars, relay, connPool, pools, slotsTaken>>

-----------------------------------------------------------------------------
(* A transfer that runs *)

\* Mutant: the policy read at the dial is asked again.
StillAllowed_Dialed(t) == TRUE

\* The address of the socket under the document in force.
StillAllowed(t) == transfer[t].dest \notin document

\* An abnormal end closes both sides at once.
EndTransfer(t) == ReleaseSlot(t) /\ SetTransfer(t, [transfer[t] EXCEPT !.at = "ended", !.open = FALSE])

\* Once per interval, by either direction of a tunnel and by the watch of a
\* plain transfer: a destination no longer allowed, or a policy that cannot be
\* read, ends it.
Recheck(t, readable) ==
  /\ transfer[t].at = "flow" /\ ~(readable /\ StillAllowed(t))
  /\ relay' = IF readable THEN CurrentPolicy ELSE relay
  /\ EndTransfer(t) /\ UNCHANGED <<policyVars, connPool, pools, idleConns>>

\* A direction of a tunnel ends with its sender's close, and the other goes on.
HalfClose(t, e) ==
  /\ transfer[t].at = "flow" /\ transfer[t].kind = "tunnel" /\ e \in transfer[t].ends
  /\ SetTransfer(t, [transfer[t] EXCEPT !.ends = @ \ {e}, !.at = IF transfer[t].ends = {e} THEN "ended" ELSE "flow"])
  /\ UNCHANGED <<policyVars, relayVars, slotsTaken>>

\* A read or a write fails, or the tunnel was silent for too long.
TransferBreaks(t) ==
  /\ transfer[t].at = "flow" /\ EndTransfer(t) /\ UNCHANGED <<policyVars, relayVars>>

\* A response that is read to its end: the connection may go back to its pool,
\* retired or not, and the client may ask again on the same connection.
ResponseEnds(t, kept, again) ==
  /\ transfer[t].at = "flow" /\ transfer[t].kind = "forward"
  /\ LET conn == [pool |-> transfer[t].pool, dest |-> transfer[t].dest, gen |-> transfer[t].gen] IN
     idleConns' = IF kept THEN idleConns \cup {conn} ELSE idleConns
  /\ IF again THEN /\ SetTransfer(t, [NoTransfer EXCEPT !.at = "accepted", !.kind = "forward", !.open = TRUE])
                   /\ UNCHANGED slotsTaken
     ELSE ReleaseSlot(t) /\ SetTransfer(t, NoTransfer)
  /\ UNCHANGED <<policyVars, relay, connPool, pools>>

\* The handler returns and its own closes run.
HandlerReturns(t) ==
  /\ transfer[t].at = "ended" /\ ReleaseSlot(t) /\ SetTransfer(t, NoTransfer)
  /\ UNCHANGED <<policyVars, relayVars>>

TransferStep(t) ==
  \/ \E kind \in {"tunnel", "forward"} : AcceptConn(t, kind)
  \/ DialReads(t) \/ DialRefused(t) \/ PoolAt(t) \/ TransferBreaks(t) \/ HandlerReturns(t)
  \/ \E d \in Dests : DialConnects(t, d)
  \/ \E readable \in BOOLEAN : ForwardReads(t, readable) \/ Recheck(t, readable)
  \/ \E c \in idleConns : Reuse(t, c)
  \/ \E e \in {"up", "down"} : HalfClose(t, e)
  \/ \E kept, again \in BOOLEAN : ResponseEnds(t, kept, again)

InstallStep ==
  \/ \E who \in {"boot", "reload", "close"}, deny \in Documents : TakePolicyLock(who, deny)
  \/ BuildSuccessor \/ InstallFails
  \/ \E done \in BOOLEAN : ApplyToKernel(done) \/ ReplaceFile(done)

GatewayNext == InstallStep \/ \E t \in Transfers : TransferStep(t)

GatewaySpec == GatewayInit /\ [][GatewayNext]_gatewayVars

\* The tickers run, the document can be read, and a handler returns.
GatewayFairness ==
  \A t \in Transfers :
    WF_gatewayVars(Recheck(t, TRUE)) /\ WF_gatewayVars(HandlerReturns(t))

-----------------------------------------------------------------------------
(* Properties *)

\* Whenever no installer is at work the ruleset and the document agree, unless
\* the last install failed between them (the lock of installPolicyWith).
LayersAgree == installer = NoInstaller /\ ~torn => ruleset = document

\* A connection is made only to an address that the document allows, or that
\* the policy now being installed does, however long ago the relay read the
\* document for it (the order of installPolicyWith).
NewlyDeniedIsClosed ==
  [][\A t \in Transfers, d \in Dests :
       (transfer[t].at = "dialing" /\ transfer'[t].at = "flow" /\ transfer'[t].dest = d) =>
         torn \/ d \notin document \/ (installer.at = "applied" /\ d \notin installer.next)]_gatewayVars

\* A request that has seen a policy travels only on a connection that was
\* dialled under that policy or a later one, whoever dialled it (poolAt).
PoolIsCurrent ==
  \A t \in Transfers : (transfer[t].at = "flow" /\ transfer[t].seen > 0) => transfer[t].gen >= transfer[t].seen

\* Every slot that is taken has a connection that is open (limitConn).
SlotsAreHeld == slotsTaken = Cardinality({t \in Transfers : transfer[t].open})

\* What the gateway keeps twice agrees, whoever installs and whatever is on its
\* way: the ruleset with the document, a pooled connection with the policy of
\* the request on it, the slots with the open connections (installPolicyWith,
\* poolAt, limitConn).
GatewayAgrees == LayersAgree /\ PoolIsCurrent /\ SlotsAreHeld

\* A transfer whose destination the document has stopped allowing ends, unless
\* it is allowed again (destinationAllowed, stopOnRevocation, tunnelWith).
RevokedStops ==
  \A t \in Transfers :
    (transfer[t].at = "flow" /\ transfer[t].dest \in document)
      ~> (transfer[t].at # "flow" \/ transfer[t].dest \notin document)

\* A denial takes hold: no new connection is made to what an installed policy
\* denies, and a transfer that was under way ends (installPolicyWith,
\* stopOnRevocation).
RevocationHolds == NewlyDeniedIsClosed /\ RevokedStops
=============================================================================
