---------------------------- MODULE EgressPolicy ----------------------------
(***************************************************************************)
(* What a policy means: which allows are accepted, which addresses the     *)
(* relay connects to, and which the ruleset made from the same policy lets *)
(* out.  An address is its Width bits, and the tables of withheld and of   *)
(* unreachable ranges are parameters.  Text that is no IPv4 prefix, which  *)
(* is refused in an allow and left out of a deny, is not in the model.     *)
(***************************************************************************)
EXTENDS Integers

CONSTANTS
  Width,         \* bits of an address
  BaselineDeny,  \* the ranges the profile withholds
  Unreachable,   \* the ranges no connection reaches
  LinkLocal,     \* a range of the baseline, reopened one address at a time
  Allows,        \* what the configuration's allowPrivateCIDRs may be
  DenyCIDRs,     \* what the configuration's denyCIDRs may be, all of IPv4 included
  HostSubnets    \* what the host's and the daemon's networks may be

Addresses == [1..Width -> {0, 1}]

\* A prefix is given by any address in it and a number of leading bits.
Prefixes == [addr : Addresses, bits : 0..Width]

ASSUME EgressAssumption ==
  /\ Width \in Nat
  /\ BaselineDeny \subseteq Prefixes /\ Unreachable \subseteq Prefixes
  /\ LinkLocal \in BaselineDeny
  /\ LinkLocal.bits # 0
  /\ Allows \subseteq SUBSET Prefixes
  /\ DenyCIDRs \subseteq SUBSET Prefixes /\ HostSubnets \subseteq SUBSET Prefixes

VARIABLE policy   \* the policy a gateway enforces: what it allows and denies

Contains(p, a) == \A i \in 1..p.bits : a[i] = p.addr[i]
WholeSpace == [addr |-> [i \in 1..Width |-> 0], bits |-> 0]

-----------------------------------------------------------------------------
(* Which policies are accepted *)

\* Mutant: a range of link-local is refused only when it is all of it.
ReopensLinkLocal_Whole(p) == p.bits <= LinkLocal.bits /\ Contains(p, LinkLocal.addr)

Overlaps(p, q) == \A i \in 1..Width : (i <= p.bits /\ i <= q.bits) => p.addr[i] = q.addr[i]
ReopensLinkLocal(p) == Overlaps(p, LinkLocal) /\ p.bits # Width

\* Mutant: asks whether the withheld range holds the allow's own address.
WidensBaselineDeny_Inside(p) == \E d \in BaselineDeny : p.bits < d.bits /\ Contains(d, p.addr)

WidensBaselineDeny(p) == \E d \in BaselineDeny : p.bits < d.bits /\ Contains(p, d.addr)

RefusedOutright(p) == \E r \in Unreachable : r.bits <= p.bits /\ Contains(r, p.addr)

Validate(allow, deny) ==
  /\ deny # {}
  /\ \A p \in allow : ~WidensBaselineDeny(p) /\ ~RefusedOutright(p) /\ ~ReopensLinkLocal(p)

\* The operator's denies extend what was discovered.
BuildDeny(subnets, denies) == BaselineDeny \cup subnets \cup denies

\* Mutant: the successor is the policy in force with another deny set.
DenyAllSuccessor_Copies == [policy EXCEPT !.deny = {WholeSpace}]

\* What is installed when nothing can be proved of the host.
DenyAllSuccessor == [allow |-> {}, deny |-> {WholeSpace}]

-----------------------------------------------------------------------------
(* What they mean *)

Reachable(a) == \A r \in Unreachable : ~Contains(r, a)

\* The relay: an allow wins over everything but an address that cannot be reached.
Allowed(p, a) ==
  /\ Reachable(a)
  /\ \/ \E c \in p.allow : Contains(c, a)
     \/ ~Contains(LinkLocal, a) /\ ~\E c \in p.deny : Contains(c, a)

\* Mutant: the rejects are rendered before the accepts.
Rendered_DenyFirst(p, a) == ~\E c \in p.deny : Contains(c, a)

\* The kernel: the first rule of OUTPUT that matches, after loopback's.
Rendered(p, a) == (\E c \in p.allow : Contains(c, a)) \/ ~\E c \in p.deny : Contains(c, a)

-----------------------------------------------------------------------------
EgressInit ==
  \E allow \in Allows, subnets \in HostSubnets, denies \in DenyCIDRs :
    /\ Validate(allow, BuildDeny(subnets, denies))
    /\ policy = [allow |-> allow, deny |-> BuildDeny(subnets, denies)]

\* The networks of the host are another set, and the gateway is told.
ReloadPolicy(allow, subnets, denies) ==
  /\ Validate(allow, BuildDeny(subnets, denies))
  /\ policy' = [allow |-> allow, deny |-> BuildDeny(subnets, denies)]

DenyAll == policy' = DenyAllSuccessor

EgressNext ==
  \/ DenyAll
  \/ \E allow \in Allows, subnets \in HostSubnets, denies \in DenyCIDRs : ReloadPolicy(allow, subnets, denies)

EgressSpec == EgressInit /\ [][EgressNext]_policy

-----------------------------------------------------------------------------
(* Properties *)

\* The policy in force is one that was accepted.
EgressTypeOK ==
  policy \in [allow : SUBSET Prefixes, deny : SUBSET Prefixes] /\ Validate(policy.allow, policy.deny)

\* The relay and the kernel, which read the same policy in two forms, let out
\* the same addresses of those a connection can have at all: neither layer
\* refuses in silence what the other admits (Allowed, RenderIPTables).
RelayMatchesKernel == \A a \in Addresses : Reachable(a) => (Allowed(policy, a) <=> Rendered(policy, a))

\* A link-local address is reached only by an entry that names it alone
\* (ReopensLinkLocal).
LinkLocalIsNamed ==
  \A a \in Addresses :
    Contains(LinkLocal, a) /\ Allowed(policy, a) => \E p \in policy.allow : p.bits = Width /\ p.addr = a

\* No allow reaches all of a range the profile withholds, other than a range
\* the operator named as such (WidensBaselineDeny).
WithheldRangesStay ==
  \A p \in policy.allow, d \in BaselineDeny :
    (\A a \in Addresses : Contains(d, a) => Contains(p, a)) => p.bits = d.bits

\* A gateway that carries the deny set of denyAllSuccessor reaches nothing,
\* whatever its policy allowed before (the successor drops the allows).  An
\* operator's own deny of all of IPv4 stands beside the baseline and leaves the
\* allows their meaning.
ClosedReachesNothing ==
  policy.deny = DenyAllSuccessor.deny => \A a \in Addresses : ~Allowed(policy, a)

\* What is accepted as a policy means the same to both layers and reopens
\* nothing by accident, and what closes a gateway closes it (Validate, Allowed,
\* RenderIPTables, denyAllSuccessor).
PolicyIsSound == RelayMatchesKernel /\ LinkLocalIsNamed /\ WithheldRangesStay /\ ClosedReachesNothing
=============================================================================
