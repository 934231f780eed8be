------------------------------- MODULE MCHost -------------------------------
(***************************************************************************)
(* What the controller keeps in order outside itself, side by side: the    *)
(* disk, the daemon's objects, the egress policy and what it means, a      *)
(* gateway, and a scale set at the provider.  As in MCBooks the parts      *)
(* share no variable and a behaviour is one of a single part.              *)
(***************************************************************************)
EXTENDS DiskPressure, Resources, Sandbox, Gateway, EgressPolicy, ScaleSets

VARIABLE part

MCCreateOrder == <<"network", "volume", "container">>

\* Sixteen addresses: 0 and 1 are this network, 2 and 3 loopback, 4 to 7 link-
\* local, 8 to 11 public, 12 and 13 private, 14 and 15 reserved; nothing reaches
\* 0, loopback and 15.
IpRange(a, b) == [addr |-> [i \in 1..Width |-> (a \div 2^(Width - i)) % 2], bits |-> b]
MCBaselineDeny == {IpRange(0, 3), IpRange(2, 3), IpRange(4, 2), IpRange(12, 3), IpRange(14, 3), IpRange(15, 4)}
MCUnreachable == {IpRange(0, 4), IpRange(2, 3), IpRange(15, 4)}
MCLinkLocal == IpRange(4, 2)
AllRanges == {p \in Prefixes : \A i \in 1..Width : i > p.bits => p.addr[i] = 0}

\* Every single allow, and every one beside a link-local, a public or a private one.
MCAllows ==
  {{}} \cup {{p} : p \in AllRanges} \cup
  {{p, q} : p \in AllRanges, q \in {IpRange(7, 4), IpRange(10, 4), IpRange(12, 3)}}
MCHostSubnets == {{}, {IpRange(8, 2)}, {IpRange(10, 3)}, {IpRange(12, 2)}}
MCDenyCIDRs == {{}, {IpRange(0, 0)}}

HostInit ==
  /\ part \in {"pressure", "resources", "sandbox", "gateway", "policy", "scalesets"}
  /\ PressureInit /\ ResourcesInit /\ SandboxInit /\ GatewayInit /\ ScaleSetsInit
  /\ EgressInit /\ (part # "policy" => policy = [allow |-> {}, deny |-> BaselineDeny])

PressurePart ==
  part = "pressure" /\ PressureNext /\ UNCHANGED <<part, resVars, boxVars, gatewayVars, policy, setVars>>

ResourcesPart ==
  part = "resources" /\ ResourcesNext /\ UNCHANGED <<part, pressureVars, boxVars, gatewayVars, policy, setVars>>

SandboxPart ==
  part = "sandbox" /\ SandboxNext /\ UNCHANGED <<part, pressureVars, resVars, gatewayVars, policy, setVars>>

GatewayPart ==
  part = "gateway" /\ GatewayNext /\ UNCHANGED <<part, pressureVars, resVars, boxVars, policy, setVars>>

PolicyPart ==
  part = "policy" /\ EgressNext /\ UNCHANGED <<part, pressureVars, resVars, boxVars, gatewayVars, setVars>>

ScaleSetsPart ==
  part = "scalesets" /\ ScaleSetsNext /\ UNCHANGED <<part, pressureVars, resVars, boxVars, gatewayVars, policy>>

HostNext == PressurePart \/ ResourcesPart \/ SandboxPart \/ GatewayPart \/ PolicyPart \/ ScaleSetsPart

\* The fairness of each part, for the behaviours that are that part's.
HostFairness ==
  /\ WF_pressureVars(part = "pressure" /\ PressurePass)
  /\ \A l \in ResLeases : WF_resVars(part = "resources" /\ RemovalStep(l))
  /\ WF_resVars(part = "resources" /\ SweepGoesOn)
  /\ WF_resVars(part = "resources" /\ ControllerBegins)
  /\ WF_boxVars(part = "sandbox" /\ Watch)
  /\ WF_boxVars(part = "sandbox" /\ BoxPass)
  /\ WF_boxVars(part = "sandbox" /\ CloseGateways)
  /\ \A t \in Transfers :
       /\ WF_gatewayVars(part = "gateway" /\ Recheck(t, TRUE))
       /\ WF_gatewayVars(part = "gateway" /\ HandlerReturns(t))
  /\ WF_setVars(part = "scalesets" /\ EnsurePass)

HostSpec ==
  /\ HostInit /\ [][HostNext]_<<pressureVars, resVars, boxVars, gatewayVars, policy, setVars, part>>
  /\ HostFairness

\* Every part keeps its types.
HostTypeOK ==
  CASE part = "pressure" -> PressureTypeOK
    [] part = "resources" -> ResourcesTypeOK
    [] part = "sandbox" -> SandboxTypeOK
    [] part = "gateway" -> GatewayTypeOK
    [] part = "policy" -> EgressTypeOK
    [] part = "scalesets" -> ScaleSetsTypeOK
=============================================================================
