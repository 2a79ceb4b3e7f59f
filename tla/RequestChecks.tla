---------------------------- MODULE RequestChecks ---------------------------
(***************************************************************************)
(* The checks that the API makes on the values of a request: networks, AWS *)
(* tags, names, issuer URLs, principals, trust bundles, the queue of the   *)
(* Spot termination handler.                                               *)
(*                                                                         *)
(* An address is its four octets and a CIDR is [ip, len]; only IPv4 is     *)
(* modelled.  An operator that may return an error returns a set: empty    *)
(* for the error, a singleton for the result.                              *)
(***************************************************************************)
EXTENDS Integers, Sequences, FiniteSets

(***************************************************************************)
(* network_cidr_validator.go.  networking is [machine, service, pod], each *)
(* a sequence of [cidr, hostPrefix]; cidr is a set, empty for an entry     *)
(* without one, and hostPrefix is 0 except in the pod networks.            *)
(***************************************************************************)
ServiceCIDRSubnetMax == 24
PodCIDRSubnetMax == 21
PodNodesMin == 32
HostPrefixMin == 23
HostPrefixMax == 26
DefaultHypershiftAdvertiseAddress == <<172, 20, 0, 1>>

\* net.IP.Mask, octet by octet.
Mask(ip, len) ==
    [i \in 1 .. 4 |->
        LET bits == len - 8 * (i - 1) IN
        IF bits >= 8 THEN ip[i] ELSE IF bits <= 0 THEN 0 ELSE ip[i] - (ip[i] % 2^(8 - bits))]

\* net.IPNet.Contains
Contains(n, ip) == Mask(ip, n.len) = n.ip

\* Mutant: only the addresses of the networks are compared.
Intersect_SameAddress(n, m) == n.ip = m.ip

Intersect(n, m) == Contains(m, n.ip) \/ Contains(n, m.ip)

ValidateCIDRValue(cidr, type) == /\ type = "service" => cidr.len <= ServiceCIDRSubnetMax
                                 /\ type = "pod" => cidr.len <= PodCIDRSubnetMax

ParseNetworkCIDR(cidr, type) ==
    IF ValidateCIDRValue(cidr, type) /\ Mask(cidr.ip, cidr.len) = cidr.ip THEN {cidr} ELSE {}

\* int64(math.Pow(2, hostPrefix - podSubnet)): a negative exponent truncates to 0.
PodNodes(hostPrefix, podSubnet) == IF hostPrefix < podSubnet THEN 0 ELSE 2^(hostPrefix - podSubnet)

ValidateHostPrefix(hostPrefix, pod) ==
    \/ hostPrefix = 0
    \/ /\ hostPrefix \in HostPrefixMin .. HostPrefixMax
       /\ PodNodes(hostPrefix, pod.len) >= PodNodesMin

Types == {"machine", "service", "pod"}

\* The entries of a list that parse, as <<list, index, network>>.
ParseNetworks(networking) ==
    UNION {UNION {UNION {{<<t, i, n>> : n \in ParseNetworkCIDR(c, t)} : c \in networking[t][i].cidr} :
                    i \in DOMAIN networking[t]} : t \in Types}

ParseNetworksOK(networking) ==
    \A t \in Types : \A i \in DOMAIN networking[t] : \A c \in networking[t][i].cidr :
        /\ ParseNetworkCIDR(c, t) # {}
        /\ t = "pod" => ValidateHostPrefix(networking[t][i].hostPrefix, c)

ValidateNetworkOverlaps(nets) ==
    \A a, b \in nets : (a[1] # b[1] \/ a[2] # b[2]) => ~Intersect(a[3], b[3])

ValidateHypershiftAPICollision(nets) ==
    \A a \in nets : ~Contains(a[3], DefaultHypershiftAdvertiseAddress)

ValidateNetworkCIDRs(networking) ==
    /\ ParseNetworksOK(networking)
    /\ ValidateNetworkOverlaps(ParseNetworks(networking))
    /\ ValidateHypershiftAPICollision(ParseNetworks(networking))

(***************************************************************************)
(* aws_tags.go.  tags is a function on tag keys; a key is <<class, n>>     *)
(* with class "plain", "aws" (a key under aws: in any case), "invalid" (a  *)
(* key that the pattern refuses, the empty key included), "managed"        *)
(* (red-hat-managed) or "ownership" (kubernetes.io/cluster/<id>).  A value *)
(* is "" , "invalid" or any other.                                         *)
(***************************************************************************)
MaxAWSResourceTags == 25
RedHatManagedTagKey == <<"managed", 0>>
ClusterOwnershipBudgetTagKey == <<"budget", 0>>

ValidateCustomerAWSTags(tags) ==
    \A k \in DOMAIN tags : k[1] \notin {"aws", "invalid"} /\ tags[k] \notin {"", "invalid"}

RenderedAWSTagCount(systemTagKeys, customerTagKeys) == Cardinality(systemTagKeys \cup customerTagKeys)

\* Mutant: nothing is reserved for the tag that says who owns the resource.
ValidateClusterAWSTagBudget_NoOwnership(customerTags) ==
    RenderedAWSTagCount({RedHatManagedTagKey}, DOMAIN customerTags) <= MaxAWSResourceTags

ValidateClusterAWSTagBudget(customerTags) ==
    RenderedAWSTagCount({RedHatManagedTagKey, ClusterOwnershipBudgetTagKey}, DOMAIN customerTags)
        <= MaxAWSResourceTags

ValidateNodePoolAWSTagBudget(clusterTags, nodePoolTags) ==
    RenderedAWSTagCount({RedHatManagedTagKey}, DOMAIN clusterTags \cup DOMAIN nodePoolTags)
        <= MaxAWSResourceTags

(***************************************************************************)
(* identity.go and hostedclustername.go.  A name is the sequence of its    *)
(* components [label, len]: whether the component is written as a DNS      *)
(* label is, and its length.                                               *)
(***************************************************************************)
DNS1123LabelMaxLength == 63
IsDNS1123Label(c) == c.label /\ c.len \in 1 .. DNS1123LabelMaxLength

ValidateClusterName(name) == Len(name) = 1 /\ IsDNS1123Label(name[1])

\* "cluster-", a UUID and a separator come before the name.
MaxClusterNameLengthWithoutDNSReservation == ((DNS1123LabelMaxLength - 8) - 36) - 1

ValidateClusterNameForDNSReservation(name, hasDNSReservation) ==
    /\ ValidateClusterName(name)
    /\ ~hasDNSReservation => name[1].len <= MaxClusterNameLengthWithoutDNSReservation

\* ParseNodePoolName: the cluster and the child.
ParseNodePoolName(name) ==
    IF Len(name) = 2 /\ \A i \in 1 .. 2 : IsDNS1123Label(name[i])
    THEN {[cluster |-> <<name[1]>>, child |-> <<name[2]>>]} ELSE {}

ValidateAccountNamespace(namespace, accountID) == namespace \in {<<>>, <<"account", accountID>>}

\* "hc-" and as much of the UID's letters and digits as the budget leaves; alnum is
\* how many the UID has.
HostedClusterNameFromDNSReservation(alnum) ==
    LET room == MaxClusterNameLengthWithoutDNSReservation - 3 IN
    IF alnum = 0 THEN <<>>
    ELSE <<[label |-> TRUE, len |-> 3 + (IF alnum < room THEN alnum ELSE room)]>>

(***************************************************************************)
(* oidcconfig.go, normalizeIssuerURL.  A URL is [scheme, user, host, case, *)
(* port, path, rest, len]: host a name without regard to its case (an IPv6 *)
(* address is not modelled), path the sequence of what stands between its  *)
(* slashes, rest a query or fragment.                                      *)
(***************************************************************************)
MaxIssuerURLLength == 2048


DefaultPort(port) == port \in {"", "443"}

\* strings.TrimRight(path, "/")
TrimRight(path) ==
    LET last == {i \in DOMAIN path : path[i] # ""} IN
    IF last = {} THEN <<>> ELSE SubSeq(path, 1, CHOOSE i \in last : \A j \in last : j <= i)

NormalizeIssuerURL(u) ==
    IF u.len \in 1 .. MaxIssuerURLLength /\ u.scheme = "https" /\ u.host # "" /\ u.user = ""
    THEN {[scheme |-> "https", user |-> "", host |-> u.host, case |-> "lower",
           port |-> IF DefaultPort(u.port) THEN "" ELSE u.port,
           path |-> TrimRight(u.path), rest |-> "", len |-> u.len]}
    ELSE {}

(***************************************************************************)
(* additional_allowed_principals.go, additional_trust_bundle.go, spot.go,  *)
(* and the checks of nodepool.go.                                          *)
(***************************************************************************)
MaxPrincipals == 25

\* An entry is [arn, valid, len]; Go tells two apart by their text.
ValidAdditionalAllowedPrincipal(e) == e.valid

ValidateAdditionalAllowedPrincipals(list) ==
    /\ Len(list) <= MaxPrincipals
    /\ \A i \in DOMAIN list : ValidAdditionalAllowedPrincipal(list[i]) /\ list[i].len <= 255
    /\ \A i, j \in DOMAIN list : list[i].arn = list[j].arn => i = j

\* blocks is what the text decodes to: "ca", another certificate "leaf", another PEM
\* block "other", or "text" for what is no PEM.
ValidatePEMTrustBundle(blocks) == blocks # <<>> /\ \A i \in DOMAIN blocks : blocks[i] = "ca"

MaxAdditionalTrustBundleBytes == 2^20

\* bundle is [empty, bytes, blocks].
ValidateAdditionalTrustBundle(bundle) ==
    \/ bundle.empty
    \/ bundle.bytes <= MaxAdditionalTrustBundleBytes /\ ValidatePEMTrustBundle(bundle.blocks)

\* queue is a set, empty for no queue, of [form, region, url].
ValidateSpotTerminationHandlerQueueURL(queue, region, existing) ==
    \A q \in queue : /\ q.form
                     /\ region # "" /\ q.region = region
                     /\ q.url \notin existing

\* replicas is a set, empty when the field is not given.
ValidateNodePoolReplicas(replicas) == \A n \in replicas : n >= 0

HttpTokens == {"required", "optional"}
ValidateNodePoolEC2InstanceMetadataHttpTokens(value) == value \in HttpTokens

-----------------------------------------------------------------------------
(* Properties, for one input. *)

\* The first and the last address of a network, in the order of addresses.
First(n) == Mask(n.ip, n.len)
Last(n) == [i \in 1 .. 4 |->
              LET host == 8 * i - n.len IN
              IF host <= 0 THEN First(n)[i]
              ELSE IF host >= 8 THEN 255 ELSE First(n)[i] + (2^host - 1)]

Before(a, b) == \/ a = b
                \/ \E i \in 1 .. 4 : a[i] < b[i] /\ \A j \in 1 .. (i - 1) : a[j] = b[j]

Meet(n, m) == Before(First(n), Last(m)) /\ Before(First(m), Last(n))

\* The networks of an accepted create request are pairwise apart and none holds the
\* address on which HyperShift advertises the API server; networks of the sizes that
\* are asked for and that are apart are accepted.  This is ValidateNetworkCIDRs
\* against the intervals of addresses that the networks are.
NetworksApart(networking) ==
    LET nets == {x \in Types \X (1 .. 2) : x[2] \in DOMAIN networking[x[1]]}
        Net(x) == CHOOSE c \in networking[x[1]][x[2]].cidr : TRUE
        advertised == [ip |-> DefaultHypershiftAdvertiseAddress, len |-> 32]
    IN  ValidateNetworkCIDRs(networking) <=>
            /\ \A x \in nets : First(Net(x)) = Net(x).ip /\ ~Meet(Net(x), advertised)
            /\ \A x, y \in nets : x # y => ~Meet(Net(x), Net(y))
            /\ \A x \in nets :
                 CASE x[1] = "service" -> Net(x).len <= 24
                   [] x[1] = "pod" ->
                        /\ Net(x).len <= 21
                        /\ LET h == networking.pod[x[2]].hostPrefix IN
                           h # 0 => h \in 23 .. 26 /\ h - Net(x).len >= 5
                   [] OTHER -> TRUE

\* normalizeIssuerURL reserves one Index entry for all spellings of an issuer: two
\* accepted URLs have the same form exactly when host, port and path agree up to case,
\* the default port and trailing slashes; and the form is its own form, so a second
\* pass changes nothing.
OneFormPerIssuer(u, v) ==
    LET nu == NormalizeIssuerURL(u)
        nv == NormalizeIssuerURL(v)
        Port(w) == IF w.port = "" THEN "443" ELSE w.port
        SamePath == \A i \in 1 .. 4 : LET At(p) == IF i <= Len(p) THEN p[i] ELSE "" IN
                                      At(u.path) = At(v.path)
    IN  nu # {} /\ nv # {} =>
          /\ (\A x \in nu, y \in nv : [x EXCEPT !.len = 0] = [y EXCEPT !.len = 0])
                <=> u.host = v.host /\ Port(u) = Port(v) /\ SamePath
          /\ \A x \in nu : NormalizeIssuerURL(x) = {x}

\* HyperShift puts a control plane into the namespace "cluster-<uid>-<name>": for every
\* name that is accepted without a reservation, and for every name that a reservation
\* gives, that is a DNS label; and there is such a name whenever the UID has a letter or
\* a digit.
NamesFit(name, reserved, alnum) ==
    LET FitsIn(n) == ((8 + 36) + 1) + n[1].len <= DNS1123LabelMaxLength /\ IsDNS1123Label(n[1])
        internal == HostedClusterNameFromDNSReservation(alnum)
    IN  /\ ValidateClusterNameForDNSReservation(name, reserved) /\ ~reserved => FitsIn(name)
        /\ internal # <<>> => FitsIn(internal)
        /\ alnum > 0 => internal # <<>>
=============================================================================
