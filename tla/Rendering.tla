------------------------------ MODULE Rendering -----------------------------
(***************************************************************************)
(* What the operator makes of a Cluster and of a NodePool on the           *)
(* management cluster: the resources of package render and the snapshot of *)
(* them in the database.                                                   *)
(*                                                                         *)
(* A Cluster is [uid, ns, name, hcName, bundle, oidcConfigID, accountID,   *)
(* tags, hosted]: hcName is spec.hostedClusterName, bundle a set, empty    *)
(* for nil, and hosted the passthrough of the customer's fields.  A        *)
(* NodePool is [ns, name, tags, labels, httpTokens, autoRepair,            *)
(* unavailable, surge, pool].  Optional fields are sets.  A name that the  *)
(* code puts together is the tuple of its parts.  An operator that may     *)
(* return an error returns a set, empty for the error.                     *)
(***************************************************************************)
EXTENDS RequestChecks, TLC

Net(a, b, len) == [cidr |-> {[ip |-> <<a, b, 0, 0>>, len |-> len]}, hostPrefix |-> 0]

(***************************************************************************)
(* types.go, convert.go                                                    *)
(***************************************************************************)
Pending == "uid-pending"

HostedClusterName(cluster) ==
    IF cluster.hcName \notin {"", Pending} THEN cluster.hcName ELSE cluster.name

ManagementNamespace(clusterUID) == <<"cluster", clusterUID>>

ClusterLabels(clusterUID) == {<<"cluster-id", clusterUID>>}
ClusterResourceLabels(clusterUID, type) == ClusterLabels(clusterUID) \cup {<<"resource-type", type>>}

\* The namespace of a Cluster that the database has given a UID.
ManagementClusterIdentity(cluster) ==
    IF cluster.uid = "" THEN {} ELSE {[uid |-> cluster.uid, ns |-> ManagementNamespace(cluster.uid)]}

Resource(group, resource, ns, name, object) ==
    [group |-> group, resource |-> resource, ns |-> ns, name |-> name, object |-> object]

ExternalSecret(store, target, policy, remote, labels) ==
    [store |-> store, target |-> target, policy |-> policy, remote |-> remote, labels |-> labels]

\* The JSON round trip: fields that HyperShift has too keep their values, its other
\* fields are not set.
HostedClusterFields ==
    {"infraID", "issuerURL", "baseDomain", "zoneIDs", "pullSecret", "sshKey", "apiDNSName", "services",
     "servingCerts", "configuration", "trustBundle", "etcd", "networkType", "infraAvailability",
     "controllerAvailability", "machine", "service", "pod", "aws", "signingKey", "release"}

ToHostedClusterSpec(p) == [f \in HostedClusterFields |-> IF f \in DOMAIN p THEN p[f] ELSE ""]

NodePoolFields == {"clusterName", "release", "upgradeType", "replace", "inPlace", "autoRepair",
                   "nodeLabels", "replicas", "autoScaling", "aws"}

ToNodePoolSpec(p) == [f \in NodePoolFields |-> IF f \in DOMAIN p THEN p[f] ELSE ""]

(***************************************************************************)
(* cluster.go                                                              *)
(***************************************************************************)
SecretName(accountID, configID) == <<"/seaplane/oidc", accountID, configID, "signing-key">>

OidcSigningKeySecretStorePath(accountID, oidcConfigID) == SecretName(accountID, oidcConfigID)

OidcSigningKeyName == "oidc-signing-key"
AdditionalTrustBundleName == "additional-trust-bundle"

OidcSigningKeySecret(accountID, oidcConfigID, clusterID, ns) ==
    Resource("external-secrets.io", "externalsecrets", ns, OidcSigningKeyName,
             ExternalSecret("rc-secrets-manager", OidcSigningKeyName, "Owner",
                            OidcSigningKeySecretStorePath(accountID, oidcConfigID),
                            ClusterResourceLabels(clusterID, OidcSigningKeyName)))

Namespace(clusterID, ns) ==
    Resource("", "namespaces", <<>>, ns,
             [labels |-> ClusterResourceLabels(clusterID, "namespace") \cup {<<"managed-by", "operator">>}])

ClusterConfig(clusterID, clusterName, ns) ==
    Resource("", "configmaps", ns, "cluster-config",
             [labels |-> ClusterLabels(clusterID), data |-> <<clusterID, clusterName>>])

AdditionalTrustBundle(clusterID, ns, bundle) ==
    Resource("", "configmaps", ns, AdditionalTrustBundleName,
             [labels |-> ClusterResourceLabels(clusterID, AdditionalTrustBundleName), data |-> <<bundle>>])

PullSecret(clusterID, ns) ==
    Resource("external-secrets.io", "externalsecrets", ns, "pull-secret",
             ExternalSecret("aws-parameter-store", "pull-secret", "Orphan", <<"/infra/pull-secret">>,
                            ClusterResourceLabels(clusterID, "pull-secret")))

ApiServingCert(clusterID, hostedClusterName, baseDomain, ns) ==
    Resource("cert-manager.io", "certificates", ns, "api-serving-cert",
             [labels |-> ClusterLabels(clusterID), secretName |-> "api-serving-cert",
              dnsNames |-> {<<"*", hostedClusterName, baseDomain>>}])

SshKey(clusterID, ns) == Resource("", "secrets", ns, "ssh-key", [labels |-> ClusterLabels(clusterID)])

\* Konnectivity and Ignition have routes without a host name.
ServicePublishingStrategies(hostedClusterName, baseDomain) ==
    [APIServer |-> {<<"api", hostedClusterName, baseDomain>>},
     OAuthServer |-> {<<"oauth", hostedClusterName, baseDomain>>},
     Konnectivity |-> {}, Ignition |-> {}]

ApiServerConfiguration == {"api-serving-cert"}

DefaultEtcdSpec == [managementType |-> "Managed", storage |-> "32Gi gp3"]

\* The tags as a set of pairs: the code sorts them, so that a render is like another.
AppendSystemTags(clusterID, customerTags) ==
    LET system == {<<RedHatManagedTagKey, "true">>}
                  \cup (IF clusterID = "" THEN {} ELSE {<<<<"ownership", clusterID>>, "owned">>})
        seen   == {t[1] : t \in system}
    IN  system \cup {<<k, customerTags[k]>> : k \in DOMAIN customerTags \ seen}

\* path.Base of the issuer's URL, given as what stands between its slashes.
PathBase(url) == LET p == TrimRight(url) IN IF p = <<>> THEN "." ELSE p[Len(p)]

\* The issuer that the API gives a Cluster without an OidcConfig (createClusterResource).
ManagedIssuerURL(base, clusterUID) == IF base = <<>> THEN <<>> ELSE TrimRight(base) \o <<clusterUID>>

DefaultPod == Net(10, 132, 14)
DefaultService == Net(172, 31, 16)
DefaultMachine == Net(10, 0, 16)

Default(value, unset, default) == IF value = unset THEN default ELSE value

HostedClusterSpec(cluster, clusterID, hostedClusterName, external, baseDomain) ==
    LET p == ToHostedClusterSpec(cluster.hosted) IN
    [p EXCEPT
        !.infraID = IF cluster.oidcConfigID # "" /\ ~external THEN PathBase(p.issuerURL) ELSE clusterID,
        !.baseDomain = baseDomain,
        !.zoneIDs = {},
        !.pullSecret = "pull-secret",
        !.sshKey = "ssh-key",
        !.apiDNSName = <<"api", hostedClusterName, baseDomain>>,
        !.services = ServicePublishingStrategies(hostedClusterName, baseDomain),
        !.servingCerts = ApiServerConfiguration,
        \* the passthrough has no bundle of its own
        !.trustBundle = IF cluster.bundle \subseteq {""} THEN {} ELSE {AdditionalTrustBundleName},
        !.etcd = Default(p.etcd, {}, {DefaultEtcdSpec}),
        !.networkType = Default(p.networkType, "", "OVNKubernetes"),
        !.infraAvailability = Default(p.infraAvailability, "", "HighlyAvailable"),
        !.controllerAvailability = Default(p.controllerAvailability, "", "HighlyAvailable"),
        !.pod = Default(p.pod, <<>>, <<DefaultPod>>),
        !.service = Default(p.service, <<>>, <<DefaultService>>),
        !.machine = Default(p.machine, <<>>, <<DefaultMachine>>),
        !.aws = {[a EXCEPT !.endpointAccess = "PublicAndPrivate",
                           !.resourceTags = AppendSystemTags(clusterID, cluster.tags)] : a \in p.aws},
        !.signingKey = IF external THEN {OidcSigningKeyName} ELSE {}]

HostedCluster(cluster, clusterID, ns, hostedClusterName, external, baseDomain) ==
    Resource("hypershift.openshift.io", "hostedclusters", ns, hostedClusterName,
             [labels |-> ClusterLabels(clusterID),
              spec |-> HostedClusterSpec(cluster, clusterID, hostedClusterName, external, baseDomain)])

\* Mutant: neither the trust bundle nor the signing key is rendered.
ClusterResources_Conditional(cluster, external, baseDomain) ==
    LET hc == HostedClusterName(cluster) IN
    {<<Namespace(x.uid, x.ns), ClusterConfig(x.uid, cluster.name, x.ns), PullSecret(x.uid, x.ns),
       ApiServingCert(x.uid, hc, baseDomain, x.ns),
       HostedCluster(cluster, x.uid, x.ns, hc, external, baseDomain), SshKey(x.uid, x.ns)>> :
        x \in ManagementClusterIdentity(cluster)}

\* The signing key comes from elsewhere (external) for an unmanaged OidcConfig.
ClusterResources(cluster, external, baseDomain) ==
    LET hc == HostedClusterName(cluster) IN
    {<<Namespace(x.uid, x.ns), ClusterConfig(x.uid, cluster.name, x.ns), PullSecret(x.uid, x.ns),
       ApiServingCert(x.uid, hc, baseDomain, x.ns),
       HostedCluster(cluster, x.uid, x.ns, hc, external, baseDomain), SshKey(x.uid, x.ns)>>
     \o (IF cluster.bundle = {} THEN <<>>
         ELSE <<AdditionalTrustBundle(x.uid, x.ns, CHOOSE b \in cluster.bundle : TRUE)>>)
     \o (IF external THEN <<OidcSigningKeySecret(cluster.accountID, cluster.oidcConfigID, x.uid, x.ns)>>
         ELSE <<>>) :
        x \in {x \in ManagementClusterIdentity(cluster) : hc # ""}}

(***************************************************************************)
(* nodepool.go.  pool is [release, upgradeType, replace, inPlace,          *)
(* replicas, autoScaling, aws]; replace is a set of [strategy, rolling],   *)
(* rolling and inPlace sets of [unavailable] with [surge].                 *)
(***************************************************************************)
MergeNodePoolTags(clusterTags, nodePoolTags) == nodePoolTags @@ clusterTags

NoBudget == [unavailable |-> {}, surge |-> {}]
Sole(S, default) == IF S = {} THEN default ELSE CHOOSE x \in S : TRUE
Given(new, old) == IF new = {} THEN old ELSE new

\* Mutant: the budget of an in-place upgrade goes where the one of a replacement goes.
ApplyUpgradeBudget_Replace(np, unavailable, surge) ==
    LET r == Sole(np.replace, [strategy |-> "", rolling |-> {}]) IN
    [np EXCEPT !.replace = {[strategy |-> "RollingUpdate",
                             rolling |-> {[unavailable |-> unavailable, surge |-> surge]}]}]

ApplyUpgradeBudget(np, unavailable, surge) ==
    IF np.upgradeType = "InPlace"
    THEN IF unavailable = {} THEN np
         ELSE [np EXCEPT !.inPlace = {[Sole(@, NoBudget) EXCEPT !.unavailable = unavailable]}]
    ELSE IF unavailable = {} /\ surge = {} THEN np
    ELSE LET r == Sole(np.replace, [strategy |-> "", rolling |-> {}])
             s == Default(r.strategy, "", "RollingUpdate")
             b == Sole(r.rolling, NoBudget)
         IN  [np EXCEPT !.replace =
                {[strategy |-> s,
                  rolling |-> IF s # "RollingUpdate" THEN r.rolling
                              ELSE {[unavailable |-> Given(unavailable, b.unavailable),
                                     surge |-> Given(surge, b.surge)]}]}]

\* aws is a set of [instanceType, rootVolume, resourceTags], rootVolume one of [size,
\* type, encrypted].
DefaultVolume == [size |-> 300, type |-> "gp3", encrypted |-> {TRUE}]

NodePoolAWS(aws, tags) ==
    LET v == Sole(aws.rootVolume, DefaultVolume) IN
    [instanceType |-> Default(aws.instanceType, "", "t3a.xlarge"),
     rootVolume |-> {[size |-> Default(v.size, 0, 300), type |-> Default(v.type, "", "gp3"),
                      encrypted |-> Given(v.encrypted, {TRUE})]},
     resourceTags |-> AppendSystemTags("", tags)]

NodePoolSpec(nodePool, cluster) ==
    LET p == ToNodePoolSpec(nodePool.pool)
        q == [p EXCEPT !.clusterName = HostedClusterName(cluster),
                       !.release = Default(p.release, "", cluster.hosted.release),
                       !.upgradeType = Default(p.upgradeType, "", "Replace"),
                       !.autoRepair = Sole(nodePool.autoRepair, TRUE),
                       !.nodeLabels = nodePool.labels,
                       !.replicas = IF p.replicas = {} /\ p.autoScaling = {} THEN {2} ELSE p.replicas,
                       !.aws = {NodePoolAWS(a, MergeNodePoolTags(cluster.tags, nodePool.tags)) : a \in p.aws}]
    IN  ApplyUpgradeBudget(q, nodePool.unavailable, nodePool.surge)

\* The name is <cluster>.<child>.
NodePoolResource(nodePool, cluster) ==
    IF Len(nodePool.name) = 2 /\ nodePool.name[1] = cluster.name /\ nodePool.name[2] # ""
    THEN {Resource("hypershift.openshift.io", "nodepools", x.ns, nodePool.name[2],
                   [labels |-> ClusterLabels(x.uid), httpTokens |-> nodePool.httpTokens,
                    spec |-> NodePoolSpec(nodePool, cluster)]) :
            x \in {x \in ManagementClusterIdentity(cluster) : HostedClusterName(cluster) # ""}}
    ELSE {}

\* dynamo.NewDocumentID: the document of a resource's ApplyDesire.
DocumentID(r) == <<r.group, r.resource, r.ns, r.name>>

(***************************************************************************)
(* rendered_resource.go: the snapshot of a rendered resource, under the    *)
(* identity of its source; current is a set, empty when there is none yet. *)
(***************************************************************************)
Snapshot(desired, ns, name, storageLabels, current) ==
    [resource |-> desired.resource, ns |-> ns, name |-> name,
     labels |-> desired.object.labels \cup storageLabels, spec |-> desired.object.spec,
     uid |-> {c.uid : c \in current}, rv |-> {c.rv : c \in current}]

RenderedFrom(r) == {<<"rendered-namespace", r.ns>>, <<"rendered-name", r.name>>}

UpsertRenderedHostedCluster(cluster, r, current) ==
    Snapshot(r, cluster.ns, cluster.name, RenderedFrom(r), current)
UpsertRenderedNodePool(nodePool, r, current) ==
    Snapshot(r, nodePool.ns, nodePool.name, RenderedFrom(r), current)

\* The identity that the snapshot of a Cluster or NodePool is deleted by.
DeleteRenderedHostedCluster(ns, name) == [resource |-> "hostedclusters", ns |-> ns, name |-> name]
DeleteRenderedNodePool(ns, name) == [resource |-> "nodepools", ns |-> ns, name |-> name]

-----------------------------------------------------------------------------
(* Properties, for one input. *)

TheHostedCluster(rs) == rs[CHOOSE i \in DOMAIN rs : rs[i].resource = "hostedclusters"]

Documents(rs) == {DocumentID(rs[i]) : i \in DOMAIN rs}

\* The Secrets that come to be in a namespace, given the rendered resources.
Secrets(rs, ns) ==
    {rs[i].name : i \in {i \in DOMAIN rs : rs[i].resource = "secrets" /\ rs[i].ns = ns}}
    \cup {rs[i].object.target : i \in {i \in DOMAIN rs : rs[i].resource = "externalsecrets" /\ rs[i].ns = ns}}
    \cup {rs[i].object.secretName : i \in {i \in DOMAIN rs : rs[i].resource = "certificates" /\ rs[i].ns = ns}}

\* The resources of a Cluster fit together: whatever the HostedCluster refers to by name
\* is brought about by another rendered resource, in the HostedCluster's namespace; the
\* trust bundle that it refers to is not empty; the certificate is good for every host
\* that the control plane publishes; unless the signing key comes from elsewhere, the
\* infrastructure ID is the last part of the issuer's URL, where the discovery documents
\* go, whether the issuer is that of a managed OidcConfig or the Cluster's own; and no
\* two resources share a document, in one Cluster or between two of the same name.
ResourcesFit(cluster, external, baseDomain) ==
    \A rs \in ClusterResources(cluster, external, baseDomain) :
        LET hc == TheHostedCluster(rs)
            s  == hc.object.spec
            hosts == UNION {s.services[x] : x \in DOMAIN s.services} \cup {s.apiDNSName}
            certs == UNION {rs[i].object.dnsNames : i \in {i \in DOMAIN rs : rs[i].resource = "certificates"}}
            other == [cluster EXCEPT !.uid = "other"]
        IN  /\ {s.pullSecret, s.sshKey} \cup s.servingCerts \cup s.signingKey \subseteq Secrets(rs, hc.ns)
            /\ \A b \in s.trustBundle : \E i \in DOMAIN rs :
                 rs[i].resource = "configmaps" /\ rs[i].ns = hc.ns /\ rs[i].name = b /\ rs[i].object.data # <<"">>
            /\ \A h \in hosts : \E c \in certs : Tail(c) = Tail(h) /\ Tail(h) = <<hc.name, s.baseDomain>>
            /\ s.issuerURL # <<>> /\ ~external => s.infraID = s.issuerURL[Len(s.issuerURL)]
            /\ Cardinality(Documents(rs)) = Len(rs)
            /\ \A ds \in ClusterResources(other, external, baseDomain) : Documents(rs) \cap Documents(ds) = {}

\* The networks of a Cluster whose create request was accepted: the HostedCluster has at
\* least one of each kind, the customer's own are as they were given, and two of them
\* overlap only where one is a default that the operator filled in after the API's check.
NetworksRendered(cluster) ==
    LET given == [machine |-> cluster.hosted.machine, service |-> cluster.hosted.service,
                  pod |-> cluster.hosted.pod]
    IN  ValidateNetworkCIDRs(given) =>
          \A rs \in ClusterResources(cluster, FALSE, "base") :
            LET s == TheHostedCluster(rs).object.spec
                out == [machine |-> s.machine, service |-> s.service, pod |-> s.pod]
            IN  \A t \in Types :
                  /\ out[t] # <<>>
                  /\ given[t] # <<>> => out[t] = given[t]
                  /\ \A u \in Types : \A i \in DOMAIN out[t], j \in DOMAIN out[u] :
                       given[t] # <<>> /\ given[u] # <<>> /\ <<t, i>> # <<u, j>> =>
                         \A n \in out[t][i].cidr, m \in out[u][j].cidr : ~Meet(n, m)

Keys(tags) == {t[1] : t \in tags}

\* A NodePool joins the HostedCluster of its parent, under the name and in the namespace
\* that the parent's own render gives it; the budget of an upgrade is where HyperShift
\* looks for it, what is not given is left alone, and a strategy without a budget
\* gets none; the tags that the API accepted fit into AWS's limit once the operator has
\* added its own, and none is there twice; the snapshot differs from what goes to the
\* management cluster only in its identity, by which it is deleted again.
PoolFollows(nodePool, cluster) ==
    \A r \in NodePoolResource(nodePool, cluster), rs \in ClusterResources(cluster, FALSE, "base") :
        LET hc == TheHostedCluster(rs)
            s  == r.object.spec
            p  == nodePool.pool
            b  == IF s.upgradeType = "InPlace" THEN s.inPlace ELSE UNION {x.rolling : x \in s.replace}
            customer == IF s.upgradeType = "InPlace" THEN p.inPlace ELSE UNION {x.rolling : x \in p.replace}
            onDelete == s.upgradeType # "InPlace" /\ \E x \in s.replace : x.strategy = "OnDelete"
            snapshot == UpsertRenderedNodePool(nodePool, r, {})
            Of(S, f) == UNION {x[f] : x \in S}
        IN  /\ r.ns = hc.ns /\ s.clusterName = hc.name /\ DocumentID(r) \notin Documents(rs)
            /\ s.release # "" /\ (s.replicas # {} \/ s.autoScaling # {})
            /\ IF onDelete THEN b = customer
               ELSE /\ Of(b, "unavailable") = Given(nodePool.unavailable, Of(customer, "unavailable"))
                    /\ s.upgradeType # "InPlace" => Of(b, "surge") = Given(nodePool.surge, Of(customer, "surge"))
            /\ s.upgradeType = "InPlace" => s.replace = p.replace
            /\ s.upgradeType # "InPlace" => s.inPlace = p.inPlace
            /\ ValidateClusterAWSTagBudget(cluster.tags) /\ ValidateNodePoolAWSTagBudget(cluster.tags, nodePool.tags) =>
                 \A tags \in {x.resourceTags : x \in s.aws \cup hc.object.spec.aws} :
                     Cardinality(tags) <= MaxAWSResourceTags /\ Cardinality(Keys(tags)) = Cardinality(tags)
            /\ \A x \in s.aws : \A k \in DOMAIN nodePool.tags \ {RedHatManagedTagKey} :
                 <<k, nodePool.tags[k]>> \in x.resourceTags
            /\ snapshot.spec = s /\ r.object.labels \subseteq snapshot.labels
            /\ DeleteRenderedNodePool(nodePool.ns, nodePool.name)
                 = [resource |-> snapshot.resource, ns |-> snapshot.ns, name |-> snapshot.name]
=============================================================================
