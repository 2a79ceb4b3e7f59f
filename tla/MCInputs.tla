------------------------------ MODULE MCInputs ------------------------------
(* Small sets of inputs for the checks on a request's values and fields, and *)
(* for what the operator renders.  Field names are those of the registry,    *)
(* with fewer levels above them.                                             *)
EXTENDS Integers, Sequences, FiniteSets, TLC

-----------------------------------------------------------------------------
(* Fields. *)

Meta(mode, hidden, gate) == [mode |-> mode, hidden |-> hidden, gate |-> gate, overrides |-> <<>>]

MCRegistry ==
    (<<"networking", "networkType">> :> Meta("immutable", FALSE, ""))
    @@ (<<"configuration", "image">> :> Meta("service-set", TRUE, ""))
    @@ (<<"configuration", "scheduler">> :> Meta("mutable", FALSE, ""))
    @@ (<<"configuration", "kernelArguments">> :> Meta("immutable", FALSE, "MachineConfig"))
    @@ (<<"rootVolume", "size">> :> Meta("immutable", FALSE, ""))
    @@ (<<"rootVolume", "encrypted">> :> Meta("service-set", FALSE, ""))
    @@ (<<"etcd">> :> Meta("service-set", TRUE, ""))
    @@ (<<"tags">> :> Meta("mutable", FALSE, ""))
    @@ (<<"additionalTrustBundle">> :> Meta("mutable", FALSE, ""))
    @@ (<<"accountId">> :> Meta("service-set", TRUE, ""))
    @@ (<<"channel">> :> [Meta("immutable", FALSE, "") EXCEPT
                            !.overrides = <<[gate |-> "Channels", mode |-> "mutable"]>>])

MCKind ==
    (<<"networking">> :> "struct") @@ (<<"networking", "networkType">> :> "scalar")
    @@ (<<"configuration">> :> "pointer") @@ (<<"configuration", "image">> :> "scalar")
    @@ (<<"configuration", "scheduler">> :> "scalar") @@ (<<"configuration", "kernelArguments">> :> "list")
    @@ (<<"rootVolume">> :> "pointer") @@ (<<"rootVolume", "size">> :> "scalar")
    @@ (<<"rootVolume", "encrypted">> :> "optional")
    @@ (<<"etcd">> :> "struct") @@ (<<"etcd", "managed">> :> "scalar")
    @@ (<<"tags">> :> "map") @@ (<<"tags", "a">> :> "entry") @@ (<<"tags", "b">> :> "entry")
    @@ (<<"additionalTrustBundle">> :> "optional")
    @@ (<<"accountId">> :> "scalar") @@ (<<"channel">> :> "scalar")

\* A field may be spelled in another case.
MCCanonical ==
    [k \in UNION {{p[i] : i \in DOMAIN p} : p \in DOMAIN MCKind} |-> k]
    @@ ("NETWORKTYPE" :> "networkType") @@ ("SIZE" :> "size") @@ ("ENCRYPTED" :> "encrypted")
    @@ ("IMAGE" :> "image")

MCGateStage == ("MachineConfig" :> 1) @@ ("Channels" :> 1)

MCBundle == [zero     |-> [empty |-> TRUE, bytes |-> 0, blocks |-> <<>>],
             pem      |-> [empty |-> FALSE, bytes |-> 2^20, blocks |-> <<"ca", "ca">>],
             long     |-> [empty |-> FALSE, bytes |-> 2^20 + 1, blocks |-> <<"ca">>],
             leaf     |-> [empty |-> FALSE, bytes |-> 9, blocks |-> <<"ca", "leaf">>],
             REDACTED |-> [empty |-> FALSE, bytes |-> 8, blocks |-> <<"text">>]]

FeatureSets == {"Default", "TechPreviewNoUpgrade"}

\* The objects under a key, with any of the choices for their fields; "-" leaves one out.
Under(key, choices) ==
    LET fields == DOMAIN choices
        values == UNION {choices[f] : f \in fields}
    IN  {(<<key>> :> "obj") @@ [p \in {<<key, f>> : f \in {f \in fields : c[f] # "-"}} |-> c[p[2]]] :
            c \in {c \in [fields -> values] : \A f \in fields : c[f] \in choices[f]}}

Nothing == {[p \in {} |-> ""]}
Null(key) == {<<key>> :> "null"}
OneOf(key, values) == {<<key>> :> v : v \in values}

\* What there may be at a key of the stored spec, and of a request.
StoredAt ==
    [networking |-> Under("networking", [networkType |-> {"-", "v1"}]),
     configuration |-> Nothing \cup Under("configuration", [image |-> {"-", "v1"}, scheduler |-> {"-", "v1"},
                                                            kernelArguments |-> {"-", "v1"}]),
     rootVolume |-> Nothing \cup Under("rootVolume", [size |-> {"-", "v1"}, encrypted |-> {"-", "zero", "true"}]),
     tags |-> Nothing \cup {d \in Under("tags", [a |-> {"-", "v1"}, b |-> {"-", "v1"}]) : Cardinality(DOMAIN d) > 1},
     etcd |-> Under("etcd", [managed |-> {"-", "v1"}]),
     additionalTrustBundle |-> Nothing \cup OneOf("additionalTrustBundle", {"zero", "pem"}),
     accountId |-> OneOf("accountId", {"a1"}),
     channel |-> Nothing \cup OneOf("channel", {"v1"})]

AnyValue == {"-", "null", "zero", "v1", "v2"}

RawAt ==
    [networking |-> Null("networking") \cup Under("networking", [networkType |-> AnyValue])
                    \cup Under("networking", [NETWORKTYPE |-> AnyValue]),
     configuration |-> Null("configuration")
                       \cup Under("configuration", [image |-> AnyValue, scheduler |-> AnyValue, kernelArguments |-> AnyValue])
                       \cup Under("configuration", [IMAGE |-> AnyValue]),
     rootVolume |-> Null("rootVolume") \cup Under("rootVolume", [size |-> AnyValue, encrypted |-> AnyValue])
                    \cup Under("rootVolume", [SIZE |-> AnyValue, ENCRYPTED |-> AnyValue]),
     tags |-> Null("tags") \cup Under("tags", [a |-> AnyValue, b |-> AnyValue]),
     etcd |-> Null("etcd") \cup Under("etcd", [managed |-> AnyValue]),
     additionalTrustBundle |-> OneOf("additionalTrustBundle", {"null", "zero", "pem", "long", "leaf", "REDACTED"}),
     accountId |-> OneOf("accountId", {"null", "zero", "a1", "a2"}),
     channel |-> OneOf("channel", {"null", "zero", "v1", "v2"})]

Tops == DOMAIN StoredAt

\* The rest of a stored spec.
Rest == (<<"networking">> :> "obj") @@ (<<"networking", "networkType">> :> "v1")
        @@ (<<"etcd">> :> "obj") @@ (<<"accountId">> :> "a1")
        @@ (<<"rootVolume">> :> "obj") @@ (<<"rootVolume", "encrypted">> :> "true")

With(doc) == LET mine == {p[1] : p \in DOMAIN doc} IN doc @@ [p \in {p \in DOMAIN Rest : p[1] \notin mine} |-> Rest[p]]

\* No field is stored whose gate is off.
Stored(k, fs) == {With(s) : s \in {s \in StoredAt[k] : <<"configuration", "kernelArguments">> \in DOMAIN s =>
                                                          fs = "TechPreviewNoUpgrade"}}

\* A request about one part of the spec, and one that removes another part as well.
Updates ==
    UNION {{[kind |-> "update", stored |-> s, raw |-> r @@ o, fs |-> x[2]] :
              s \in Stored(x[1], x[2]), r \in RawAt[x[1]],
              o \in Nothing \cup (IF x[1] \in {"tags", "networking"} THEN Null("rootVolume") \cup Null("configuration")
                                  ELSE {})} : x \in Tops \X FeatureSets}

Echoes == UNION {{[kind |-> "echo", stored |-> s, fs |-> x[2]] : s \in Stored(x[1], x[2])} : x \in Tops \X FeatureSets}

\* The metadata of a request: with what the server owns, and with a tag of the platform.
PublicMeta(ours) ==
    [name |-> "c", namespace |-> <<>>, labels |-> {<<"team", "x">>},
     annotations |-> {<<"", "team">>} \cup (IF ours THEN {<<"seaplane.io/", "x">>} ELSE {}),
     uid |-> "u0", rv |-> "7", del |-> {}, fin |-> {"f"}]

\* A decoded create request: the public type, its structs there.
Creates ==
    UNION {{[kind |-> "create", pub |-> [meta |-> PublicMeta(m), spec |-> (<<"networking">> :> "obj") @@ s], fs |-> fs] :
              s \in {s \in StoredAt[k] : \A p \in DOMAIN s : ~(p \in DOMAIN MCRegistry /\ MCRegistry[p].hidden)},
              fs \in FeatureSets, m \in BOOLEAN} : k \in Tops \ {"networking", "etcd", "accountId"}}

-----------------------------------------------------------------------------
(* Values. *)

N(a, b, c, len) == [ip |-> <<a, b, c, 0>>, len |-> len]
Entry(net, prefix) == [cidr |-> {net}, hostPrefix |-> prefix]

MachineNets == {N(10, 0, 0, 16), N(10, 0, 128, 17), N(10, 132, 0, 16), N(10, 0, 1, 16), N(192, 168, 0, 25)}
ServiceNets == {N(172, 20, 0, 16), N(172, 31, 0, 16), N(10, 0, 0, 14), N(192, 168, 0, 24), N(192, 168, 0, 25)}
PodNets == {N(10, 128, 0, 14), N(10, 132, 0, 14), N(10, 0, 0, 8), N(172, 31, 0, 21), N(172, 31, 0, 22)}
HostPrefixes == {0, 22, 23, 26, 27}

UpTo(n, S) == UNION {[1 .. k -> S] : k \in 0 .. n}
Machines == UpTo(2, {Entry(n, 0) : n \in MachineNets})
Services == UpTo(1, {Entry(n, 0) : n \in ServiceNets})
Pods == UpTo(1, {Entry(n, h) : n \in PodNets, h \in HostPrefixes})

Networks ==
    {[kind |-> "networks", machine |-> m, service |-> s, pod |-> p] : m \in Machines, s \in Services, p \in Pods}
    \cup {[kind |-> "networks", machine |-> <<>>, service |-> s, pod |-> p] :
            s \in UpTo(2, {Entry(n, 0) : n \in ServiceNets}), p \in UpTo(2, {Entry(n, 23) : n \in PodNets})}

Url(host, c, port, path, scheme, user) ==
    [scheme |-> scheme, user |-> user, host |-> host, case |-> c, port |-> port, path |-> path, rest |-> "", len |-> 30]

Urls == {Url(h, c, p, path, "https", "") : h \in {"a.example", "b.example"}, c \in {"lower", "mixed"},
           p \in {"", "443", "8443"}, path \in {<<>>, <<"">>, <<"x">>, <<"x", "">>, <<"x", "", "">>, <<"x", "y">>, <<"", "x">>}}
        \cup {Url("a.example", "lower", "", <<>>, s, u) : s \in {"http", "https"}, u \in {"", "me"}}

Issuers == {[kind |-> "issuers", a |-> u, b |-> v] : u \in Urls, v \in Urls}

Names == {[kind |-> "names", name |-> <<[label |-> l, len |-> n]>>, reserved |-> r, alnum |-> a] :
            l \in BOOLEAN, n \in 0 .. 64, r \in BOOLEAN, a \in {0, 1, 14, 15, 16, 32}}

-----------------------------------------------------------------------------
(* Clusters and NodePools. *)

Hosted(m, s, p, issuer) ==
    [issuerURL |-> issuer, etcd |-> {}, networkType |-> "", infraAvailability |-> "", controllerAvailability |-> "",
     machine |-> m, service |-> s, pod |-> p, aws |-> {[endpointAccess |-> "", resourceTags |-> {}]}, release |-> "r"]

ACluster(uid, hc, b, oidc, tags, hosted) ==
    [uid |-> uid, ns |-> "account-a1", name |-> "c", hcName |-> hc, bundle |-> b, oidcConfigID |-> oidc,
     accountID |-> "a1", tags |-> tags, hosted |-> hosted]

\* n tags of the customer's, with a system key among them when s is not empty.
Tagged(first, n, value, s) == [k \in {<<"plain", i>> : i \in first .. (first + n - 1)} \cup s |-> value]
SystemKeys == {{}, {<<"managed", 0>>}, {<<"ownership", "u1">>}}

Budgets == {{}} \cup {{[unavailable |-> u, surge |-> s]} : u \in {{}, {3}}, s \in {{}, {4}}}

NodePools ==
    {[ns |-> "account-a1", name |-> n, tags |-> Tagged(f, k, "np", {}), labels |-> {}, httpTokens |-> "required",
      autoRepair |-> {}, unavailable |-> u, surge |-> s,
      pool |-> [release |-> "", upgradeType |-> t, replace |-> r, inPlace |-> i, replicas |-> {}, autoScaling |-> {},
                aws |-> {[instanceType |-> "", rootVolume |-> {}, resourceTags |-> {}]}]] :
        n \in {<<"c", "np">>, <<"d", "np">>}, f \in {1, 13}, k \in {0, 12}, u \in {{}, {1}}, s \in {{}, {2}},
        t \in {"", "Replace", "InPlace"}, i \in {{}, {[unavailable |-> {3}, surge |-> {}]}},
        r \in {{}} \cup {{[strategy |-> x, rolling |-> b]} : x \in {"", "RollingUpdate", "OnDelete"}, b \in Budgets}}
=============================================================================
