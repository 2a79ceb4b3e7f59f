------------------------- MODULE OidcConfigsProofs -------------------------
(***************************************************************************)
(* Proof, for any number of configs, issuer URLs, pods and faults, that a  *)
(* Ready config has its issuer's Index and its key, and that neither is    *)
(* left behind.                                                            *)
(***************************************************************************)
EXTENDS OidcConfigs, TLAPS

\* A reconcile that does nothing.
LEMMA IdleTyped == Idle \in Reconciles /\ Idle.pc = "idle"
  BY BoundsNat DEF Idle, Reconciles, UIDs, Issuers

\* No config.
LEMMA NoConfigTyped ==
    NoConfig \in Configs /\ NoConfig.uid = 0 /\ NoConfig.state = "none" /\ NoConfig.url = 0
  BY BoundsNat DEF NoConfig, Configs, UIDs, Issuers

\* A reconcile goes on at l.
LEMMA GotoEffect ==
    ASSUME TypeOK, NEW w \in Pods, NEW n \in Names, NEW l, Goto(w, n, l),
           l \in {"existing", "conflict", "key", "store", "probe", "ready", "delidx", "dropidx", "finalize"}
    PROVE  /\ rc' \in [Pods -> [Names -> Reconciles]]
           /\ rc'[w][n].pc = l /\ rc'[w][n].uid = rc[w][n].uid /\ rc'[w][n].url = rc[w][n].url
           /\ \A v \in Pods, m \in Names : v # w \/ m # n => rc'[v][m] = rc[v][m]
  <1>1. rc \in [Pods -> [Names -> Reconciles]]
    BY DEF TypeOK
  <1>2. PICK x \in Reconciles : x = rc[w][n]
    BY <1>1
  <1>3. PICK y : y = [x EXCEPT !.pc = l]
    OBVIOUS
  <1>4. y \in Reconciles /\ y.pc = l /\ y.uid = x.uid /\ y.url = x.url
    BY <1>3 DEF Reconciles
  <1>5. rc' = [rc EXCEPT ![w][n] = y]
    BY <1>1, <1>2, <1>3 DEF Goto
  <1>. QED
    BY <1>1, <1>2, <1>4, <1>5

\* A reconcile ends.
LEMMA DoneEffect ==
    ASSUME TypeOK, NEW w \in Pods, NEW n \in Names, Done(w, n)
    PROVE  /\ rc' \in [Pods -> [Names -> Reconciles]] /\ rc'[w][n].pc = "idle"
           /\ \A v \in Pods, m \in Names : v # w \/ m # n => rc'[v][m] = rc[v][m]
  <1>1. rc \in [Pods -> [Names -> Reconciles]]
    BY DEF TypeOK
  <1>. QED
    BY <1>1, IdleTyped DEF Done

\* The status of the config that has the name.
LEMMA PhaseEffect ==
    ASSUME TypeOK, NEW n \in Names, NEW p \in {"Pending", "Ready", "Error"}, SetPhase(n, p)
    PROVE  /\ cfg' \in [Names -> Configs]
           /\ cfg'[n].uid = cfg[n].uid /\ cfg'[n].state = cfg[n].state /\ cfg'[n].fin = cfg[n].fin
           /\ cfg'[n].url = cfg[n].url /\ (cfg[n].uid # 0 => cfg'[n].phase = p)
           /\ \A m \in Names : m # n => cfg'[m] = cfg[m]
  <1>1. cfg \in [Names -> Configs]
    BY DEF TypeOK
  <1>2. PICK x \in Configs : x = cfg[n]
    BY <1>1
  <1>3. PICK y : y = [x EXCEPT !.phase = p]
    OBVIOUS
  <1>4. /\ y \in Configs /\ y.uid = x.uid /\ y.state = x.state /\ y.fin = x.fin /\ y.url = x.url
        /\ y.phase = p
    BY <1>3 DEF Configs
  <1>5. CASE x.uid = 0
    BY <1>1, <1>2, <1>5 DEF SetPhase
  <1>6. CASE x.uid # 0
    <2>1. cfg' = [cfg EXCEPT ![n] = y]
      BY <1>1, <1>2, <1>3, <1>6 DEF SetPhase
    <2>. QED
      BY <1>1, <1>2, <1>4, <1>6, <2>1
  <1>. QED
    BY <1>5, <1>6

-----------------------------------------------------------------------------
(* Steps that concern one name. *)

\* Nothing of another name changes, and no Index but those of n's reconciles.
OnlyOf(n) ==
    /\ lastUID' = lastUID
    /\ \A m \in Names : m # n => /\ cfg'[m] = cfg[m] /\ key'[m] = key[m]
                                 /\ \A v \in Pods : rc'[v][m] = rc[v][m]
    /\ \A u \in Issuers : idx'[u] # idx[u] =>
          \E v \in Pods : Working(v, n) /\ idx[u] \in {0, rc[v][n].uid} /\ idx'[u] \in {0, rc[v][n].uid}

\* The config of n keeps its UID or goes, and so do its reconciles.
KeepsUID(n) ==
    /\ cfg'[n].uid \in {0, cfg[n].uid} /\ (cfg'[n].uid = 0 <=> cfg'[n].state = "none")
    /\ \A v \in Pods : Working(v, n)' =>
          \/ Working(v, n) /\ rc'[v][n].uid = rc[v][n].uid
          \/ cfg[n].uid # 0 /\ rc'[v][n].uid = cfg[n].uid

\* UIDs stay apart.
LEMMA ApartStays ==
    ASSUME ConfigsInv, NEW n \in Names, OnlyOf(n), KeepsUID(n)
    PROVE  UIDsApart'
  <1>1. UIDsApart /\ lastUID \in UIDs /\ lastUID \in Nat
    BY BoundsNat DEF ConfigsInv, TypeOK, UIDs
  <1>2. \A u \in Issuers : idx'[u] <= lastUID'
    <2>1. ASSUME NEW u \in Issuers, idx'[u] # idx[u] PROVE idx'[u] <= lastUID
      <3>1. PICK v \in Pods : Working(v, n) /\ idx'[u] \in {0, rc[v][n].uid}
        BY <2>1 DEF OnlyOf
      <3>. QED
        BY <1>1, <3>1 DEF UIDsApart
    <2>. QED
      BY <1>1, <2>1 DEF UIDsApart, OnlyOf
  <1>3. \A m \in Names : cfg'[m].uid \in {0, cfg[m].uid} /\ (cfg'[m].uid = 0 <=> cfg'[m].state = "none")
    BY <1>1 DEF OnlyOf, KeepsUID, UIDsApart
  <1>4. \A v \in Pods, m \in Names : Working(v, m)' =>
           \/ Working(v, m) /\ rc'[v][m].uid = rc[v][m].uid
           \/ cfg[m].uid # 0 /\ rc'[v][m].uid = cfg[m].uid
    BY DEF OnlyOf, KeepsUID, Working
  <1>5. \A m \in Names : /\ cfg'[m].uid <= lastUID'
                         /\ \A v \in Pods : Working(v, m)' => rc'[v][m].uid # 0 /\ rc'[v][m].uid <= lastUID'
    BY <1>1, <1>3, <1>4 DEF UIDsApart, OnlyOf
  <1>6. ASSUME NEW k \in Names, NEW m \in Names, k # m
        PROVE  /\ cfg'[k].uid = cfg'[m].uid => cfg'[k].uid = 0
               /\ \A v \in Pods : Working(v, k)' => rc'[v][k].uid # cfg'[m].uid
    BY <1>1, <1>3, <1>4, <1>5, <1>6 DEF UIDsApart
  <1>. QED
    BY <1>2, <1>3, <1>5, <1>6 DEF UIDsApart

\* Such a step preserves the invariant if it does for n.
LEMMA Locally ==
    ASSUME ConfigsInv, NEW n \in Names, OnlyOf(n), KeepsUID(n), TypeOK',
           shared' \in {shared, shared \cup {n}},
           n \notin shared' => ConfigSound(n)' /\ \A v \in Pods : ReconcileSound(v, n)',
           n \notin shared' /\ cfg'[n].uid # cfg[n].uid => \A u \in Issuers : idx'[u] # cfg[n].uid
    PROVE  ConfigsInv'
  <1>1. UIDsApart'
    BY ApartStays
  <1>2. shared \subseteq shared' /\ shared \subseteq Names /\ UIDsApart
    BY DEF ConfigsInv, TypeOK
  <1>3. ASSUME NEW m \in Names, m # n, m \notin shared'
        PROVE  ConfigSound(m)' /\ \A v \in Pods : ReconcileSound(v, m)'
    <2>1. /\ ConfigSound(m) /\ (\A v \in Pods : ReconcileSound(v, m))
          /\ cfg'[m] = cfg[m] /\ key'[m] = key[m] /\ \A v \in Pods : rc'[v][m] = rc[v][m]
      BY <1>2, <1>3 DEF ConfigsInv, OnlyOf
    <2>2. ASSUME cfg[m].uid # 0, NEW u \in Issuers PROVE idx'[u] = cfg[m].uid <=> idx[u] = cfg[m].uid
      BY <1>2, <1>3, <2>2 DEF OnlyOf, UIDsApart
    <2>3. cfg[m].url \in Issuers
      BY DEF ConfigsInv, TypeOK, Configs
    <2>4. ConfigSound(m)'
      BY <1>2, <2>1, <2>2, <2>3 DEF ConfigSound, Managed, UIDsApart
    <2>5. ASSUME NEW v \in Pods PROVE ReconcileSound(v, m)'
      <3>1. ReconcileSound(v, m) /\ (Working(v, m) => rc[v][m].uid # 0)
        BY <1>2, <2>1 DEF UIDsApart
      <3>. QED
        BY <2>1, <2>2, <2>3, <3>1 DEF ReconcileSound, Managed, Working
    <2>. QED
      BY <2>4, <2>5
  <1>4. \A m \in Names \ shared' : ConfigSound(m)' /\ \A v \in Pods : ReconcileSound(v, m)'
    BY <1>3
  <1>5. NoLeak'
    <2>1. SUFFICES ASSUME shared' = {}
                   PROVE  /\ \A u \in Issuers : idx'[u] # 0 => \E m \in Names : cfg'[m].uid = idx'[u] /\ cfg'[m].fin
                          /\ \A m \in Names : key'[m] # 0 => cfg'[m].uid = key'[m] /\ cfg'[m].fin
      BY DEF NoLeak
    <2>2. \A m \in Names : key'[m] # 0 => cfg'[m].uid = key'[m] /\ cfg'[m].fin
      BY <1>4, <2>1 DEF ConfigSound
    <2>3. ASSUME NEW u \in Issuers, idx'[u] # 0
          PROVE  \E m \in Names : cfg'[m].uid = idx'[u] /\ cfg'[m].fin
      <3>1. PICK m \in Names : cfg[m].uid = idx'[u]
        <4>1. CASE idx'[u] = idx[u]
          BY <1>2, <2>1, <2>3, <4>1 DEF ConfigsInv, NoLeak
        <4>2. CASE idx'[u] # idx[u]
          <5>1. PICK v \in Pods : Working(v, n) /\ idx'[u] = rc[v][n].uid
            BY <2>3, <4>2 DEF OnlyOf
          <5>2. ReconcileSound(v, n)
            BY <1>2, <2>1 DEF ConfigsInv
          <5>. QED
            BY <5>1, <5>2 DEF ReconcileSound
        <4>. QED
          BY <4>1, <4>2
      <3>2. cfg'[m].uid = cfg[m].uid
        BY <2>1, <3>1 DEF OnlyOf
      <3>3. cfg'[m].fin
        BY <1>4, <2>1, <2>3, <3>1, <3>2 DEF ConfigSound
      <3>. QED
        BY <3>1, <3>2, <3>3
    <2>. QED
      BY <2>2, <2>3
  <1>. QED
    BY <1>1, <1>4, <1>5 DEF ConfigsInv

\* A step of a reconcile that leaves the config there, for what it does to n.
LEMMA Steps ==
    ASSUME ConfigsInv, NEW w \in Pods, NEW n \in Names, Working(w, n),
           rc' \in [Pods -> [Names -> Reconciles]],
           \A v \in Pods, m \in Names : v # w \/ m # n => rc'[v][m] = rc[v][m],
           \/ rc'[w][n].pc = "idle"
           \/ rc'[w][n].uid = rc[w][n].uid /\ rc'[w][n].url = rc[w][n].url,
           cfg' \in [Names -> Configs], \A m \in Names : m # n => cfg'[m] = cfg[m],
           cfg'[n].uid = cfg[n].uid /\ cfg'[n].state = cfg[n].state,
           key' \in [Names -> UIDs], \A m \in Names : m # n => key'[m] = key[m],
           idx' \in [Issuers -> UIDs],
           \A u \in Issuers : idx'[u] # idx[u] => idx[u] \in {0, rc[w][n].uid} /\ idx'[u] \in {0, rc[w][n].uid},
           UNCHANGED <<lastUID, shared>>, faults' \in 0 .. MaxFaults, parked' \subseteq Names,
           n \notin shared => ConfigSound(n)' /\ (Working(w, n)' => ReconcileSound(w, n)')
    PROVE  ConfigsInv'
  <1>1. TypeOK'
    BY DEF ConfigsInv, TypeOK
  <1>2. OnlyOf(n)
    BY DEF OnlyOf
  <1>3. KeepsUID(n)
    BY DEF KeepsUID, ConfigsInv, UIDsApart, Working
  <1>4. ASSUME n \notin shared, NEW v \in Pods PROVE ReconcileSound(v, n)'
    <2>1. CASE v = w
      BY <1>4, <2>1 DEF ReconcileSound
    <2>2. CASE v # w
      BY <1>4, <2>2 DEF ConfigsInv, ReconcileSound, Working
    <2>. QED
      BY <2>1, <2>2
  <1>. QED
    BY <1>1, <1>2, <1>3, <1>4, Locally

\* What a step of a reconcile finds.
LEMMA Found ==
    ASSUME ConfigsInv, NEW w \in Pods, NEW n \in Names, Working(w, n)
    PROVE  /\ TypeOK /\ cfg \in [Names -> Configs] /\ key \in [Names -> UIDs] /\ idx \in [Issuers -> UIDs]
           /\ lastUID \in UIDs /\ 0 \in UIDs /\ faults \in 0 .. MaxFaults /\ shared \subseteq Names
           /\ parked \subseteq Names
           /\ rc[w][n] \in Reconciles /\ rc[w][n].uid \in UIDs /\ rc[w][n].url \in Issuers
           /\ rc[w][n].uid # 0
           /\ n \notin shared => ConfigSound(n) /\ ReconcileSound(w, n) /\ cfg[n].uid # 0
  <1>1. UIDsApart
    BY DEF ConfigsInv
  <1>. QED
    BY <1>1, BoundsNat DEF ConfigsInv, TypeOK, Reconciles, ReconcileSound, UIDsApart, UIDs

\* A fault is one that the bound allows.
LEMMA FaultTyped ==
    ASSUME TypeOK, Fault
    PROVE  faults' \in 0 .. MaxFaults
  BY BoundsNat DEF TypeOK, Fault

\* A reconcile ends, and nothing else happens.
LEMMA Ends ==
    ASSUME ConfigsInv, NEW w \in Pods, NEW n \in Names, Working(w, n), Done(w, n),
           UNCHANGED <<cfg, lastUID, idx, key, shared>>, faults' \in 0 .. MaxFaults, parked' \subseteq Names
    PROVE  ConfigsInv'
  <1>1. /\ rc' \in [Pods -> [Names -> Reconciles]] /\ rc'[w][n].pc = "idle"
        /\ \A v \in Pods, m \in Names : v # w \/ m # n => rc'[v][m] = rc[v][m]
    BY Found, DoneEffect
  <1>2. n \notin shared => ConfigSound(n)' /\ (Working(w, n)' => ReconcileSound(w, n)')
    BY <1>1, Found DEF ConfigSound, Working, Managed
  <1>. QED
    BY <1>1, <1>2, Found, Steps

\* A reconcile reports and ends.
LEMMA Reports ==
    ASSUME ConfigsInv, NEW w \in Pods, NEW n \in Names, Working(w, n), Done(w, n),
           NEW p \in {"Pending", "Ready", "Error"}, SetPhase(n, p), p = "Ready" => rc[w][n].pc = "ready",
           UNCHANGED <<lastUID, idx, key, shared>>, faults' \in 0 .. MaxFaults, parked' \subseteq Names
    PROVE  ConfigsInv'
  <1>1. /\ rc' \in [Pods -> [Names -> Reconciles]] /\ rc'[w][n].pc = "idle"
        /\ \A v \in Pods, m \in Names : v # w \/ m # n => rc'[v][m] = rc[v][m]
    BY Found, DoneEffect
  <1>2. /\ cfg' \in [Names -> Configs]
        /\ cfg'[n].uid = cfg[n].uid /\ cfg'[n].state = cfg[n].state /\ cfg'[n].fin = cfg[n].fin
        /\ cfg'[n].url = cfg[n].url /\ (cfg[n].uid # 0 => cfg'[n].phase = p)
        /\ \A m \in Names : m # n => cfg'[m] = cfg[m]
    BY Found, PhaseEffect
  <1>3. n \notin shared => ConfigSound(n)' /\ (Working(w, n)' => ReconcileSound(w, n)')
    <2>1. SUFFICES ASSUME n \notin shared PROVE ConfigSound(n)'
      BY <1>1 DEF Working
    <2>2. ConfigSound(n) /\ ReconcileSound(w, n) /\ cfg[n].uid # 0
      BY <2>1, Found
    <2>3. p = "Ready" => idx[cfg[n].url] = cfg[n].uid /\ (~Managed(cfg[n]) => key[n] = cfg[n].uid)
      BY <2>2 DEF ReconcileSound, Managed
    <2>. QED
      BY <1>2, <2>2, <2>3 DEF ConfigSound, Managed
  <1>. QED
    BY <1>1, <1>2, <1>3, Found, Steps

\* A reconcile goes on, with what it has read.
LEMMA GoesOn ==
    ASSUME ConfigsInv, NEW w \in Pods, NEW n \in Names, Working(w, n), NEW l, Goto(w, n, l),
           l \in {"existing", "conflict", "key", "store", "probe", "ready", "delidx", "dropidx", "finalize"},
           UNCHANGED <<cfg, lastUID, idx, key, faults, shared, parked>>,
           n \notin shared =>
              /\ l \in {"delidx", "dropidx", "finalize"} => cfg[n].state = "deleting" /\ key[n] = 0
              /\ l \in {"key", "store"} => ~Managed(rc[w][n])
              /\ l \in {"key", "store", "probe", "ready"} => idx[rc[w][n].url] = rc[w][n].uid
              /\ l \in {"probe", "ready"} /\ ~Managed(rc[w][n]) => key[n] = rc[w][n].uid
              /\ l = "finalize" => idx[rc[w][n].url] # rc[w][n].uid
    PROVE  ConfigsInv'
  <1>1. /\ rc' \in [Pods -> [Names -> Reconciles]]
        /\ rc'[w][n].pc = l /\ rc'[w][n].uid = rc[w][n].uid /\ rc'[w][n].url = rc[w][n].url
        /\ \A v \in Pods, m \in Names : v # w \/ m # n => rc'[v][m] = rc[v][m]
    BY Found, GotoEffect
  <1>2. ASSUME n \notin shared PROVE ConfigSound(n)' /\ ReconcileSound(w, n)'
    <2>1. ConfigSound(n) /\ ReconcileSound(w, n)
      BY <1>2, Found
    <2>2. ConfigSound(n)'
      BY <2>1 DEF ConfigSound, Managed
    <2>3. ReconcileSound(w, n)'
      BY <1>1, <1>2, <2>1 DEF ReconcileSound, Managed, Working
    <2>. QED
      BY <2>2, <2>3
  <1>. QED
    BY <1>1, <1>2, Found, Steps

-----------------------------------------------------------------------------
(* The actions of a reconcile. *)

\* The Index of the issuer URL is created, the reply lost or not, or is there.
LEMMA ReserveInductive ==
    ASSUME ConfigsInv, NEW w \in Pods, NEW n \in Names, Reserve(w, n)
    PROVE  ConfigsInv'
  <1>. DEFINE r == rc[w][n]
  <1>1. Working(w, n) /\ r.pc = "reserve" /\ UNCHANGED <<cfg, lastUID, key, shared, parked>>
    BY DEF Reserve, Working
  <1>2. CASE idx[r.url] # 0
    <2>1. Goto(w, n, "existing") /\ UNCHANGED <<idx, faults>>
      BY <1>2 DEF Reserve
    <2>. QED
      BY <1>1, <2>1, GoesOn
  <1>3. CASE idx[r.url] = 0
    <2>1. idx' = [idx EXCEPT ![r.url] = r.uid]
      BY <1>3 DEF Reserve
    <2>2. /\ idx' \in [Issuers -> UIDs] /\ idx'[r.url] = r.uid
          /\ \A u \in Issuers : u # r.url => idx'[u] = idx[u]
      BY <1>1, <2>1, Found
    <2>3. n \notin shared => ConfigSound(n)'
      <3>1. SUFFICES ASSUME n \notin shared PROVE ConfigSound(n)'
        OBVIOUS
      <3>2. ConfigSound(n) /\ ReconcileSound(w, n) /\ r.url \in Issuers
        BY <1>1, <3>1, Found
      <3>3. r.uid = cfg[n].uid /\ r.url = cfg[n].url /\ cfg[n].fin
        BY <1>1, <3>2 DEF ReconcileSound
      <3>. QED
        BY <1>1, <2>2, <3>2, <3>3 DEF ConfigSound, Managed
    <2>4. \A u \in Issuers : idx'[u] # idx[u] => idx[u] \in {0, r.uid} /\ idx'[u] \in {0, r.uid}
      BY <1>3, <2>2
    <2>5. cfg' \in [Names -> Configs] /\ key' \in [Names -> UIDs]
      BY <1>1, Found
    <2>6. CASE Reserved(w, n) /\ UNCHANGED faults
      <3>1. PICK l \in {"probe", "key"} : l = IF Managed(r) THEN "probe" ELSE "key"
        OBVIOUS
      <3>2. Goto(w, n, l)
        BY <2>6, <3>1 DEF Reserved
      <3>3. /\ rc' \in [Pods -> [Names -> Reconciles]]
            /\ rc'[w][n].pc = l /\ rc'[w][n].uid = r.uid /\ rc'[w][n].url = r.url
            /\ \A v \in Pods, m \in Names : v # w \/ m # n => rc'[v][m] = rc[v][m]
        BY <1>1, <3>2, Found, GotoEffect
      <3>4. n \notin shared => ReconcileSound(w, n)'
        <4>1. SUFFICES ASSUME n \notin shared PROVE ReconcileSound(w, n)'
          OBVIOUS
        <4>2. ReconcileSound(w, n)
          BY <1>1, <4>1, Found
        <4>. QED
          <5>1. /\ \A v \in Pods \ {w} : ~Working(v, n)'
                /\ r.uid = cfg[n].uid /\ r.url = cfg[n].url /\ cfg[n].fin /\ r.url \in Issuers
            <6>1. (\A v \in Pods \ {w} : ~Working(v, n)) /\ r.url \in Issuers
              BY <1>1, <4>2, Found DEF ReconcileSound
            <6>2. \A v \in Pods \ {w} : ~Working(v, n)'
              BY <3>3, <6>1 DEF Working
            <6>. QED
              BY <1>1, <4>2, <6>1, <6>2 DEF ReconcileSound
          <5>2. UNCHANGED <<cfg, key>> /\ (l = "key" => ~Managed(r))
            BY <1>1, <3>1
          <5>3. l = "probe" => Managed(r)
            BY <3>1
          <5>. QED
            BY <2>2, <3>1, <3>3, <5>1, <5>2, <5>3 DEF ReconcileSound, Managed
      <3>. QED
        <4>1. faults' \in 0 .. MaxFaults /\ parked' \subseteq Names
          BY <1>1, <2>6, Found
        <4>. QED
          BY <1>1, <2>2, <2>3, <2>4, <2>5, <3>3, <3>4, <4>1, Steps, Zenon
    <2>7. CASE Done(w, n) /\ Fault
      <3>1. /\ rc' \in [Pods -> [Names -> Reconciles]] /\ rc'[w][n].pc = "idle"
            /\ \A v \in Pods, m \in Names : v # w \/ m # n => rc'[v][m] = rc[v][m]
        BY <1>1, <2>7, Found, DoneEffect
      <3>2. ~Working(w, n)' /\ faults' \in 0 .. MaxFaults
        BY <1>1, <2>7, <3>1, Found, FaultTyped DEF Working
      <3>. QED
        <4>1. parked' \subseteq Names
          BY <1>1, Found
        <4>. QED
          BY <1>1, <2>2, <2>3, <2>4, <2>5, <3>1, <3>2, <4>1, Steps, Zenon
    <2>. QED
      BY <1>3, <2>6, <2>7 DEF Reserve
  <1>. QED
    BY <1>2, <1>3

\* The Index that was in the way is its own, another's, or gone.
LEMMA ExistingInductive ==
    ASSUME ConfigsInv, NEW w \in Pods, NEW n \in Names, Existing(w, n)
    PROVE  ConfigsInv'
  <1>. DEFINE r == rc[w][n]
  <1>1. /\ Working(w, n) /\ r.pc = "existing"
        /\ UNCHANGED <<cfg, lastUID, idx, key, faults, shared, parked>>
    BY DEF Existing, Working
  <1>2. CASE idx[r.url] = r.uid
    <2>1. Reserved(w, n)
      BY <1>1, <1>2, Found DEF Existing
    <2>2. PICK l \in {"probe", "key"} : l = IF Managed(r) THEN "probe" ELSE "key"
      OBVIOUS
    <2>3. Goto(w, n, l)
      BY <2>1, <2>2 DEF Reserved
    <2>. QED
      BY <1>1, <1>2, <2>2, <2>3, GoesOn
  <1>3. CASE idx[r.url] = 0
    <2>1. Done(w, n)
      BY <1>1, <1>3, Found DEF Existing
    <2>. QED
      BY <1>1, <2>1, Found, Ends
  <1>4. CASE idx[r.url] # r.uid /\ idx[r.url] # 0
    <2>1. Goto(w, n, "conflict")
      BY <1>4 DEF Existing
    <2>. QED
      BY <1>1, <2>1, GoesOn
  <1>. QED
    BY <1>2, <1>3, <1>4

\* A conflict, an invalid key or an issuer that does not answer is reported, and so
\* is that the config is Ready.
LEMMA ReportsInductive ==
    ASSUME ConfigsInv, NEW w \in Pods, NEW n \in Names,
           Conflict(w, n) \/ InvalidKey(w, n) \/ Silent(w, n) \/ MarkReady(w, n)
    PROVE  ConfigsInv'
  <1>1. Working(w, n) /\ Done(w, n) /\ UNCHANGED <<lastUID, idx, key, shared>>
    BY DEF Conflict, InvalidKey, Silent, MarkReady, Working
  <1>2. faults' \in 0 .. MaxFaults
    BY <1>1, Found, FaultTyped DEF Conflict, InvalidKey, Silent, MarkReady
  <1>3. parked' \subseteq Names
    BY <1>1, Found DEF Conflict, InvalidKey, Silent, MarkReady
  <1>4. PICK p \in {"Pending", "Ready", "Error"} : SetPhase(n, p) /\ (p = "Ready" => rc[w][n].pc = "ready")
    BY Zenon DEF Conflict, InvalidKey, Silent, MarkReady
  <1>. QED
    BY <1>1, <1>2, <1>3, <1>4, Reports

\* The key is looked for.
LEMMA LookForKeyInductive ==
    ASSUME ConfigsInv, NEW w \in Pods, NEW n \in Names, LookForKey(w, n)
    PROVE  ConfigsInv'
  <1>1. /\ Working(w, n) /\ rc[w][n].pc = "key"
        /\ UNCHANGED <<cfg, lastUID, idx, key, faults, shared, parked>>
    BY DEF LookForKey, Working
  <1>2. PICK l \in {"store", "probe"} : l = IF key[n] = 0 THEN "store" ELSE "probe"
    OBVIOUS
  <1>3. Goto(w, n, l)
    BY <1>2 DEF LookForKey
  <1>4. n \notin shared => /\ ~Managed(rc[w][n]) /\ idx[rc[w][n].url] = rc[w][n].uid
                           /\ l = "probe" => key[n] = rc[w][n].uid
    BY <1>1, <1>2, Found DEF ReconcileSound, ConfigSound
  <1>. QED
    BY <1>1, <1>2, <1>3, <1>4, GoesOn

\* The customer's key is stored, or a call fails.
LEMMA StoreKeyInductive ==
    ASSUME ConfigsInv, NEW w \in Pods, NEW n \in Names, StoreKey(w, n)
    PROVE  ConfigsInv'
  <1>. DEFINE r == rc[w][n]
  <1>1. Working(w, n) /\ r.pc = "store" /\ UNCHANGED <<cfg, lastUID, idx, shared, parked>>
    BY DEF StoreKey, Working
  <1>2. CASE key' = [key EXCEPT ![n] = r.uid] /\ Goto(w, n, "probe") /\ UNCHANGED faults
    <2>1. /\ rc' \in [Pods -> [Names -> Reconciles]]
          /\ rc'[w][n].pc = "probe" /\ rc'[w][n].uid = r.uid /\ rc'[w][n].url = r.url
          /\ \A v \in Pods, m \in Names : v # w \/ m # n => rc'[v][m] = rc[v][m]
      BY <1>1, <1>2, Found, GotoEffect
    <2>2. key' \in [Names -> UIDs] /\ key'[n] = r.uid /\ \A m \in Names : m # n => key'[m] = key[m]
      BY <1>1, <1>2, Found
    <2>3. ASSUME n \notin shared PROVE ConfigSound(n)' /\ ReconcileSound(w, n)'
      <3>1. ConfigSound(n) /\ ReconcileSound(w, n)
        BY <1>1, <2>3, Found
      <3>2. r.uid = cfg[n].uid /\ r.url = cfg[n].url /\ cfg[n].fin /\ ~Managed(r)
        BY <1>1, <3>1 DEF ReconcileSound
      <3>3. ConfigSound(n)'
        BY <1>1, <2>2, <3>1, <3>2 DEF ConfigSound, Managed
      <3>4. ReconcileSound(w, n)'
        BY <1>1, <2>1, <2>2, <3>1 DEF ReconcileSound, Managed, Working
      <3>. QED
        BY <3>3, <3>4
    <2>. QED
      BY <1>1, <1>2, <2>1, <2>2, <2>3, Found, Steps
  <1>3. CASE Done(w, n) /\ Fault /\ UNCHANGED key
    BY <1>1, <1>3, Found, FaultTyped, Ends
  <1>. QED
    BY <1>2, <1>3 DEF StoreKey

\* The issuer answers.
LEMMA AnswersInductive ==
    ASSUME ConfigsInv, NEW w \in Pods, NEW n \in Names, Answers(w, n)
    PROVE  ConfigsInv'
  <1>1. /\ Working(w, n) /\ rc[w][n].pc = "probe" /\ Goto(w, n, "ready")
        /\ UNCHANGED <<cfg, lastUID, idx, key, faults, shared, parked>>
    BY DEF Answers, Working
  <1>2. n \notin shared => /\ idx[rc[w][n].url] = rc[w][n].uid
                           /\ ~Managed(rc[w][n]) => key[n] = rc[w][n].uid
    BY <1>1, Found DEF ReconcileSound
  <1>. QED
    BY <1>1, <1>2, GoesOn

\* The key is deleted first.
LEMMA DeleteKeyInductive ==
    ASSUME ConfigsInv, NEW w \in Pods, NEW n \in Names, DeleteKey(w, n)
    PROVE  ConfigsInv'
  <1>. DEFINE r == rc[w][n]
  <1>1. /\ Working(w, n) /\ r.pc = "delkey" /\ Goto(w, n, "delidx")
        /\ UNCHANGED <<cfg, lastUID, idx, faults, shared, parked>>
    BY DEF DeleteKey, Working
  <1>2. /\ rc' \in [Pods -> [Names -> Reconciles]]
        /\ rc'[w][n].pc = "delidx" /\ rc'[w][n].uid = r.uid /\ rc'[w][n].url = r.url
        /\ \A v \in Pods, m \in Names : v # w \/ m # n => rc'[v][m] = rc[v][m]
    BY <1>1, Found, GotoEffect
  <1>3. key' \in [Names -> UIDs] /\ key'[n] = 0 /\ \A m \in Names : m # n => key'[m] = key[m]
    BY <1>1, Found DEF DeleteKey
  <1>4. ASSUME n \notin shared PROVE ConfigSound(n)' /\ ReconcileSound(w, n)'
    <2>1. ConfigSound(n) /\ ReconcileSound(w, n) /\ cfg[n].state = "deleting"
      BY <1>1, <1>4, Found DEF ReconcileSound
    <2>2. ConfigSound(n)'
      BY <1>1, <1>3, <2>1 DEF ConfigSound, Managed
    <2>3. ReconcileSound(w, n)'
      BY <1>1, <1>2, <1>3, <2>1 DEF ReconcileSound, Managed, Working
    <2>. QED
      BY <2>2, <2>3
  <1>. QED
    BY <1>1, <1>2, <1>3, <1>4, Found, Steps

\* The Index is looked for, and is its own or not.
LEMMA FindIndexInductive ==
    ASSUME ConfigsInv, NEW w \in Pods, NEW n \in Names, FindIndex(w, n)
    PROVE  ConfigsInv'
  <1>1. /\ Working(w, n) /\ rc[w][n].pc = "delidx"
        /\ UNCHANGED <<cfg, lastUID, idx, key, faults, shared, parked>>
    BY DEF FindIndex, Working
  <1>2. PICK l \in {"dropidx", "finalize"} :
           l = IF idx[rc[w][n].url] = rc[w][n].uid THEN "dropidx" ELSE "finalize"
    OBVIOUS
  <1>3. Goto(w, n, l)
    BY <1>2 DEF FindIndex
  <1>4. n \notin shared => cfg[n].state = "deleting" /\ key[n] = 0
    BY <1>1, Found DEF ReconcileSound
  <1>. QED
    BY <1>1, <1>2, <1>3, <1>4, GoesOn

\* The Index is deleted, if it is still its own.
LEMMA DropIndexInductive ==
    ASSUME ConfigsInv, NEW w \in Pods, NEW n \in Names, DropIndex(w, n)
    PROVE  ConfigsInv'
  <1>. DEFINE r == rc[w][n]
  <1>1. /\ Working(w, n) /\ r.pc = "dropidx" /\ UNCHANGED <<cfg, lastUID, key, faults, shared, parked>>
    BY DEF DropIndex, Working
  <1>2. CASE idx[r.url] \in {0, r.uid}
    <2>1. idx' = [idx EXCEPT ![r.url] = 0] /\ Goto(w, n, "finalize")
      BY <1>2 DEF DropIndex
    <2>2. /\ idx' \in [Issuers -> UIDs] /\ idx'[r.url] = 0
          /\ \A u \in Issuers : u # r.url => idx'[u] = idx[u]
      BY <1>1, <2>1, Found
    <2>3. /\ rc' \in [Pods -> [Names -> Reconciles]]
          /\ rc'[w][n].pc = "finalize" /\ rc'[w][n].uid = r.uid /\ rc'[w][n].url = r.url
          /\ \A v \in Pods, m \in Names : v # w \/ m # n => rc'[v][m] = rc[v][m]
      BY <1>1, <2>1, Found, GotoEffect
    <2>4. ASSUME n \notin shared PROVE ConfigSound(n)' /\ ReconcileSound(w, n)'
      <3>1. ConfigSound(n) /\ ReconcileSound(w, n) /\ cfg[n].state = "deleting" /\ r.url \in Issuers /\ r.uid # 0
        BY <1>1, <2>4, Found DEF ReconcileSound
      <3>2. ConfigSound(n)'
        BY <1>1, <2>2, <3>1 DEF ConfigSound, Managed
      <3>3. ReconcileSound(w, n)'
        BY <1>1, <2>2, <2>3, <3>1 DEF ReconcileSound, Managed, Working
      <3>. QED
        BY <3>2, <3>3
    <2>. QED
      BY <1>1, <1>2, <2>2, <2>3, <2>4, Found, Steps
  <1>3. CASE idx[r.url] \notin {0, r.uid}
    <2>1. Done(w, n) /\ UNCHANGED idx
      BY <1>3 DEF DropIndex
    <2>. QED
      BY <1>1, <2>1, Found, Ends
  <1>. QED
    BY <1>2, <1>3

\* The finalizer is removed: of a config that has neither Index nor key.
LEMMA RemoveFinalizerInductive ==
    ASSUME ConfigsInv, NEW w \in Pods, NEW n \in Names, RemoveFinalizer(w, n)
    PROVE  ConfigsInv'
  <1>1. /\ Working(w, n) /\ rc[w][n].pc = "finalize" /\ Done(w, n)
        /\ UNCHANGED <<lastUID, idx, key, faults, shared, parked>>
    BY DEF RemoveFinalizer, Working
  <1>2. /\ rc' \in [Pods -> [Names -> Reconciles]] /\ rc'[w][n].pc = "idle"
        /\ \A v \in Pods, m \in Names : v # w \/ m # n => rc'[v][m] = rc[v][m]
    BY <1>1, Found, DoneEffect
  <1>3. /\ cfg' \in [Names -> Configs] /\ \A m \in Names : m # n => cfg'[m] = cfg[m]
        /\ cfg[n].state = "deleting" => cfg'[n] = NoConfig
        /\ cfg[n].state # "deleting" => cfg'[n].uid = cfg[n].uid /\ cfg'[n].state = cfg[n].state
    <2>1. PICK x \in Configs : x = cfg[n]
      BY <1>1, Found
    <2>2. PICK y : y = [x EXCEPT !.fin = FALSE]
      OBVIOUS
    <2>3. y \in Configs /\ y.uid = x.uid /\ y.state = x.state
      BY <2>2 DEF Configs
    <2>4. cfg' = [cfg EXCEPT ![n] = IF x.state = "deleting" THEN NoConfig ELSE y]
      BY <1>1, <2>1, <2>2, Found DEF RemoveFinalizer
    <2>. QED
      BY <1>1, <2>1, <2>3, <2>4, Found, NoConfigTyped
  <1>4. TypeOK'
    BY <1>1, <1>2, <1>3 DEF ConfigsInv, TypeOK
  <1>5. OnlyOf(n)
    BY <1>1, <1>2, <1>3 DEF OnlyOf
  <1>6. KeepsUID(n)
    BY <1>2, <1>3, NoConfigTyped DEF KeepsUID, ConfigsInv, UIDsApart, Working
  <1>7. ASSUME n \notin shared
        PROVE  /\ ConfigSound(n)' /\ (\A v \in Pods : ReconcileSound(v, n)')
               /\ \A u \in Issuers : idx[u] # cfg[n].uid
    <2>1. ConfigSound(n) /\ ReconcileSound(w, n) /\ cfg[n].uid # 0
      BY <1>1, <1>7, Found
    <2>2. cfg[n].state = "deleting" /\ key[n] = 0 /\ idx[cfg[n].url] # cfg[n].uid
      BY <1>1, <2>1 DEF ReconcileSound
    <2>3. \A u \in Issuers : idx[u] # cfg[n].uid
      BY <2>1, <2>2 DEF ConfigSound
    <2>4. ConfigSound(n)'
      BY <1>1, <1>3, <2>2, NoConfigTyped DEF ConfigSound
    <2>5. ASSUME NEW v \in Pods PROVE ~Working(v, n)'
      <3>1. CASE v = w
        BY <1>2, <3>1, Zenon DEF Working
      <3>2. CASE v # w
        <4>1. ~Working(v, n)
          BY <1>1, <2>1, <3>2 DEF ReconcileSound
        <4>. QED
          BY <1>2, <3>2, <4>1, Zenon DEF Working
      <3>. QED
        BY <3>1, <3>2, Zenon
    <2>. QED
      BY <2>3, <2>4, <2>5 DEF ReconcileSound
  <1>. QED
    BY <1>1, <1>4, <1>5, <1>6, <1>7, Locally

\* A reconcile ends early.
LEMMA FailsInductive ==
    ASSUME ConfigsInv, NEW w \in Pods, NEW n \in Names, Fails(w, n)
    PROVE  ConfigsInv'
  <1>1. /\ Working(w, n) /\ Done(w, n) /\ UNCHANGED <<cfg, lastUID, idx, key, shared, parked>> /\ Fault
    BY DEF Fails, Working
  <1>. QED
    BY <1>1, Found, FaultTyped, Ends

\* A pod reads the config: the finalizer is added, or a reconcile starts.
LEMMA ReadInductive ==
    ASSUME ConfigsInv, NEW w \in Pods, NEW n \in Names, Read(w, n)
    PROVE  ConfigsInv'
  <1>1. /\ cfg \in [Names -> Configs] /\ key \in [Names -> UIDs] /\ idx \in [Issuers -> UIDs]
        /\ rc \in [Pods -> [Names -> Reconciles]] /\ faults \in 0 .. MaxFaults /\ shared \subseteq Names
        /\ UIDsApart /\ ~Working(w, n) /\ UNCHANGED <<lastUID, idx, key, parked>> /\ Shared(w, n)
    <2>1. ~Working(w, n) /\ UNCHANGED <<lastUID, idx, key, parked>> /\ Shared(w, n)
      BY DEF Read, Free, Working
    <2>. QED
      BY <2>1, Zenon DEF ConfigsInv, TypeOK
  <1>2. PICK x \in Configs : x = cfg[n] /\ x.uid # 0 /\ x.state \in {"live", "deleting"}
    BY <1>1 DEF Read, UIDsApart, Configs
  <1>3. /\ faults' \in 0 .. MaxFaults /\ shared' \in {shared, shared \cup {n}}
        /\ n \notin shared' => n \notin shared /\ \A v \in Pods : ~Working(v, n)
    <2>1. CASE \A v \in Pods \ {w} : rc[v][n].pc = "idle"
      BY <1>1, <2>1 DEF Shared, Working
    <2>2. CASE ~(\A v \in Pods \ {w} : rc[v][n].pc = "idle")
      <3>1. Fault /\ shared' = shared \cup {n}
        BY <1>1, <2>2 DEF Shared
      <3>. QED
        BY <3>1, FaultTyped DEF ConfigsInv
    <2>. QED
      BY <2>1, <2>2
  <1>4. n \notin shared' => ConfigSound(n)
    BY <1>3 DEF ConfigsInv
  <1>5. CASE x.state = "live" /\ ~x.fin
    <2>1. PICK y : y = [x EXCEPT !.fin = TRUE]
      OBVIOUS
    <2>2. /\ y \in Configs /\ y.uid = x.uid /\ y.state = x.state /\ y.fin /\ y.url = x.url
          /\ y.phase = x.phase
      BY <2>1 DEF Configs
    <2>3. cfg' = [cfg EXCEPT ![n] = y] /\ UNCHANGED rc
      BY <1>1, <1>2, <1>5, <2>1 DEF Read
    <2>4. cfg' \in [Names -> Configs] /\ cfg'[n] = y /\ \A m \in Names : m # n => cfg'[m] = cfg[m]
      BY <1>1, <2>2, <2>3
    <2>5. TypeOK'
      BY <1>1, <1>3, <2>3, <2>4 DEF ConfigsInv, TypeOK
    <2>6. OnlyOf(n) /\ KeepsUID(n)
      BY <1>1, <1>2, <2>2, <2>3, <2>4 DEF OnlyOf, KeepsUID, Working
    <2>7. n \notin shared' => ConfigSound(n)' /\ \A v \in Pods : ReconcileSound(v, n)'
      <3>1. n \notin shared' => ConfigSound(n)'
        BY <1>1, <1>2, <1>4, <2>2, <2>4 DEF ConfigSound, Managed
      <3>. QED
        BY <1>3, <2>3, <3>1 DEF ReconcileSound, Working
    <2>. QED
      BY <1>2, <1>3, <2>2, <2>4, <2>5, <2>6, <2>7, Locally
  <1>6. CASE ~(x.state = "live" /\ ~x.fin)
    <2>1. PICK l \in {"reserve", "delkey", "delidx"} :
             l = IF x.state = "live" THEN "reserve" ELSE IF x.url = x.uid THEN "delidx" ELSE "delkey"
      BY Zenon
    <2>2. PICK r : r = [pc |-> l, uid |-> x.uid, url |-> x.url]
      OBVIOUS
    <2>3. r \in Reconciles /\ r.pc = l /\ r.uid = x.uid /\ r.url = x.url
      BY <2>2 DEF Reconciles, Configs
    <2>4. rc' = [rc EXCEPT ![w][n] = r]
      <3>1. [[pc |-> "delkey", uid |-> x.uid, url |-> x.url] EXCEPT !.pc = "delidx"]
              = [pc |-> "delidx", uid |-> x.uid, url |-> x.url]
        OBVIOUS
      <3>2. CASE x.state = "live"
        BY <1>2, <1>6, <2>1, <2>2, <3>2 DEF Read
      <3>3. CASE x.state # "live"
        BY <1>2, <1>6, <2>1, <2>2, <3>1, <3>3 DEF Read, Managed
      <3>. QED
        BY <3>2, <3>3
    <2>5. PICK y : y = [x EXCEPT !.phase = "Pending"]
      OBVIOUS
    <2>6. /\ y \in Configs /\ y.uid = x.uid /\ y.state = x.state /\ y.fin = x.fin /\ y.url = x.url
          /\ y.phase = "Pending"
      BY <2>5 DEF Configs
    <2>7. cfg' = cfg \/ cfg' = [cfg EXCEPT ![n] = y]
      BY <1>1, <1>2, <1>6, <2>5 DEF Read
    <2>8. /\ cfg' \in [Names -> Configs] /\ \A m \in Names : m # n => cfg'[m] = cfg[m]
          /\ cfg'[n].uid = x.uid /\ cfg'[n].state = x.state /\ cfg'[n].fin = x.fin /\ cfg'[n].url = x.url
          /\ cfg'[n].phase \in {x.phase, "Pending"}
      BY <1>1, <1>2, <2>6, <2>7
    <2>9. /\ rc' \in [Pods -> [Names -> Reconciles]] /\ rc'[w][n] = r
          /\ \A v \in Pods, m \in Names : v # w \/ m # n => rc'[v][m] = rc[v][m]
      BY <1>1, <2>3, <2>4
    <2>10. TypeOK'
      BY <1>1, <1>3, <2>8, <2>9 DEF ConfigsInv, TypeOK
    <2>11. OnlyOf(n) /\ KeepsUID(n)
      BY <1>1, <1>2, <2>3, <2>8, <2>9 DEF OnlyOf, KeepsUID, Working
    <2>12. ASSUME n \notin shared' PROVE ConfigSound(n)' /\ \A v \in Pods : ReconcileSound(v, n)'
      <3>1. ConfigSound(n) /\ x.fin
        BY <1>2, <1>4, <1>6, <2>12 DEF ConfigSound
      <3>2. ConfigSound(n)'
        BY <1>1, <1>2, <2>8, <3>1 DEF ConfigSound, Managed
      <3>3. x.url = x.uid => key[n] = 0
        BY <1>2, <3>1 DEF ConfigSound, Managed
      <3>4. \A v \in Pods : v # w => ~Working(v, n)'
        BY <1>3, <2>9, <2>12 DEF Working
      <3>5. ReconcileSound(w, n)'
        BY <1>1, <1>2, <2>1, <2>3, <2>8, <2>9, <3>1, <3>3, <3>4 DEF ReconcileSound, Managed
      <3>. QED
        BY <3>2, <3>4, <3>5 DEF ReconcileSound
    <2>. QED
      BY <1>2, <1>3, <2>8, <2>10, <2>11, <2>12, Locally
  <1>. QED
    BY <1>5, <1>6

\* A config stays sound while it, its key, the Indexes and the reconciles of it stay.
LEMMA ConfigKept ==
    ASSUME NEW n \in Names, cfg'[n] = cfg[n], key'[n] = key[n], idx' = idx,
           \A v \in Pods : rc'[v][n] = rc[v][n],
           ConfigSound(n), \A v \in Pods : ReconcileSound(v, n)
    PROVE  ConfigSound(n)' /\ \A v \in Pods : ReconcileSound(v, n)'
  <1>1. ConfigSound(n)'
    BY Zenon DEF ConfigSound, Managed
  <1>2. ASSUME NEW v \in Pods PROVE ReconcileSound(v, n)'
    <2>1. \A q \in Pods : Working(q, n)' <=> Working(q, n)
      BY Zenon DEF Working
    <2>. QED
      BY <1>2, <2>1, SMTT(20) DEF ReconcileSound, Managed
  <1>. QED
    BY <1>1, <1>2

-----------------------------------------------------------------------------
(* The API. *)

\* A config is deleted: without a finalizer it has nothing, and nobody works on it.
LEMMA DeleteInductive ==
    ASSUME ConfigsInv, NEW n \in Names, Delete(n)
    PROVE  ConfigsInv'
  <1>1. /\ cfg \in [Names -> Configs] /\ parked' \subseteq Names /\ UIDsApart
        /\ UNCHANGED <<lastUID, idx, key, rc, faults, shared>>
    BY DEF ConfigsInv, TypeOK, Delete
  <1>2. PICK x \in Configs : x = cfg[n] /\ x.state = "live" /\ x.uid # 0
    BY <1>1 DEF Delete, UIDsApart
  <1>3. PICK y : y = [x EXCEPT !.state = "deleting"]
    OBVIOUS
  <1>4. y \in Configs /\ y.uid = x.uid /\ y.state = "deleting" /\ y.fin = x.fin /\ y.url = x.url
    BY <1>3 DEF Configs
  <1>5. PICK z \in Configs : z = IF x.fin THEN y ELSE NoConfig
    BY <1>4, NoConfigTyped
  <1>6. cfg' = [cfg EXCEPT ![n] = z]
    BY <1>1, <1>2, <1>3, <1>5 DEF Delete
  <1>7. cfg' \in [Names -> Configs] /\ cfg'[n] = z /\ \A m \in Names : m # n => cfg'[m] = cfg[m]
    BY <1>1, <1>6
  <1>8. TypeOK'
    BY <1>1, <1>7 DEF ConfigsInv, TypeOK
  <1>9. OnlyOf(n) /\ KeepsUID(n)
    BY <1>1, <1>2, <1>4, <1>5, <1>7, NoConfigTyped DEF OnlyOf, KeepsUID, Working
  <1>10. ASSUME n \notin shared
         PROVE  /\ ConfigSound(n)' /\ (\A v \in Pods : ReconcileSound(v, n)')
                /\ z.uid # x.uid => \A u \in Issuers : idx[u] # x.uid
    <2>1. ConfigSound(n) /\ \A v \in Pods : ReconcileSound(v, n)
      BY <1>10 DEF ConfigsInv
    <2>2. CASE x.fin
      <3>1. /\ cfg'[n] = z /\ z.uid = cfg[n].uid /\ z.state = "deleting" /\ z.fin
            /\ z.url = cfg[n].url /\ z.uid = x.uid
        BY <1>2, <1>4, <1>5, <1>7, <2>2
      <3>2. ConfigSound(n)'
        BY <1>1, <1>2, <2>1, <2>2, <3>1 DEF ConfigSound, Managed
      <3>3. ASSUME NEW v \in Pods PROVE ReconcileSound(v, n)'
        BY <1>1, <2>1, <3>1, Zenon DEF ReconcileSound, Managed, Working
      <3>. QED
        BY <3>1, <3>2, <3>3
    <2>3. CASE ~x.fin
      <3>1. /\ key[n] = 0 /\ (\A u \in Issuers : idx[u] # x.uid) /\ \A v \in Pods : ~Working(v, n)
        BY <1>2, <2>1, <2>3 DEF ConfigSound, ReconcileSound
      <3>. QED
        BY <1>1, <1>5, <1>7, <2>3, <3>1, NoConfigTyped DEF ConfigSound, ReconcileSound, Working
    <2>. QED
      BY <2>2, <2>3
  <1>. QED
    BY <1>1, <1>2, <1>7, <1>8, <1>9, <1>10, Locally

\* A config is created, with a UID nothing has.
LEMMA CreateInductive ==
    ASSUME ConfigsInv, NEW n \in Names, NEW u \in Urls \cup {lastUID + 1}, Create(n, u)
    PROVE  ConfigsInv'
  <1>1. PICK i : i = lastUID + 1
    OBVIOUS
  <1>2. /\ cfg \in [Names -> Configs] /\ lastUID \in Nat /\ lastUID \in UIDs /\ i \in UIDs /\ i \in Nat
        /\ i > lastUID /\ u \in Issuers
    BY <1>1, BoundsNat DEF ConfigsInv, TypeOK, Create, UIDs, Issuers
  <1>3. /\ cfg[n].uid = 0 /\ lastUID' = i /\ UNCHANGED <<idx, key, rc, faults, shared, parked>>
    BY <1>1 DEF Create
  <1>4. PICK y : y = [NoConfig EXCEPT !.uid = i, !.state = "live", !.url = u]
    OBVIOUS
  <1>5. y \in Configs /\ y.uid = i /\ y.state = "live" /\ y.phase = "" /\ y.url = u
    BY <1>2, <1>4 DEF NoConfig, Configs
  <1>6. cfg' \in [Names -> Configs] /\ cfg'[n] = y /\ \A m \in Names : m # n => cfg'[m] = cfg[m]
    BY <1>1, <1>2, <1>4, <1>5 DEF Create
  <1>7. UIDsApart
    BY DEF ConfigsInv
  <1>8. /\ \A k \in Issuers : idx[k] \in Nat /\ idx[k] <= lastUID /\ idx[k] # i
        /\ \A m \in Names : /\ cfg[m].uid \in Nat /\ cfg[m].uid <= lastUID /\ cfg[m].uid # i
                            /\ \A v \in Pods : Working(v, m) => /\ rc[v][m].uid \in Nat /\ rc[v][m].uid # 0
                                                                /\ rc[v][m].uid <= lastUID /\ rc[v][m].uid # i
    <2>1. /\ \A k \in Issuers : idx[k] \in Nat
          /\ \A m \in Names : cfg[m].uid \in Nat /\ \A v \in Pods : rc[v][m].uid \in Nat
      <3>1. \A j \in UIDs : j \in Nat
        BY BoundsNat DEF UIDs
      <3>2. /\ \A k \in Issuers : idx[k] \in UIDs
            /\ \A m \in Names : cfg[m].uid \in UIDs /\ \A v \in Pods : rc[v][m].uid \in UIDs
        BY DEF ConfigsInv, TypeOK, Configs, Reconciles
      <3>. QED
        BY <3>1, <3>2
    <2>. QED
      BY <1>2, <1>7, <2>1 DEF UIDsApart
  <1>9. TypeOK'
    BY <1>2, <1>3, <1>6 DEF ConfigsInv, TypeOK
  <1>10. UIDsApart'
    <2>1. \A v \in Pods, m \in Names : Working(v, m)' <=> Working(v, m)
      BY <1>3 DEF Working
    <2>2. /\ \A k \in Issuers : idx'[k] <= lastUID'
          /\ \A m \in Names : /\ cfg'[m].uid <= lastUID' /\ (cfg'[m].uid = 0 <=> cfg'[m].state = "none")
                              /\ \A v \in Pods : Working(v, m)' => rc'[v][m].uid # 0 /\ rc'[v][m].uid <= lastUID'
      <3>1. \A m \in Names : cfg'[m] = cfg[m] \/ (cfg'[m].uid = i /\ cfg'[m].state = "live")
        BY <1>5, <1>6
      <3>2. i # 0 /\ i <= i /\ \A j \in Nat : j <= lastUID => j <= i
        BY <1>2
      <3>3. \A m \in Names : cfg'[m].uid <= i /\ (cfg'[m].uid = 0 <=> cfg'[m].state = "none")
        BY <1>7, <1>8, <3>1, <3>2 DEF UIDsApart
      <3>. QED
        BY <1>3, <1>8, <2>1, <3>2, <3>3
    <2>3. ASSUME NEW k \in Names, NEW m \in Names, k # m
          PROVE  /\ cfg'[k].uid = cfg'[m].uid => cfg'[k].uid = 0
                 /\ \A v \in Pods : Working(v, k)' => rc'[v][k].uid # cfg'[m].uid
      <3>1. /\ cfg'[k].uid = cfg[k].uid \/ (k = n /\ cfg'[k].uid = i)
            /\ cfg'[m].uid = cfg[m].uid \/ (m = n /\ cfg'[m].uid = i)
        BY <1>5, <1>6
      <3>2. cfg'[k].uid = cfg'[m].uid => cfg'[k].uid = 0
        BY <1>7, <1>8, <2>3, <3>1 DEF UIDsApart
      <3>3. ASSUME NEW v \in Pods, Working(v, k)' PROVE rc'[v][k].uid # cfg'[m].uid
        <4>1. Working(v, k) /\ rc'[v][k].uid = rc[v][k].uid
          BY <1>3, <2>1, <3>3, Zenon
        <4>2. rc[v][k].uid # i /\ rc[v][k].uid # cfg[m].uid
          BY <1>7, <1>8, <2>3, <4>1, Zenon DEF UIDsApart
        <4>. QED
          BY <3>1, <4>1, <4>2, Zenon
      <3>. QED
        BY <3>2, <3>3
    <2>. QED
      BY <2>2, <2>3 DEF UIDsApart
  <1>11. ASSUME NEW m \in Names \ shared PROVE ConfigSound(m)' /\ \A v \in Pods : ReconcileSound(v, m)'
    <2>1. ConfigSound(m) /\ \A v \in Pods : ReconcileSound(v, m)
      BY <1>11 DEF ConfigsInv
    <2>2. CASE m # n
      BY <1>3, <1>6, <2>1, <2>2, ConfigKept, Zenon
    <2>3. CASE m = n
      <3>1. key[n] = 0 /\ \A v \in Pods : ~Working(v, n)
        BY <1>3, <1>8, <2>1, <2>3 DEF ConfigSound, ReconcileSound, ConfigsInv, UIDsApart
      <3>. QED
        BY <1>3, <1>5, <1>6, <1>8, <2>3, <3>1 DEF ConfigSound, ReconcileSound, Working
    <2>. QED
      BY <2>2, <2>3
  <1>12. NoLeak'
    <2>1. SUFFICES ASSUME shared = {}
                   PROVE  /\ \A k \in Issuers : idx[k] # 0 => \E m \in Names : cfg'[m].uid = idx[k] /\ cfg'[m].fin
                          /\ \A m \in Names : key[m] # 0 => cfg'[m].uid = key[m] /\ cfg'[m].fin
      BY <1>3 DEF NoLeak
    <2>2. \A m \in Names : cfg[m].uid # 0 => cfg'[m] = cfg[m]
      BY <1>3, <1>6
    <2>. QED
      <3>1. /\ \A k \in Issuers : idx[k] # 0 => \E m \in Names : cfg[m].uid = idx[k] /\ cfg[m].fin
            /\ \A m \in Names : key[m] # 0 => cfg[m].uid = key[m] /\ cfg[m].fin
        BY <2>1, Zenon DEF ConfigsInv, NoLeak
      <3>2. ASSUME NEW k \in Issuers, idx[k] # 0 PROVE \E m \in Names : cfg'[m].uid = idx[k] /\ cfg'[m].fin
        <4>1. PICK m \in Names : cfg[m].uid = idx[k] /\ cfg[m].fin
          BY <3>1, <3>2, Zenon
        <4>. QED
          BY <2>2, <3>2, <4>1
      <3>3. ASSUME NEW m \in Names, key[m] # 0 PROVE cfg'[m].uid = key[m] /\ cfg'[m].fin
        BY <2>2, <3>1, <3>3
      <3>. QED
        BY <3>2, <3>3, Zenon
  <1>. QED
    BY <1>3, <1>9, <1>10, <1>11, <1>12 DEF ConfigsInv

-----------------------------------------------------------------------------
(* The invariant, and what follows. *)

\* Before the first config.
LEMMA InitInductive == Init => ConfigsInv
  <1>. SUFFICES ASSUME Init PROVE ConfigsInv
    OBVIOUS
  <1>1. 0 \in UIDs /\ 0 \in 0 .. MaxFaults
    BY BoundsNat DEF UIDs
  <1>2. /\ \A n \in Names : cfg[n] = NoConfig /\ key[n] = 0 /\ \A w \in Pods : ~Working(w, n)
        /\ \A u \in Issuers : idx[u] = 0
    BY IdleTyped DEF Init, Working
  <1>3. TypeOK
    BY <1>1, IdleTyped, NoConfigTyped DEF Init, TypeOK
  <1>4. UIDsApart
    BY <1>2, NoConfigTyped DEF Init, UIDsApart
  <1>5. \A n \in Names : ConfigSound(n) /\ \A w \in Pods : ReconcileSound(w, n)
    BY <1>2, NoConfigTyped DEF ConfigSound, ReconcileSound
  <1>6. NoLeak
    BY <1>2 DEF NoLeak
  <1>. QED
    BY <1>3, <1>4, <1>5, <1>6 DEF ConfigsInv

\* Every step preserves the invariant.
LEMMA NextInductive == ConfigsInv /\ [Next]_vars => ConfigsInv'
  <1>. SUFFICES ASSUME ConfigsInv, [Next]_vars PROVE ConfigsInv'
    OBVIOUS
  <1>1. ASSUME UNCHANGED <<cfg, lastUID, idx, key, rc, faults, shared>>, parked' \subseteq Names PROVE ConfigsInv'
    <2>1. TypeOK'
      BY <1>1 DEF ConfigsInv, TypeOK
    <2>2. UIDsApart' /\ NoLeak'
      BY <1>1, Zenon DEF ConfigsInv, UIDsApart, NoLeak, Working
    <2>3. ASSUME NEW n \in Names \ shared'
          PROVE  ConfigSound(n)' /\ \A v \in Pods : ReconcileSound(v, n)'
      BY <1>1, <2>3, ConfigKept, Zenon DEF ConfigsInv
    <2>. QED
      BY <2>1, <2>2, <2>3, Zenon DEF ConfigsInv
  <1>2. CASE UNCHANGED vars
    BY <1>1, <1>2 DEF vars, ConfigsInv, TypeOK
  <1>3. ASSUME NEW n \in Names, Restart(n) PROVE ConfigsInv'
    BY <1>1, <1>3 DEF Restart, ConfigsInv, TypeOK
  <1>4. ASSUME NEW n \in Names, NEW w \in Owners[n], Work(w, n) \/ InvalidKey(w, n) \/ Fails(w, n)
        PROVE  ConfigsInv'
    <2>1. w \in Pods
      BY PodsNat
    <2>. QED
      BY <1>4, <2>1, ReadInductive, ReserveInductive, ExistingInductive, ReportsInductive, LookForKeyInductive,
         StoreKeyInductive, AnswersInductive, DeleteKeyInductive, FindIndexInductive, DropIndexInductive,
         RemoveFinalizerInductive, FailsInductive DEF Work
  <1>. QED
    BY <1>2, <1>3, <1>4, DeleteInductive, CreateInductive DEF Next

\* The invariant holds.
LEMMA ConfigsHold == Spec => []ConfigsInv
  BY InitInductive, NextInductive, PTL DEF Spec

\* A Ready config has the Index of its issuer URL and, if it is unmanaged, its own
\* key, whoever had the URL or the name before, and an Index or a key has a config
\* whose deletion removes it, as long as no two pods reconcile one config at a time
\* (reserveIssuerURLIndex, checkReadiness, reconcileDelete).
THEOREM ConfigsAgree == Spec => []ConfigsConsistent
  <1>1. ConfigsInv => ConfigsConsistent
    BY DEF ConfigsInv, ConfigsConsistent, ReadyIsBacked, ConfigSound
  <1>. QED
    BY <1>1, ConfigsHold, PTL
=============================================================================
