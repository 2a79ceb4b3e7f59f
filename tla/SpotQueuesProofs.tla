--------------------------- MODULE SpotQueuesProofs ---------------------------
(***************************************************************************)
(* Proof, for any number of Clusters, requests and attempts, that a Spot   *)
(* termination queue is held by the Cluster that uses it, and by the       *)
(* request that is about to write such a Cluster.                          *)
(***************************************************************************)
EXTENDS SpotQueues, TLAPS

\* A request that has ended relies on nothing.
LEMMA IdleSound ==
    /\ Idle \in Call /\ NoIndex \in Index
    /\ Idle.pc = "idle" /\ Idle.c = NoOwner /\ ~Idle.fresh /\ Idle.made = FALSE
    /\ Sound(Idle)
  BY NoOwnerIsNone, AttemptsPositive DEF Idle, Call, NoIndex, Index, Sound

\* No Clusters, no claim and no requests.
LEMMA InitInductive ==
    ASSUME SpotInit
    PROVE  SpotInv
  <1>1. \A r \in Callers : rq[r] = Idle
    BY DEF SpotInit
  <1>2. ClaimBacked
    BY <1>1, IdleSound DEF SpotInit, ClaimBacked, SpotTypeOK
  <1>. QED
    BY <1>1, <1>2, IdleSound DEF SpotInv

\* A step of request r, after which it is y and the others are for the Clusters
\* they were for.
LEMMA StepInductive ==
    ASSUME SpotInv, NEW r \in Callers, NEW y \in Call,
           rq' \in [Callers -> Call], rq'[r] = y,
           y.pc = "idle" \/ (rq[r].pc # "idle" /\ y.c = rq[r].c /\ y.alone = rq[r].alone),
           \A q \in Callers : q # r => /\ rq'[q].pc = rq[q].pc /\ rq'[q].c = rq[q].c
                                       /\ rq'[q].alone = rq[q].alone,
           \A q \in Callers : Sound(rq[q])',
           ClaimBacked'
    PROVE  SpotInv'
  <1>1. ASSUME NEW q \in Callers, rq'[q].pc # "idle", rq'[q].alone PROVE NoRival(q)'
    <2>0. \A z \in Callers : Sound(rq[z])
      BY DEF SpotInv
    <2>1. CASE q = r
      BY <1>1, <2>1 DEF SpotInv, NoRival
    <2>2. CASE q # r
      <3>1. NoRival(q) /\ rq'[q].c = rq[q].c /\ rq[q].c # NoOwner
        BY <1>1, <2>0, <2>2 DEF SpotInv, Sound
      <3>2. rq'[r].c = rq[r].c \/ rq'[r].c = NoOwner
        BY DEF Sound
      <3>. QED
        BY <2>2, <3>1, <3>2 DEF NoRival
    <2>. QED
      BY <2>1, <2>2
  <1>. QED
    BY <1>1 DEF SpotInv

\* A step that writes nothing.
LEMMA MoveInductive ==
    ASSUME SpotInv, NEW r \in Callers, NEW y \in Call, Move(r, y),
           UNCHANGED <<cl, idx, robbed>>,
           y.pc = "idle" \/ (rq[r].pc # "idle" /\ y.c = rq[r].c /\ y.alone = rq[r].alone),
           Sound(y)
    PROVE  SpotInv'
  <1>1. rq \in [Callers -> Call]
    BY DEF SpotInv, ClaimBacked, SpotTypeOK
  <1>2. /\ rq' \in [Callers -> Call] /\ rq'[r] = y
        /\ \A q \in Callers : q # r => rq'[q] = rq[q]
    BY <1>1 DEF Move
  <1>3. ClaimBacked'
    BY <1>2 DEF SpotInv, ClaimBacked, SpotTypeOK
  <1>4. ASSUME NEW q \in Callers PROVE Sound(rq[q])'
    <2>1. CASE q = r
      BY <1>2, <2>1 DEF Sound
    <2>2. CASE q # r
      <3>1. Sound(rq[q]) /\ rq'[q] = rq[q]
        BY <1>2, <2>2 DEF SpotInv
      <3>. QED
        BY <3>1 DEF Sound
    <2>. QED
      BY <2>1, <2>2
  <1>. QED
    BY <1>2, <1>3, <1>4, StepInductive

\* A request ends.
LEMMA EndInductive ==
    ASSUME SpotInv, NEW r \in Callers, Move(r, Idle), UNCHANGED <<cl, idx, robbed>>
    PROVE  SpotInv'
  BY IdleSound, MoveInductive

\* The start of a request: it, and the others for its Cluster, have a rival.
LEMMA StartInductive ==
    ASSUME SpotInv, NEW r \in Callers, Start(r)
    PROVE  SpotInv'
  <1>0. ClaimBacked /\ SpotTypeOK /\ \A q \in Callers : Sound(rq[q]) /\ rq[q] \in Call
    BY DEF SpotInv, ClaimBacked, SpotTypeOK
  <1>1. PICK c \in Clusters, k \in {"create", "update"}, w \in {"plain", "queue"} :
           rq' = [q \in Callers |->
                    IF q = r THEN [Idle EXCEPT !.pc = IF k = "update" THEN "get"
                                                      ELSE IF w = "queue" THEN "list" ELSE "save",
                                               !.kind = k, !.c = c, !.want = w,
                                               !.alone = \A x \in Callers : rq[x].c # c]
                    ELSE [rq[q] EXCEPT !.alone = @ /\ rq[q].c # c]]
    BY DEF Start
  <1>2. PICK p \in {"get", "list", "save"}, a \in BOOLEAN :
           /\ p = (IF k = "update" THEN "get" ELSE IF w = "queue" THEN "list" ELSE "save")
           /\ a = (\A x \in Callers : rq[x].c # c)
    OBVIOUS
  <1>a. a => \A x \in Callers : rq[x].c # c
    BY <1>2
  <1>b. PICK z \in Call : z = Idle /\ ~z.fresh
    BY IdleSound
  <1>. DEFINE y == [z EXCEPT !.pc = p, !.kind = k, !.c = c, !.want = w, !.alone = a]
  <1>3. /\ y \in Call /\ y.pc = p /\ y.c = c /\ y.want = w /\ y.kind = k /\ y.alone = a
        /\ ~y.fresh
    <2>1. /\ y.pc = p /\ y.c = c /\ y.want = w /\ y.kind = k /\ y.alone = a /\ y.fresh = z.fresh
      BY DEF Call
    <2>2. [z EXCEPT !.pc = p, !.kind = k, !.c = c] \in Call
      BY DEF Call
    <2>3. \A u \in Call : [u EXCEPT !.want = w, !.alone = a] \in Call
      BY DEF Call
    <2>4. y = [[z EXCEPT !.pc = p, !.kind = k, !.c = c] EXCEPT !.want = w, !.alone = a]
      BY DEF Call
    <2>. QED
      BY <1>b, <2>1, <2>2, <2>3, <2>4
  <1>4. rq'[r] = y
    BY <1>1, <1>2, <1>b
  <1>. HIDE DEF y
  <1>5. ASSUME NEW q \in Callers, q # r
        PROVE  /\ rq'[q] \in Call /\ (rq'[q].alone => rq[q].alone /\ rq[q].c # c)
               /\ rq'[q].pc = rq[q].pc /\ rq'[q].kind = rq[q].kind /\ rq'[q].c = rq[q].c
               /\ rq'[q].want = rq[q].want /\ rq'[q].left = rq[q].left /\ rq'[q].fresh = rq[q].fresh
               /\ rq'[q].clFresh = rq[q].clFresh /\ rq'[q].seen = rq[q].seen
    <2>1. PICK x \in Call, b \in BOOLEAN : x = rq[q] /\ b = (rq[q].alone /\ rq[q].c # c)
      BY <1>0 DEF Call
    <2>2. rq'[q] = [x EXCEPT !.alone = b]
      BY <1>1, <1>5, <2>1
    <2>. QED
      BY <2>1, <2>2 DEF Call
  <1>6. rq' \in [Callers -> Call]
    <2>1. \A q \in Callers : rq'[q] \in Call
      BY <1>3, <1>4, <1>5
    <2>. QED
      BY <1>1, <2>1
  <1>7. UNCHANGED <<cl, idx, robbed>>
    BY DEF Start
  <1>8. ClaimBacked'
    BY <1>0, <1>6, <1>7 DEF ClaimBacked, SpotTypeOK
  <1>9. ASSUME NEW q \in Callers PROVE Sound(rq[q])'
    <2>1. CASE q = r
      BY <1>2, <1>3, <1>4, <2>1, NoOwnerIsNone, AttemptsPositive DEF Sound
    <2>2. CASE q # r
      <3>1. PICK u \in Call, v \in Call : u = rq[q] /\ v = rq'[q]
        BY <1>0, <1>5, <2>2
      <3>2. Sound(u)
        BY <1>0, <3>1
      <3>3. /\ v.alone => u.alone
            /\ v.pc = u.pc /\ v.kind = u.kind /\ v.c = u.c /\ v.want = u.want /\ v.left = u.left
            /\ v.fresh = u.fresh /\ v.clFresh = u.clFresh /\ v.seen = u.seen
        BY <1>5, <2>2, <3>1
      <3>4. Sound(v)
        BY <3>2, <3>3 DEF Sound
      <3>. QED
        BY <1>7, <3>1, <3>4 DEF Sound
    <2>. QED
      BY <2>1, <2>2
  <1>10. ASSUME NEW q \in Callers, rq'[q].pc # "idle", rq'[q].alone PROVE NoRival(q)'
    <2>1. CASE q = r
      <3>1. a
        BY <1>3, <1>4, <1>10, <2>1
      <3>. QED
        BY <1>3, <1>4, <1>5, <1>a, <2>1, <3>1 DEF NoRival
    <2>2. CASE q # r
      <3>1. NoRival(q) /\ rq[q].c # c
        BY <1>5, <1>10, <2>2 DEF SpotInv
      <3>. QED
        BY <1>3, <1>4, <1>5, <2>2, <3>1 DEF NoRival
    <2>. QED
      BY <2>1, <2>2
  <1>. QED
    BY <1>8, <1>9, <1>10 DEF SpotInv

\* The next attempt is sound in any state.
LEMMA AgainFields ==
    ASSUME NEW r \in Callers, NEW x \in Call, x = rq[r], x.left > 0,
           x.c # NoOwner, x.pc # "idle"
    PROVE  /\ Again(r) \in Call /\ Again(r).fresh = FALSE
           /\ \/ Again(r).pc = "idle" /\ Again(r).c = NoOwner
              \/ /\ Again(r).pc = "claim" /\ Again(r).left > 0
                 /\ Again(r).c = x.c /\ Again(r).alone = x.alone
  <1>1. CASE x.left = 1
    <2>1. Again(r) = Idle
      BY <1>1 DEF Again
    <2>. QED
      BY <2>1, IdleSound
  <1>2. CASE x.left # 1
    <2>1. PICK l \in 0 .. Attempts : l = x.left - 1 /\ l > 0
      BY <1>2, NoOwnerIsNone, AttemptsPositive DEF Call
    <2>2. Again(r) = [x EXCEPT !.pc = "claim", !.left = l, !.fresh = FALSE]
      <3>1. Again(r) = [At(r, "claim") EXCEPT !.left = @ - 1, !.fresh = FALSE]
        BY <1>2 DEF Again
      <3>2. At(r, "claim") = [x EXCEPT !.pc = "claim"] /\ At(r, "claim").left = x.left
        BY DEF At, Call
      <3>. QED
        BY <2>1, <3>1, <3>2 DEF Call
    <2>. QED
      BY <2>1, <2>2 DEF Call
  <1>. QED
    BY <1>1, <1>2

\* updateOnce's read: a Cluster with the queue backs the claim on it.
LEMMA GetInductive ==
    ASSUME SpotInv, NEW r \in Callers, Get(r)
    PROVE  SpotInv'
  <1>0. ClaimBacked /\ SpotTypeOK
    BY DEF SpotInv, ClaimBacked
  <1>1. PICK x \in Call : x = rq[r] /\ Sound(x) /\ x.pc = "get"
    BY <1>0 DEF SpotInv, SpotTypeOK, Get
  <1>2. x.c \in Clusters /\ cl[x.c] \in {"none", "plain", "queue"} /\ x.kind = "update"
    BY <1>0, <1>1 DEF Call, SpotTypeOK, Sound
  <1>3. CASE cl[x.c] = "none"
    BY <1>1, <1>3, EndInductive DEF Get
  <1>4. CASE cl[x.c] # "none"
    <2>1. PICK p \in {"list", "save"} :
             p = IF x.want = "queue" /\ cl[x.c] = "plain" THEN "list" ELSE "save"
      OBVIOUS
    <2>. DEFINE y == [x EXCEPT !.pc = p, !.clFresh = TRUE]
    <2>2. Move(r, y) /\ UNCHANGED <<cl, idx, robbed>>
      BY <1>1, <1>4, <2>1 DEF Get
    <2>3. /\ y \in Call /\ y.pc = p /\ y.c = x.c /\ y.want = x.want
          /\ y.kind = x.kind /\ y.alone = x.alone
      BY DEF Call
    <2>. HIDE DEF y
    <2>4. Sound(y)
      BY <1>0, <1>1, <1>2, <1>4, <2>1, <2>3 DEF Sound, ClaimBacked
    <2>. QED
      BY <1>1, <2>2, <2>3, <2>4, MoveInductive
  <1>. QED
    BY <1>3, <1>4

\* The look at the other Clusters leads to the first attempt or to a refusal.
LEMMA ListInductive ==
    ASSUME SpotInv, NEW r \in Callers, List(r)
    PROVE  SpotInv'
  <1>1. PICK x \in Call : x = rq[r] /\ Sound(x) /\ x.pc = "list"
    BY DEF SpotInv, ClaimBacked, SpotTypeOK, List
  <1>2. CASE Uses(r) # {}
    BY <1>2, EndInductive DEF List
  <1>3. CASE Uses(r) = {}
    <2>. DEFINE y == [x EXCEPT !.pc = "claim", !.left = Attempts]
    <2>1. Attempts \in 0 .. Attempts /\ Attempts > 0
      BY NoOwnerIsNone, AttemptsPositive
    <2>2. Move(r, y) /\ UNCHANGED <<cl, idx, robbed>>
      <3>1. [At(r, "claim") EXCEPT !.left = Attempts] = y
        BY <1>1 DEF At, Call
      <3>. QED
        BY <1>3, <3>1 DEF List
    <2>3. /\ y \in Call /\ y.pc = "claim" /\ y.left > 0 /\ y.c = x.c /\ y.alone = x.alone
      BY <2>1 DEF Call
    <2>. HIDE DEF y
    <2>4. Sound(y)
      BY <1>1, <2>3 DEF Sound
    <2>. QED
      BY <1>1, <2>2, <2>3, <2>4, MoveInductive
  <1>. QED
    BY <1>2, <1>3

\* What is read of the Index holds while it is fresh.
LEMMA LookInductive ==
    ASSUME SpotInv, NEW r \in Callers, Look(r)
    PROVE  SpotInv'
  <1>0. SpotTypeOK /\ idx \in Index /\ UNCHANGED <<cl, idx, robbed>>
    BY DEF SpotInv, ClaimBacked, SpotTypeOK, Look
  <1>1. PICK x \in Call : /\ x = rq[r] /\ Sound(x) /\ x.pc = "look"
                          /\ x.left > 0 /\ x.c # NoOwner
    BY DEF SpotInv, ClaimBacked, SpotTypeOK, Look, Sound
  <1>2. CASE idx.owner = NoOwner
    <2>1. Move(r, Again(r))
      BY <1>2 DEF Look
    <2>2. Sound(Again(r))
      BY <1>1, AgainFields DEF Sound
    <2>. QED
      BY <1>0, <1>1, <2>1, <2>2, AgainFields, MoveInductive
  <1>3. CASE idx.owner # NoOwner /\ idx.owner = x.c
    <2>. DEFINE y == [x EXCEPT !.pc = "refresh", !.fresh = TRUE]
    <2>1. Move(r, y)
      <3>1. [At(r, "refresh") EXCEPT !.fresh = TRUE] = y
        BY <1>1 DEF At, Call
      <3>. QED
        BY <1>1, <1>3, <3>1 DEF Look
    <2>2. y \in Call /\ y.pc = "refresh" /\ y.c = x.c /\ y.alone = x.alone /\ y.left = x.left
      BY DEF Call
    <2>. HIDE DEF y
    <2>3. Sound(y)
      BY <1>1, <1>3, <2>2 DEF Sound
    <2>. QED
      BY <1>0, <1>1, <2>1, <2>2, <2>3, MoveInductive
  <1>4. CASE idx.owner # NoOwner /\ idx.owner # x.c
    <2>. DEFINE y == [x EXCEPT !.pc = "owner", !.fresh = TRUE, !.seen = idx]
    <2>1. Move(r, y)
      <3>1. [At(r, "owner") EXCEPT !.fresh = TRUE, !.seen = idx] = y
        BY <1>1 DEF At, Call
      <3>. QED
        BY <1>1, <1>4, <3>1 DEF Look
    <2>2. /\ y \in Call /\ y.pc = "owner" /\ y.c = x.c /\ y.alone = x.alone /\ y.left = x.left
          /\ y.seen = idx
      BY <1>0 DEF Call
    <2>. HIDE DEF y
    <2>3. Sound(y)
      BY <1>1, <2>2 DEF Sound
    <2>. QED
      BY <1>0, <1>1, <2>1, <2>2, <2>3, MoveInductive
  <1>. QED
    BY <1>2, <1>3, <1>4

\* Only an old claim that its Cluster does not use is taken over.
LEMMA OwnerInductive ==
    ASSUME SpotInv, NEW r \in Callers, Owner(r)
    PROVE  SpotInv'
  <1>1. PICK x \in Call : x = rq[r] /\ Sound(x) /\ x.pc = "owner"
    BY DEF SpotInv, ClaimBacked, SpotTypeOK, Owner
  <1>2. CASE ~(cl[x.seen.owner] # "queue" /\ x.seen.old)
    BY <1>1, <1>2, EndInductive DEF Owner
  <1>3. CASE cl[x.seen.owner] # "queue" /\ x.seen.old
    <2>. DEFINE y == [x EXCEPT !.pc = "reclaim", !.seen = NoIndex]
    <2>1. Move(r, y) /\ UNCHANGED <<cl, idx, robbed>>
      <3>1. [At(r, "reclaim") EXCEPT !.seen = NoIndex] = y
        BY <1>1 DEF At, Call
      <3>. QED
        BY <1>1, <1>3, <3>1 DEF Owner
    <2>2. /\ y \in Call /\ y.pc = "reclaim" /\ y.c = x.c /\ y.alone = x.alone
          /\ y.left = x.left /\ y.fresh = x.fresh
      BY IdleSound DEF Call
    <2>. HIDE DEF y
    <2>3. Sound(y)
      BY <1>1, <1>3, <2>2 DEF Sound
    <2>. QED
      BY <1>1, <2>1, <2>2, <2>3, MoveInductive
  <1>. QED
    BY <1>2, <1>3

\* A failed request reads the Index that it may have made.
LEMMA ReleaseInductive ==
    ASSUME SpotInv, NEW r \in Callers, ReadClaim(r)
    PROVE  SpotInv'
  <1>1. PICK x \in Call : x = rq[r] /\ Sound(x) /\ x.pc = "release"
    BY DEF SpotInv, ClaimBacked, SpotTypeOK, ReadClaim
  <1>2. CASE idx.owner # x.c
    BY <1>1, <1>2, EndInductive DEF ReadClaim
  <1>3. CASE idx.owner = x.c
    <2>. DEFINE y == [x EXCEPT !.pc = "check", !.fresh = TRUE]
    <2>1. Move(r, y) /\ UNCHANGED <<cl, idx, robbed>>
      <3>1. [At(r, "check") EXCEPT !.fresh = TRUE] = y
        BY <1>1 DEF At, Call
      <3>. QED
        BY <1>1, <1>3, <3>1 DEF ReadClaim
    <2>2. y \in Call /\ y.pc = "check" /\ y.c = x.c /\ y.alone = x.alone
      BY DEF Call
    <2>. HIDE DEF y
    <2>3. Sound(y)
      BY <1>1, <1>3, <2>2 DEF Sound
    <2>. QED
      BY <1>1, <2>1, <2>2, <2>3, MoveInductive
  <1>. QED
    BY <1>2, <1>3

\* It gives back only what its Cluster does not use.
LEMMA CheckInductive ==
    ASSUME SpotInv, NEW r \in Callers, Check(r)
    PROVE  SpotInv'
  <1>1. PICK x \in Call : x = rq[r] /\ Sound(x) /\ x.pc = "check"
    BY DEF SpotInv, ClaimBacked, SpotTypeOK, Check
  <1>2. CASE cl[x.c] = "queue"
    BY <1>1, <1>2, EndInductive DEF Check
  <1>3. CASE cl[x.c] # "queue"
    <2>. DEFINE y == [x EXCEPT !.pc = "free"]
    <2>1. Move(r, y) /\ UNCHANGED <<cl, idx, robbed>>
      BY <1>1, <1>3 DEF Check, At
    <2>2. y \in Call /\ y.pc = "free" /\ y.c = x.c /\ y.alone = x.alone /\ y.fresh = x.fresh
      BY DEF Call
    <2>. HIDE DEF y
    <2>3. Sound(y)
      BY <1>1, <1>3, <2>2 DEF Sound
    <2>. QED
      BY <1>1, <2>1, <2>2, <2>3, MoveInductive
  <1>. QED
    BY <1>2, <1>3

\* A write of the Index makes what the others have read of it stale.  It is safe
\* if it leaves the owner its claim, or if nobody relies on that claim.
LEMMA IndexInductive ==
    ASSUME SpotInv, NEW r \in Callers, NEW y \in Call, WroteIndex(r, y),
           cl' = cl, idx' \in Index, robbed \subseteq robbed', robbed' \subseteq Clusters,
           y.pc = "idle" \/ (rq[r].pc # "idle" /\ y.c = rq[r].c /\ y.alone = rq[r].alone),
           Sound(rq[r])',
           \/ idx'.owner = idx.owner /\ (idx'.old => idx.old)
           \/ idx.owner \in robbed' \cup {NoOwner}
           \/ /\ cl[idx.owner] # "queue"
              /\ \A q \in Callers : q # r /\ rq[q].c = idx.owner => rq[q].pc # "save" \/ rq[q].want # "queue"
                    \/ (rq[q].kind = "update" /\ ~rq[q].clFresh)
    PROVE  SpotInv'
  <1>0. ClaimBacked /\ SpotTypeOK /\ \A q \in Callers : Sound(rq[q]) /\ rq[q] \in Call
    BY DEF SpotInv, ClaimBacked, SpotTypeOK
  <1>1. ASSUME NEW q \in Callers, q # r
        PROVE  /\ rq'[q] \in Call /\ rq'[q].fresh = FALSE /\ rq'[q].alone = rq[q].alone
               /\ rq'[q].pc = rq[q].pc /\ rq'[q].kind = rq[q].kind /\ rq'[q].c = rq[q].c
               /\ rq'[q].want = rq[q].want /\ rq'[q].left = rq[q].left
               /\ rq'[q].clFresh = rq[q].clFresh
    <2>1. PICK u \in Call : u = rq[q]
      BY <1>0
    <2>2. rq'[q] = [u EXCEPT !.fresh = FALSE]
      BY <1>1, <2>1 DEF WroteIndex
    <2>. QED
      BY <2>1, <2>2 DEF Call
  <1>2. rq' \in [Callers -> Call] /\ rq'[r] = y
    <2>1. rq'[r] = y
      BY DEF WroteIndex
    <2>2. \A q \in Callers : rq'[q] \in Call
      BY <1>0, <1>1, <2>1
    <2>. QED
      BY <2>1, <2>2 DEF WroteIndex
  <1>3. ClaimBacked'
    BY <1>0, <1>2, NoOwnerIsNone, AttemptsPositive DEF ClaimBacked, SpotTypeOK
  <1>4. ASSUME NEW q \in Callers PROVE Sound(rq[q])'
    <2>1. CASE q = r
      BY <2>1
    <2>2. CASE q # r
      <3>1. PICK u \in Call, v \in Call : u = rq[q] /\ v = rq'[q]
        BY <1>0, <1>2
      <3>2. Sound(u)
        BY <1>0, <3>1
      <3>3. /\ v.fresh = FALSE /\ v.alone = u.alone
            /\ v.pc = u.pc /\ v.kind = u.kind /\ v.c = u.c /\ v.want = u.want
            /\ v.left = u.left /\ v.clFresh = u.clFresh
        BY <1>1, <2>2, <3>1
      <3>4. v.pc = "save" /\ v.want = "queue" /\ v.c \notin robbed' =>
              /\ v.kind = "create" => idx'.owner = v.c /\ ~idx'.old
              /\ v.kind = "update" /\ v.clFresh => idx'.owner = v.c /\ (idx'.old => cl[v.c] = "queue")
        <4>. SUFFICES ASSUME u.pc = "save", u.want = "queue", u.c \notin robbed',
                             u.kind = "create" \/ u.clFresh
                      PROVE  idx'.owner = idx.owner /\ (idx'.old => idx.old)
          BY <3>2, <3>3 DEF Sound, Call
        <4>1. u.c \notin robbed /\ u.kind \in {"create", "update"} /\ u.c # NoOwner
          BY <3>2 DEF Sound, Call
        <4>2. idx.owner = u.c
          BY <3>2, <4>1 DEF Sound
        <4>. QED
          BY <2>2, <3>1, <4>1, <4>2
      <3>5. (v.pc = "idle" <=> v.c = NoOwner) /\ (v.pc = "get" => v.kind = "update")
            /\ (v.pc \in {"claim", "look", "refresh", "owner", "reclaim"} => v.left > 0)
            /\ (v.pc = "free" /\ v.alone => cl[v.c] # "queue")
        BY <3>2, <3>3 DEF Sound
      <3>. QED
        BY <3>1, <3>3, <3>4, <3>5 DEF Sound
    <2>. QED
      BY <2>1, <2>2
  <1>5. \A q \in Callers : q # r => /\ rq'[q].pc = rq[q].pc /\ rq'[q].c = rq[q].c
                                    /\ rq'[q].alone = rq[q].alone
    BY <1>0, <1>1
  <1>. QED
    BY <1>2, <1>3, <1>4, <1>5, StepInductive

\* The request has the claim: it owns the Index, which is new.
LEMMA ClaimedFields ==
    ASSUME NEW r \in Callers, NEW x \in Call, x = rq[r], NEW m \in BOOLEAN,
           x.c # NoOwner
    PROVE  /\ Claimed(r, m) \in Call /\ Claimed(r, m).pc = "save"
           /\ Claimed(r, m).c = x.c /\ Claimed(r, m).alone = x.alone
  <1>1. Claimed(r, m) = [x EXCEPT !.pc = "save", !.made = m, !.left = 0, !.fresh = FALSE]
    BY DEF Claimed, At, Call
  <1>2. 0 \in 0 .. Attempts
    BY NoOwnerIsNone, AttemptsPositive
  <1>. QED
    BY <1>1, <1>2 DEF Call

\* An Index is created where there is none, so nobody's claim is taken.
LEMMA ClaimInductive ==
    ASSUME SpotInv, NEW r \in Callers, Claim(r)
    PROVE  SpotInv'
  <1>1. PICK x \in Call : /\ x = rq[r] /\ Sound(x) /\ x.pc = "claim"
                          /\ x.left > 0 /\ x.c \in Clusters /\ x.c # NoOwner
    BY DEF SpotInv, ClaimBacked, SpotTypeOK, Claim, Sound, Call
  <1>2. CASE idx.owner = NoOwner
    <2>. DEFINE y == Claimed(r, TRUE)
    <2>1. /\ WroteIndex(r, y) /\ UNCHANGED <<cl, robbed>>
          /\ idx' = [owner |-> x.c, old |-> FALSE]
      BY <1>1, <1>2 DEF Claim
    <2>2. y \in Call /\ y.pc = "save" /\ y.c = x.c /\ y.alone = x.alone
      BY <1>1, ClaimedFields
    <2>. HIDE DEF y
    <2>3. rq'[r] = y
      BY <2>1 DEF WroteIndex
    <2>4. Sound(rq[r])'
      BY <1>1, <2>1, <2>2, <2>3 DEF Sound
    <2>5. idx' \in Index /\ robbed \subseteq Clusters
      BY <1>1, <2>1 DEF Index, SpotInv, ClaimBacked, SpotTypeOK
    <2>. QED
      BY <1>1, <1>2, <2>1, <2>2, <2>4, <2>5, IndexInductive
  <1>3. CASE idx.owner # NoOwner
    <2>. DEFINE y == [x EXCEPT !.pc = "look"]
    <2>1. Move(r, y) /\ UNCHANGED <<cl, idx, robbed>>
      BY <1>1, <1>3 DEF Claim, At
    <2>2. y \in Call /\ y.pc = "look" /\ y.c = x.c /\ y.alone = x.alone /\ y.left = x.left
      BY DEF Call
    <2>. HIDE DEF y
    <2>3. Sound(y)
      BY <1>1, <2>2 DEF Sound
    <2>. QED
      BY <1>1, <2>1, <2>2, <2>3, MoveInductive
  <1>. QED
    BY <1>2, <1>3

\* A claim that is dated anew keeps its owner.
LEMMA RefreshInductive ==
    ASSUME SpotInv, NEW r \in Callers, Refresh(r)
    PROVE  SpotInv'
  <1>1. PICK x \in Call : /\ x = rq[r] /\ Sound(x) /\ x.pc = "refresh"
                          /\ x.left > 0 /\ x.c \in Clusters /\ x.c # NoOwner
    BY DEF SpotInv, ClaimBacked, SpotTypeOK, Refresh, Sound, Call
  <1>2. CASE x.fresh
    <2>. DEFINE y == Claimed(r, FALSE)
    <2>1. /\ WroteIndex(r, y) /\ UNCHANGED <<cl, robbed>>
          /\ idx' = [idx EXCEPT !.old = FALSE]
      BY <1>1, <1>2 DEF Refresh
    <2>2. y \in Call /\ y.pc = "save" /\ y.c = x.c /\ y.alone = x.alone
      BY <1>1, ClaimedFields
    <2>. HIDE DEF y
    <2>3. rq'[r] = y
      BY <2>1 DEF WroteIndex
    <2>4. idx' \in Index /\ idx'.owner = idx.owner /\ ~idx'.old /\ robbed \subseteq Clusters
      BY <2>1 DEF Index, SpotInv, ClaimBacked, SpotTypeOK
    <2>5. idx.owner = x.c
      BY <1>1, <1>2 DEF Sound
    <2>6. Sound(rq[r])'
      BY <1>1, <2>2, <2>3, <2>4, <2>5 DEF Sound
    <2>. QED
      BY <1>1, <2>1, <2>2, <2>4, <2>6, IndexInductive
  <1>3. CASE ~x.fresh /\ idx.owner = NoOwner
    BY <1>1, <1>3, EndInductive DEF Refresh
  <1>4. CASE ~x.fresh /\ idx.owner # NoOwner
    <2>1. Move(r, Again(r)) /\ UNCHANGED <<cl, idx, robbed>>
      BY <1>1, <1>4 DEF Refresh
    <2>2. Sound(Again(r))
      BY <1>1, AgainFields DEF Sound
    <2>. QED
      BY <1>1, <2>1, <2>2, AgainFields, MoveInductive
  <1>. QED
    BY <1>2, <1>3, <1>4

\* A claim that is taken over is nobody's: those who rely on one have a new one,
\* or a Cluster that uses it.
LEMMA ReclaimInductive ==
    ASSUME SpotInv, NEW r \in Callers, Reclaim(r)
    PROVE  SpotInv'
  <1>1. PICK x \in Call : /\ x = rq[r] /\ Sound(x) /\ x.pc = "reclaim"
                          /\ x.left > 0 /\ x.c \in Clusters /\ x.c # NoOwner
    BY DEF SpotInv, ClaimBacked, SpotTypeOK, Reclaim, Sound, Call
  <1>2. PICK y \in Call :
           /\ y = Again(r) /\ y.fresh = FALSE
           /\ \/ y.pc = "idle" /\ y.c = NoOwner
              \/ y.pc = "claim" /\ y.left > 0 /\ y.c = x.c /\ y.alone = x.alone
    BY <1>1, AgainFields
  <1>3. CASE x.fresh
    <2>1. WroteIndex(r, y) /\ UNCHANGED <<cl, robbed>> /\ idx' = NoIndex
      BY <1>1, <1>2, <1>3 DEF Reclaim
    <2>2. rq'[r] = y
      BY <2>1 DEF WroteIndex
    <2>3. Sound(rq[r])'
      BY <1>1, <1>2, <2>2 DEF Sound
    <2>4. idx' \in Index /\ robbed \subseteq Clusters /\ idx.owner \in Clusters \cup {NoOwner}
      BY <2>1, IdleSound DEF SpotInv, ClaimBacked, SpotTypeOK, Index
    <2>5. ASSUME idx.owner \notin robbed
          PROVE  /\ cl[idx.owner] # "queue"
                 /\ \A q \in Callers : q # r /\ rq[q].c = idx.owner =>
                       \/ rq[q].pc # "save" \/ rq[q].want # "queue"
                       \/ (rq[q].kind = "update" /\ ~rq[q].clFresh)
      <3>1. cl[idx.owner] # "queue" /\ idx.old
        BY <1>1, <1>3, <2>5 DEF Sound
      <3>2. ASSUME NEW q \in Callers, rq[q].c = idx.owner, rq[q].pc = "save", rq[q].want = "queue"
            PROVE  rq[q].kind = "update" /\ ~rq[q].clFresh
        <4>1. Sound(rq[q]) /\ rq[q].kind \in {"create", "update"}
          BY DEF SpotInv, ClaimBacked, SpotTypeOK, Call
        <4>. QED
          BY <2>5, <3>1, <3>2, <4>1 DEF Sound
      <3>. QED
        BY <3>1, <3>2
    <2>. QED
      BY <1>1, <1>2, <2>1, <2>3, <2>4, <2>5, IndexInductive
  <1>4. CASE ~x.fresh
    <2>1. Move(r, y) /\ UNCHANGED <<cl, idx, robbed>>
      BY <1>1, <1>2, <1>4 DEF Reclaim
    <2>2. Sound(y)
      BY <1>1, <1>2 DEF Sound
    <2>. QED
      BY <1>1, <1>2, <2>1, <2>2, MoveInductive
  <1>. QED
    BY <1>3, <1>4

\* A claim that is given back without a rival is one that the Cluster does not
\* use; with one, its Cluster counts as robbed.
LEMMA FreeInductive ==
    ASSUME SpotInv, NEW r \in Callers, FreeClaim(r)
    PROVE  SpotInv'
  <1>1. PICK x \in Call : x = rq[r] /\ Sound(x) /\ x.pc = "free" /\ x.c \in Clusters
    BY DEF SpotInv, ClaimBacked, SpotTypeOK, FreeClaim, Sound, Call
  <1>2. CASE ~x.fresh
    BY <1>1, <1>2, EndInductive DEF FreeClaim
  <1>3. CASE x.fresh
    <2>1. /\ WroteIndex(r, Idle) /\ cl' = cl /\ idx' = NoIndex
          /\ robbed' = robbed \cup (IF x.alone THEN {} ELSE {x.c})
      BY <1>1, <1>3 DEF FreeClaim
    <2>2. rq'[r] = Idle
      BY <2>1 DEF WroteIndex
    <2>3. Sound(rq[r])'
      BY <2>2, IdleSound DEF Sound
    <2>4. idx' \in Index /\ robbed \subseteq robbed' /\ robbed' \subseteq Clusters
      BY <1>1, <2>1, IdleSound DEF SpotInv, ClaimBacked, SpotTypeOK
    <2>5. idx.owner = x.c
      BY <1>1, <1>3 DEF Sound
    <2>6. CASE x.alone
      <3>1. cl[idx.owner] # "queue" /\ NoRival(r)
        BY <1>1, <2>5, <2>6 DEF Sound, SpotInv
      <3>2. \A q \in Callers : q # r => rq[q].c # idx.owner
        BY <1>1, <2>5, <3>1 DEF NoRival
      <3>. QED
        BY <2>1, <2>3, <2>4, <3>1, <3>2, IdleSound, IndexInductive
    <2>7. CASE ~x.alone
      <3>1. idx.owner \in robbed'
        BY <2>1, <2>5, <2>7
      <3>. QED
        BY <2>1, <2>3, <2>4, <3>1, IdleSound, IndexInductive
    <2>. QED
      BY <2>6, <2>7
  <1>. QED
    BY <1>2, <1>3

\* After Cluster c was written, those who had read it know that they have not the
\* latest version; the others do not depend on it.
LEMMA ClusterWritten ==
    ASSUME NEW u \in Call, NEW v \in Call, Sound(u), SpotTypeOK,
           NEW c \in Clusters, NEW w \in {"none", "plain", "queue"}, cl' = [cl EXCEPT ![c] = w],
           UNCHANGED <<idx, robbed>>,
           v.clFresh => u.clFresh /\ u.c # c,
           v.pc = u.pc, v.kind = u.kind, v.c = u.c, v.want = u.want, v.left = u.left,
           v.fresh = u.fresh, v.seen = u.seen, v.alone = u.alone,
           w = "queue" => /\ c = idx.owner /\ c \notin robbed /\ idx.old => cl[c] = "queue"
                          /\ ~(u.pc = "free" /\ u.alone /\ u.c = c)
    PROVE  Sound(v)'
  <1>1. \A d \in Clusters : cl'[d] = IF d = c THEN w ELSE cl[d]
    BY DEF SpotTypeOK
  <1>2. u.c # NoOwner => u.c \in Clusters
    BY DEF Call
  <1>3. v.pc = "save" /\ v.want = "queue" /\ v.c \notin robbed /\ v.kind = "update" /\ v.clFresh =>
          idx.owner = v.c /\ (idx.old => cl'[v.c] = "queue")
    BY <1>1, <1>2 DEF Sound
  <1>4. v.fresh /\ v.pc = "reclaim" /\ idx.owner \notin robbed => idx.old /\ cl'[idx.owner] # "queue"
    <2>. SUFFICES ASSUME v.fresh, v.pc = "reclaim", idx.owner \notin robbed
                  PROVE  idx.old /\ cl'[idx.owner] # "queue"
      OBVIOUS
    <2>1. idx.old /\ cl[idx.owner] # "queue"
      BY DEF Sound
    <2>2. CASE idx.owner = c
      BY <1>1, <2>1, <2>2
    <2>3. CASE idx.owner # c
      BY <2>1, <2>3 DEF SpotTypeOK
    <2>. QED
      BY <2>2, <2>3
  <1>5. v.pc = "free" /\ v.alone => cl'[v.c] # "queue"
    BY <1>1, <1>2 DEF Sound
  <1>. QED
    BY <1>3, <1>4, <1>5 DEF Sound

\* The write of the Cluster.
LEMMA SaveInductive ==
    ASSUME SpotInv, NEW r \in Callers, SaveCluster(r)
    PROVE  SpotInv'
  <1>0. ClaimBacked /\ SpotTypeOK /\ \A q \in Callers : Sound(rq[q]) /\ rq[q] \in Call
    BY DEF SpotInv, ClaimBacked, SpotTypeOK
  <1>1. PICK x \in Call : /\ x = rq[r] /\ Sound(x) /\ x.pc = "save" /\ x.c \in Clusters
                          /\ x.want \in {"plain", "queue"} /\ x.kind \in {"create", "update"}
    BY <1>0 DEF SaveCluster, Sound, Call
  <1>2. PICK f \in Call : /\ f = Failed(r) /\ Sound(f)
                          /\ f.pc = "idle" \/ (f.pc = "release" /\ f.c = x.c /\ f.alone = x.alone)
                          /\ \/ f.pc = "idle" /\ f.c = NoOwner
                             \/ f.pc = "release" /\ f.c # NoOwner
    <2>1. CASE x.kind = "create" /\ x.made
      <3>1. Failed(r) = [x EXCEPT !.pc = "release"]
        BY <1>1, <2>1 DEF Failed, At
      <3>2. /\ Failed(r) \in Call /\ Failed(r).pc = "release"
            /\ Failed(r).c = x.c /\ Failed(r).alone = x.alone
        BY <3>1 DEF Call
      <3>3. Sound(Failed(r)) /\ x.c # NoOwner
        BY <1>1, <3>2 DEF Sound
      <3>. QED
        BY <3>2, <3>3
    <2>2. CASE ~(x.kind = "create" /\ x.made)
      <3>1. Failed(r) = Idle
        BY <1>1, <2>2 DEF Failed
      <3>. QED
        BY <3>1, IdleSound
    <2>. QED
      BY <2>1, <2>2
  <1>3. ASSUME NEW y \in Call, Move(r, y), UNCHANGED <<cl, idx, robbed>>, y = Idle \/ y = f
        PROVE  SpotInv'
    BY <1>1, <1>2, <1>3, IdleSound, MoveInductive
  <1>4. ASSUME x.kind = "update", Move(r, [At(r, "get") EXCEPT !.made = FALSE]),
               UNCHANGED <<cl, idx, robbed>>
        PROVE  SpotInv'
    <2>. DEFINE y == [x EXCEPT !.pc = "get", !.made = FALSE]
    <2>1. [At(r, "get") EXCEPT !.made = FALSE] = y
      BY <1>1 DEF At, Call
    <2>2. y \in Call /\ y.pc = "get" /\ y.c = x.c /\ y.alone = x.alone /\ y.kind = x.kind
      BY DEF Call
    <2>. HIDE DEF y
    <2>3. Sound(y)
      BY <1>1, <1>4, <2>2 DEF Sound
    <2>. QED
      BY <1>1, <1>4, <2>1, <2>2, <2>3, MoveInductive
  <1>5. ASSUME NEW y \in Call, WroteCluster(r, x.c, y), y = Idle \/ y = f,
               IF x.kind = "create" THEN cl[x.c] = "none" ELSE x.clFresh,
               cl' = [cl EXCEPT ![x.c] = x.want], UNCHANGED <<idx, robbed>>
        PROVE  SpotInv'
    <2>0. x.want = "queue" /\ x.c \notin robbed => idx.owner = x.c /\ (idx.old => cl[x.c] = "queue")
      BY <1>1, <1>5 DEF Sound
    <2>1. ASSUME NEW q \in Callers, q # r
          PROVE  /\ rq'[q] \in Call /\ (rq'[q].clFresh => rq[q].clFresh /\ rq[q].c # x.c)
                 /\ rq'[q].pc = rq[q].pc /\ rq'[q].kind = rq[q].kind /\ rq'[q].c = rq[q].c
                 /\ rq'[q].want = rq[q].want /\ rq'[q].left = rq[q].left
                 /\ rq'[q].fresh = rq[q].fresh /\ rq'[q].seen = rq[q].seen
                 /\ rq'[q].alone = rq[q].alone
      <3>1. PICK u \in Call, b \in BOOLEAN : u = rq[q] /\ b = (rq[q].clFresh /\ rq[q].c # x.c)
        BY <1>0 DEF Call
      <3>2. rq'[q] = [u EXCEPT !.clFresh = b]
        BY <1>5, <2>1, <3>1 DEF WroteCluster
      <3>. QED
        BY <3>1, <3>2 DEF Call
    <2>2. rq' \in [Callers -> Call] /\ rq'[r] = y
      <3>1. rq'[r] = y
        BY <1>5 DEF WroteCluster
      <3>2. \A q \in Callers : rq'[q] \in Call
        BY <2>1, <3>1
      <3>. QED
        BY <1>5, <3>1, <3>2 DEF WroteCluster
    <2>3. ClaimBacked'
      <3>1. SpotTypeOK'
        BY <1>0, <1>1, <1>5, <2>2 DEF SpotTypeOK
      <3>2. ASSUME NEW d \in Clusters \ robbed, cl'[d] = "queue" PROVE idx.owner = d
        BY <1>0, <1>1, <1>5, <2>0, <3>2 DEF ClaimBacked, SpotTypeOK
      <3>. QED
        BY <1>5, <3>1, <3>2 DEF ClaimBacked
    <2>4. ASSUME NEW q \in Callers PROVE Sound(rq[q])'
      <3>1. CASE q = r
        BY <1>2, <1>5, <2>2, <3>1, IdleSound DEF Sound
      <3>2. CASE q # r
        <4>1. PICK u \in Call, v \in Call : u = rq[q] /\ v = rq'[q] /\ Sound(u)
          BY <1>0, <2>2
        <4>2. ~(u.pc = "free" /\ u.alone /\ u.c = x.c)
          BY <1>1, <3>2, <4>1 DEF SpotInv, NoRival
        <4>3. Sound(v)'
          BY <1>0, <1>1, <1>5, <2>0, <2>1, <3>2, <4>1, <4>2, ClusterWritten
        <4>. QED
          BY <4>1, <4>3 DEF Sound
      <3>. QED
        BY <3>1, <3>2
    <2>. QED
      BY <1>1, <1>2, <1>5, <2>1, <2>2, <2>3, <2>4, IdleSound, StepInductive
  <1>. QED
    BY <1>1, <1>2, <1>3, <1>4, <1>5, IdleSound DEF SaveCluster

\* The end of a Cluster leaves its claim, which from then on is not in use.
LEMMA RemoveInductive ==
    ASSUME SpotInv, NEW c \in Clusters, Remove(c)
    PROVE  SpotInv'
  <1>0. ClaimBacked /\ SpotTypeOK /\ \A q \in Callers : Sound(rq[q]) /\ rq[q] \in Call
    BY DEF SpotInv, ClaimBacked, SpotTypeOK
  <1>1. ASSUME NEW q \in Callers
        PROVE  /\ rq'[q] \in Call /\ (rq'[q].clFresh => rq[q].clFresh /\ rq[q].c # c)
               /\ rq'[q].pc = rq[q].pc /\ rq'[q].kind = rq[q].kind /\ rq'[q].c = rq[q].c
               /\ rq'[q].want = rq[q].want /\ rq'[q].left = rq[q].left
               /\ rq'[q].fresh = rq[q].fresh /\ rq'[q].seen = rq[q].seen
               /\ rq'[q].alone = rq[q].alone
    <2>1. PICK u \in Call, b \in BOOLEAN : u = rq[q] /\ b = (rq[q].clFresh /\ rq[q].c # c)
      BY <1>0 DEF Call
    <2>2. rq'[q] = [u EXCEPT !.clFresh = b]
      BY <2>1 DEF Remove
    <2>. QED
      BY <2>1, <2>2 DEF Call
  <1>2. rq' \in [Callers -> Call]
    BY <1>1 DEF Remove
  <1>3. cl' = [cl EXCEPT ![c] = "none"] /\ UNCHANGED <<idx, robbed>>
    BY DEF Remove
  <1>4. ClaimBacked'
    BY <1>0, <1>2, <1>3 DEF ClaimBacked, SpotTypeOK
  <1>5. ASSUME NEW q \in Callers PROVE Sound(rq[q])'
    <2>1. PICK u \in Call, v \in Call : u = rq[q] /\ v = rq'[q] /\ Sound(u)
      BY <1>0, <1>1
    <2>2. Sound(v)'
      BY <1>0, <1>1, <1>3, <2>1, ClusterWritten
    <2>. QED
      BY <2>1, <2>2 DEF Sound
  <1>6. \A q \in Callers : NoRival(q)' <=> NoRival(q)
    BY <1>1 DEF NoRival
  <1>. QED
    BY <1>1, <1>4, <1>5, <1>6 DEF SpotInv

\* A claim grows old only when no request is about to write its Cluster.
LEMMA AgeInductive ==
    ASSUME SpotInv, ClaimAges
    PROVE  SpotInv'
  <1>0. ClaimBacked /\ SpotTypeOK /\ \A q \in Callers : Sound(rq[q]) /\ rq[q] \in Call
    BY DEF SpotInv, ClaimBacked, SpotTypeOK
  <1>1. idx' \in Index /\ idx'.owner = idx.owner /\ idx'.old = TRUE /\ UNCHANGED <<cl, rq, robbed>>
    BY <1>0 DEF ClaimAges, SpotTypeOK, Index
  <1>2. ClaimBacked'
    BY <1>0, <1>1 DEF ClaimBacked, SpotTypeOK
  <1>3. ASSUME NEW q \in Callers PROVE Sound(rq[q])'
    <2>1. PICK u \in Call : u = rq[q] /\ Sound(u) /\ u = rq'[q]
      BY <1>0, <1>1
    <2>2. u.c = idx.owner => u.pc # "save"
      BY <2>1 DEF ClaimAges
    <2>3. Sound(u)'
      BY <1>1, <2>1, <2>2 DEF Sound
    <2>. QED
      BY <2>1, <2>3 DEF Sound
  <1>. QED
    BY <1>1, <1>2, <1>3 DEF SpotInv, NoRival

\* Every step of a request, of a Cluster's end and of time keeps the invariant.
LEMMA NextInductive ==
    ASSUME SpotInv, [SpotNext]_spotVars
    PROVE  SpotInv'
  <1>1. ASSUME NEW r \in Callers, Work(r) PROVE SpotInv'
    BY <1>1, GetInductive, ListInductive, ClaimInductive, LookInductive, RefreshInductive,
       OwnerInductive, ReclaimInductive, SaveInductive, ReleaseInductive, CheckInductive,
       FreeInductive DEF Work
  <1>2. ASSUME NEW r \in Callers, Dies(r) PROVE SpotInv'
    BY <1>2, EndInductive DEF Dies
  <1>3. CASE UNCHANGED spotVars
    BY <1>3 DEF spotVars, SpotInv, ClaimBacked, SpotTypeOK, Sound, NoRival
  <1>. QED
    BY <1>1, <1>2, <1>3, StartInductive, RemoveInductive, AgeInductive DEF SpotNext

\* A queue belongs to the Cluster that uses it and to the request that is about to
\* give it to one, however claims expire, are taken over or given back meanwhile
\* (ClaimSpotTerminationQueue, ReleaseSpotTerminationQueue).
THEOREM ClaimIsHeld == SpotSpec => []SpotClaimHeld
  <1>1. SpotInit => SpotInv
    BY InitInductive
  <1>2. SpotInv /\ [SpotNext]_spotVars => SpotInv'
    BY NextInductive
  <1>3. SpotInv => SpotClaimHeld
    <2>. SUFFICES ASSUME SpotInv PROVE SpotClaimHeld
      OBVIOUS
    <2>1. ASSUME NEW r \in Callers, rq[r].pc = "save", rq[r].want = "queue",
                 rq[r].kind = "create" \/ rq[r].clFresh, rq[r].c \notin robbed
          PROVE  idx.owner = rq[r].c
      <3>1. Sound(rq[r]) /\ rq[r].kind \in {"create", "update"}
        BY DEF SpotInv, ClaimBacked, SpotTypeOK, Call
      <3>. QED
        BY <2>1, <3>1 DEF Sound
    <2>. QED
      BY <2>1 DEF SpotInv, SpotClaimHeld, HeldWhileSaving
  <1>. QED
    BY <1>1, <1>2, <1>3, PTL DEF SpotSpec
===============================================================================
