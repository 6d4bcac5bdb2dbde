---------------------------- MODULE KeyProducer ----------------------------
(***************************************************************************)
(* RunQueueShortKeyProducer of packages/core/src/v3/lifecycle-hooks-api.ts *)
(* (lines 34-227): the Redis key layout of the run queue (spec.md 4.1 and  *)
(* section 6).  A key is modelled as the sequence of its ':'-separated     *)
(* segments, so `[a, b].join(":")` is the concatenation of the segment    *)
(* sequences and `split(":")` is the sequence itself.  Ids are single     *)
(* segments (cuids have no ':'); queue names, concurrency keys and task   *)
(* identifiers are user strings and may span several segments.            *)
(***************************************************************************)
EXTENDS Naturals, Sequences, SequencesExt, FiniteSets

CONSTANTS
    Prefix,          \* the producer's _prefix, as segments (ends with ':')
    Envs,            \* AuthenticatedEnvironment records [id, org, proj, type]
    QueueNames,      \* queue names, as segment sequences
    ConcurrencyKeys, \* concurrency keys, as segment sequences, or NoKey
    TaskIds,         \* task identifiers, as segment sequences
    NoKey            \* concurrencyKey undefined

VARIABLES env, queue, ck, prefixed

vars == <<env, queue, ck, prefixed>>

Join(parts) == FlattenSeq(parts)

EnvKeySection(id) == <<"env", id>>
EnvTypeKeySection(type) == <<"envType", IF type = "DEVELOPMENT" THEN "dev" ELSE "deployed">>
ProjKeySection(p) == <<"proj", p>>
OrgKeySection(o) == <<"org", o>>
QueueSection(q) == <<"queue">> \o q
ConcurrencyKeySection(k) == <<"ck">> \o k
TaskIdentifierSection(t) == <<"task">> \o t

QueueKey(e, q, k) ==
    Join(<<OrgKeySection(e.org), ProjKeySection(e.proj), EnvTypeKeySection(e.type),
           EnvKeySection(e.id), QueueSection(q)>>
         \o (IF k = NoKey THEN <<>> ELSE <<ConcurrencyKeySection(k)>>))

QueueConcurrencyLimitKey(e, q) == QueueKey(e, q, NoKey) \o <<"concurrency">>
EnvConcurrencyLimitKey(e) == EnvKeySection(e.id) \o <<"concurrency">>
CurrentConcurrencyKey(e, q, k) == QueueKey(e, q, k) \o <<"currentConcurrency">>
EnvCurrentConcurrencyKey(e) == EnvKeySection(e.id) \o <<"currentConcurrency">>

CurrentTaskIdentifierKey(e, t) ==
    Join(<<OrgKeySection(e.org), ProjKeySection(e.proj), TaskIdentifierSection(t),
           EnvKeySection(e.id), <<"currentConcurrency">>>>)

(* Mutant of EnvSharedQueueKey: the dev master queue without the env id.  *)
EnvSharedQueueKeyPerProject(e) ==
    IF e.type = "DEVELOPMENT"
    THEN Join(<<OrgKeySection(e.org), ProjKeySection(e.proj), <<"sharedQueue">>>>)
    ELSE <<"sharedQueue">>

EnvSharedQueueKey(e) ==
    IF e.type = "DEVELOPMENT"
    THEN Join(<<OrgKeySection(e.org), ProjKeySection(e.proj), EnvKeySection(e.id),
                <<"sharedQueue">>>>)
    ELSE <<"sharedQueue">>

(* Mutant of QueueCurrentConcurrencyScanPattern: the prefix left out.     *)
QueueCurrentConcurrencyScanPatternNoPrefix ==
    <<"org", "*", "proj", "*", "envType", "*", "env", "*", "queue", "*", "currentConcurrency">>

QueueCurrentConcurrencyScanPattern ==
    Prefix \o <<"org", "*", "proj", "*", "envType", "*", "env", "*", "queue", "*",
                "currentConcurrency">>

(* Mutant of ConcurrencyLimitKeyFromQueue: the :ck: suffix is kept.       *)
ConcurrencyLimitKeyFromQueueKeepCk(q) == q \o <<"concurrency">>

(* queue.replace(/:ck:.+$/, ""): cut at the first "ck" segment that has a *)
(* segment before and after it, then append the limit part.               *)
ConcurrencyLimitKeyFromQueue(q) ==
    LET cuts == {i \in 2..(Len(q) - 1) : q[i] = "ck"}
    IN (IF cuts = {} THEN q ELSE SubSeq(q, 1, Min(cuts) - 1)) \o <<"concurrency">>

CurrentConcurrencyKeyFromQueue(q) == q \o <<"currentConcurrency">>

(* Mutant of GlobalCurrentConcurrencyKey: the key is cut at :queue:.      *)
GlobalCurrentConcurrencyKeyAtQueue(q) ==
    LET cuts == {i \in 2..(Len(q) - 1) : q[i] = "queue"}
    IN IF cuts = {} THEN q ELSE SubSeq(q, 1, Min(cuts) - 1) \o <<"*">>

(* queue.replace(/:env:.+$/, ":*"): cut at the first "env" segment that   *)
(* has a segment before and after it and end the key with a "*" segment.  *)
GlobalCurrentConcurrencyKey(q) ==
    LET cuts == {i \in 2..(Len(q) - 1) : q[i] = "env"}
    IN IF cuts = {} THEN q ELSE SubSeq(q, 1, Min(cuts) - 1) \o <<"*">>

(* Mutant of NormalizeQueue: the prefix is never stripped.                *)
NormalizeQueueKeepPrefix(q) == q

NormalizeQueue(q) == IF IsPrefix(Prefix, q) THEN SubSeq(q, Len(Prefix) + 1, Len(q)) ELSE q

(* parts[1] and parts[7] of the split (0-based): org id and env id.       *)
ExtractComponentsFromQueue(q) ==
    LET parts == NormalizeQueue(q) IN [orgId |-> parts[2], envId |-> parts[8]]

DisabledConcurrencyLimitKeyFromQueue(q) ==
    <<"org", ExtractComponentsFromQueue(q).orgId, "disabledConcurrency">>
EnvConcurrencyLimitKeyFromQueue(q) ==
    <<"env", ExtractComponentsFromQueue(q).envId, "concurrency">>
EnvCurrentConcurrencyKeyFromQueue(q) ==
    <<"env", ExtractComponentsFromQueue(q).envId, "currentConcurrency">>
-----------------------------------------------------------------------------
(* Redis glob matching at segment granularity: a "*" between two ':'      *)
(* matches one or more whole segments.  The reference the scan pattern is *)
(* checked against.                                                       *)
RECURSIVE GlobMatch(_, _)
GlobMatch(p, s) ==
    IF p = <<>> THEN s = <<>>
    ELSE IF Head(p) = "*"
         THEN \E n \in 1..Len(s) : GlobMatch(Tail(p), SubSeq(s, n + 1, Len(s)))
         ELSE s # <<>> /\ Head(s) = Head(p) /\ GlobMatch(Tail(p), Tail(s))

(* The key the run queue hands to the ...FromQueue derivations: a queue   *)
(* key, with or without the producer's prefix.                            *)
GivenKey == (IF prefixed THEN Prefix ELSE <<>>) \o QueueKey(env, queue, ck)

Input(e, q, k, p) == env' = e /\ queue' = q /\ ck' = k /\ prefixed' = p

Init ==
    /\ env \in Envs /\ queue \in QueueNames
    /\ ck \in ConcurrencyKeys /\ prefixed \in BOOLEAN

(* Each step derives keys for another input.                              *)
Next ==
    \E e \in Envs, q \in QueueNames, k \in ConcurrencyKeys, p \in BOOLEAN :
        Input(e, q, k, p)

Spec == Init /\ [][Next]_vars
-----------------------------------------------------------------------------
(* The org and env keys that the run queue derives from a queue key       *)
(* (disabledConcurrencyLimitKeyFromQueue, envConcurrencyLimitKeyFromQueue, *)
(* envCurrentConcurrencyKeyFromQueue) are the keys built directly from    *)
(* the environment, whether or not the key carries the prefix and         *)
(* whatever ':' the queue name or concurrency key contains.               *)
DerivedEnvKeysMatch ==
    /\ EnvConcurrencyLimitKeyFromQueue(GivenKey) = EnvConcurrencyLimitKey(env)
    /\ EnvCurrentConcurrencyKeyFromQueue(GivenKey) = EnvCurrentConcurrencyKey(env)
    /\ DisabledConcurrencyLimitKeyFromQueue(GivenKey) = <<"org", env.org, "disabledConcurrency">>

(* concurrencyLimitKeyFromQueue of a concurrency-key sub-queue is the     *)
(* limit key of its named queue (spec 4.3: the queue's overall limit      *)
(* still applies to every sub-queue).                                     *)
DerivedQueueLimitKeyMatches ==
    ConcurrencyLimitKeyFromQueue(GivenKey)
        = (IF prefixed THEN Prefix ELSE <<>>) \o QueueConcurrencyLimitKey(env, queue)

(* queueCurrentConcurrencyScanPattern finds the current-concurrency       *)
(* counter of every queue and sub-queue, whether built by                 *)
(* currentConcurrencyKey or by currentConcurrencyKeyFromQueue, and        *)
(* neither the env counter nor a task-identifier counter.                 *)
ScanPatternSelectsQueueCounters ==
    LET pat == QueueCurrentConcurrencyScanPattern IN
    /\ CurrentConcurrencyKeyFromQueue(QueueKey(env, queue, ck)) = CurrentConcurrencyKey(env, queue, ck)
    /\ GlobMatch(pat, Prefix \o CurrentConcurrencyKey(env, queue, ck))
    /\ ~GlobMatch(pat, Prefix \o EnvCurrentConcurrencyKey(env))
    /\ \A t \in TaskIds : ~GlobMatch(pat, Prefix \o CurrentTaskIdentifierKey(env, t))

(* Spec 4.1: a DEVELOPMENT environment gets its own master queue; all     *)
(* other environments share one.                                          *)
DevMasterQueuesIsolated ==
    \A e2 \in Envs :
        (EnvSharedQueueKey(env) = EnvSharedQueueKey(e2))
            <=> (env.id = e2.id \/ (env.type # "DEVELOPMENT" /\ e2.type # "DEVELOPMENT"))

(* globalCurrentConcurrencyKey of a queue key, used as a glob, matches    *)
(* the current-concurrency counter of every queue and sub-queue in every  *)
(* environment of the same org, project and environment type, and no      *)
(* other counter: queue names with an "env" segment do not move the cut.  *)
GlobalKeyCoversEnvironments ==
    \A e2 \in Envs, q2 \in QueueNames, k2 \in ConcurrencyKeys :
        GlobMatch(GlobalCurrentConcurrencyKey(GivenKey),
                  (IF prefixed THEN Prefix ELSE <<>>) \o CurrentConcurrencyKey(e2, q2, k2))
            <=> /\ e2.org = env.org /\ e2.proj = env.proj
                /\ EnvTypeKeySection(e2.type) = EnvTypeKeySection(env.type)
=============================================================================
