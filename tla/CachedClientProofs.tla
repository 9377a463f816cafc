------------------------- MODULE CachedClientProofs -------------------------
(***************************************************************************)
(* What the HTTP cache serves, for any number of processes that share an   *)
(* entry, whatever the headers, the proxies and the order of their reads,  *)
(* writes and removals.                                                    *)
(*                                                                         *)
(* The argument is about dates: what is stored with a policy was current   *)
(* at the policy's date, or later, and the age of a policy is never less   *)
(* than the time since that date.  A 304 that is taken is of the version   *)
(* that is stored, since versions differ in both of their validators.      *)
(***************************************************************************)
EXTENDS CachedClient, TLAPS

\* The types of what TypeOK leaves open.
Entry   == [state : {"missing", "broken", "present"}, data : 0..MaxVersion, policy : Policy,
            written : 0..MaxTime]
Request == [kind : {"fresh", "revalidation"}, at : Nat, etag : Int, since : Int]
Reply   == [kind : {"none", "response", "transient", "fatal"}, status : {0, 200, 304, 500},
            version : 0..MaxVersion, date : 0..MaxTime, age : Nat, hdr : Header,
            retries : 0..MaxRetries]

Types ==
    /\ clock \in 0..MaxTime
    /\ published \in Seq(Nat) /\ Len(published) \in 1..MaxVersion
    /\ entry \in Entry /\ cached \in [Client -> Entry]
    /\ pc \in [Client -> Location] /\ option \in [Client -> Options]
    /\ cutoff \in [Client -> 0..MaxTime] /\ start \in [Client -> 0..MaxTime]
    /\ control \in [Client -> {"None", "MustRevalidate", "AllowStale", "Override"}]
    /\ request \in [Client -> Request] /\ reply \in [Client -> Reply]
    /\ total \in [Client -> Nat] /\ retried \in [Client -> Nat]
    /\ result \in [Client -> 0..MaxVersion]

\* Versions appear one after the other.
Timeline ==
    /\ \A v \in 1..Latest : published[v] <= clock
    /\ \A v, w \in 1..Latest : v < w => published[v] < published[w]

\* Version v was current at time t, or later.
Since(v, t) == v < Latest => t <= published[v + 1]

\* A payload was current at the date of its policy, whose validators are its own.
Described(e) ==
    e.data # Bad =>
        /\ e.data \in 1..Latest /\ Since(e.data, e.policy.date)
        /\ e.policy.etag \in {None, e.data}
        /\ e.policy.lastMod \in {None, published[e.data]}

NoImmutable == \A h \in Headers : ~h.immutable

\* A policy is of a response that was received.
Known(p) ==
    /\ p.date <= p.resp /\ p.resp <= clock
    /\ FreshnessLifetime(p) <= MaxLifetime
    /\ NoImmutable => ~p.hdr.immutable

\* A call asks with the validators of the entry it has read.
Asked(c) ==
    pc[c] \in {"sent", "received"} =>
        LET p == cached[c].policy
        IN  /\ request[c].etag = IF p.hdr.etag = "strong" THEN p.etag ELSE None
            /\ request[c].since = p.lastMod

\* A response is of a version that was current when the call began, as far as
\* proxies allow.
Answered(c) ==
    pc[c] = "received" /\ reply[c].kind = "response" =>
        LET r == reply[c]
        IN  /\ r.version \in 1..Latest /\ Since(r.version, r.date)
            /\ start[c] - CdnAge <= r.date /\ r.date <= clock
            /\ r.hdr \in Headers /\ r.status \in {200, 304}
            /\ r.status = 304 => Matches(request[c], r.version)

\* How old what a call returns may be.
Slack == Greater(MaxLifetime, CdnAge + 1)
Current(c, v) ==
    /\ v \in 1..Latest
    /\ control[c] # "AllowStale" => Since(v, start[c] - Slack + 1)
    /\ control[c] = "MustRevalidate" /\ NoImmutable => Since(v, start[c] - CdnAge)

Served(c) ==
    /\ pc[c] \in {"callback", "write"} => cached[c].data # Bad
    /\ pc[c] \in {"callback", "write", "refresh", "decode"} /\ cached[c].data # Bad
         => Current(c, cached[c].data)
    /\ pc[c] = "done" => Current(c, result[c])

\* A call that goes on has retried no more than it may.
Budget(c) ==
    total[c] <= IF pc[c] = "failed" THEN 2 * MaxRetries ELSE MaxRetries

CallOK(c) ==
    /\ start[c] <= clock
    /\ Described(cached[c]) /\ Known(cached[c].policy)
    /\ Asked(c) /\ Answered(c) /\ Served(c) /\ Budget(c)

\* What the counted retries of a call allow it to have made: each of them ends an
\* attempt, whose revalidation made at most MaxRetries that do not count.
Paid(t) == t * (MaxRetries + 1)

\* The retries made, by how far the current attempt is: before its revalidation
\* is answered, after it, and with the retries of the last reply.
Asking(c)  == pc[c] \in {"sent", "received"} /\ request[c].kind = "revalidation"
Replied(c) == IF pc[c] \in {"received", "callback", "write"} THEN reply[c].retries ELSE 0
Spent(c) ==
    IF pc[c] \in {"done", "failed"} THEN MaxRetries * (MaxRetries + 3)
    ELSE IF pc[c] \in {"idle", "open", "read", "decide"} \/ Asking(c)
      THEN Paid(total[c]) + Replied(c)
    ELSE Paid(total[c]) + MaxRetries + Replied(c)

\* Only a revalidation asks with validators, and may be answered with a 304.
RetryOK(c) ==
    /\ retried[c] <= Spent(c)
    /\ pc[c] \in {"sent", "received"} /\ request[c].kind = "fresh" =>
         request[c].etag = None /\ request[c].since = None

RInv == \A c \in Client : RetryOK(c)

IInv ==
    /\ Types /\ Timeline
    /\ Described(entry) /\ Known(entry.policy)
    /\ \A c \in Client : CallOK(c)
-----------------------------------------------------------------------------
(* Policies.                                                               *)

\* The records of what there is none of have their types.
LEMMA NothingTypes ==
    /\ AnyHeader \in Headers /\ AnyHeader \in Header
    /\ NoPolicy \in Policy /\ NoEntry \in Entry /\ NoRequest \in Request /\ NoReply \in Reply
    /\ None \in Int /\ Bad = 0 /\ 0 \in 0..MaxTime
<1>1. AnyHeader \in Headers /\ AnyHeader \in Header
  BY CacheAssumption DEF AnyHeader
<1>2. None \in Int /\ Bad = 0 /\ 0 \in 0..MaxTime /\ 0 \in 0..MaxVersion /\ 0 \in 0..MaxRetries
  BY CacheAssumption DEF None, Bad
<1>3. NoPolicy \in Policy
  BY <1>1, <1>2 DEF NoPolicy, Policy
<1>4. NoEntry \in Entry
  BY <1>2, <1>3 DEF NoEntry, Entry
<1>5. NoRequest \in Request
  BY <1>2 DEF NoRequest, Request
<1>6. NoReply \in Reply
  BY <1>1, <1>2 DEF NoReply, Reply
<1>. QED
  BY <1>1, <1>2, <1>3, <1>4, <1>5, <1>6

\* A lifetime is a number of seconds, and depends on the headers alone.
LEMMA LifetimeType ==
    ASSUME NEW p \in Policy
    PROVE  FreshnessLifetime(p) \in Nat /\ FreshnessLifetime(p) = Lifetime(p.hdr)
<1>1. p.hdr \in Header
  BY DEF Policy
<1>2. p.hdr.maxAge \in Nat \cup {None} /\ p.hdr.expires \in Nat \cup {None, -2}
  BY <1>1 DEF Header
<1>3. FreshnessLifetime(p) \in Nat
  BY <1>2, CacheAssumption DEF FreshnessLifetime, ParseExpires, None, Invalid
<1>4. [NoPolicy EXCEPT !.hdr = p.hdr].hdr = p.hdr
  BY NothingTypes DEF Policy
<1>. QED
  BY <1>3, <1>4 DEF FreshnessLifetime, Lifetime

\* There is a longest lifetime.
LEMMA LongestLifetime ==
    MaxLifetime \in Nat /\ \A l \in Lifetimes : l <= MaxLifetime
<1>1. MaxLifetime \in Lifetimes /\ \A m \in Lifetimes : m <= MaxLifetime
  BY LifetimeAssumption DEF MaxLifetime
<1>2. ASSUME NEW h \in Headers PROVE Lifetime(h) \in Nat
  <2>. DEFINE p == [NoPolicy EXCEPT !.hdr = h]
  <2>1. p \in Policy
    BY NothingTypes, CacheAssumption DEF Policy
  <2>2. FreshnessLifetime(p) \in Nat
    BY <2>1, LifetimeType
  <2>. QED
    BY <2>2 DEF Lifetime
<1>3. Lifetimes \subseteq Nat
  BY <1>2, CacheAssumption DEF Lifetimes
<1>. QED
  BY <1>1, <1>3

\* The lifetimes of the headers a policy may have are bounded.
LEMMA LifetimeBound ==
    ASSUME NEW p \in Policy, p.hdr \in Headers \/ p.hdr.maxAge = OverrideAge
    PROVE  FreshnessLifetime(p) <= MaxLifetime
<1>1. CASE p.hdr \in Headers
  <2>1. Lifetime(p.hdr) \in Lifetimes
    BY <1>1 DEF Lifetimes
  <2>. QED
    BY <2>1, LifetimeType, LongestLifetime
<1>2. CASE p.hdr.maxAge = OverrideAge
  <2>1. FreshnessLifetime(p) = OverrideAge
    BY <1>2, CacheAssumption DEF FreshnessLifetime, None
  <2>2. OverrideAge \in Lifetimes
    BY DEF Lifetimes
  <2>. QED
    BY <2>1, <2>2, LongestLifetime
<1>. QED
  BY <1>1, <1>2

\* The age of a policy is at least the time since its date.
LEMMA AgeSinceDate ==
    ASSUME NEW p \in Policy, NEW now \in Nat, p.date <= p.resp, p.resp <= now
    PROVE  Age(p, now) \in Nat /\ Age(p, now) >= now - p.date
<1>1. p.date \in Nat /\ p.resp \in Nat /\ p.age \in Nat /\ p.req \in Nat
  BY DEF Policy
<1>2. Monus(p.resp, p.date) = p.resp - p.date /\ Monus(now, p.resp) = now - p.resp
  BY <1>1 DEF Monus
<1>3. Monus(p.resp, p.req) \in Nat
  BY <1>1 DEF Monus
<1>4. /\ Greater(p.resp - p.date, p.age + Monus(p.resp, p.req)) \in Nat
      /\ Greater(p.resp - p.date, p.age + Monus(p.resp, p.req)) >= p.resp - p.date
  BY <1>1, <1>3 DEF Greater
<1>. QED
  BY <1>1, <1>2, <1>4 DEF Age

\* What a call may return is no older than the longest lifetime.
LEMMA SlackType ==
    Slack \in Nat /\ Slack >= MaxLifetime /\ Slack >= CdnAge + 1 /\ CdnAge \in Nat
BY LongestLifetime, CacheAssumption DEF Slack, Greater
-----------------------------------------------------------------------------
(* A step of one process.                                                  *)

\* The types of what the arguments are about.
LEMMA Facts ==
    ASSUME Types
    PROVE  /\ clock \in Nat /\ Latest \in Nat /\ Latest >= 1 /\ Latest <= MaxVersion
           /\ \A v \in 1..Latest : published[v] \in Nat
           /\ entry \in Entry /\ entry.policy \in Policy
           /\ \A c \in Client :
                /\ start[c] \in Nat /\ total[c] \in Nat /\ cached[c] \in Entry
                /\ cached[c].policy \in Policy /\ request[c] \in Request /\ reply[c] \in Reply
<1>1. clock \in Nat /\ Latest \in Nat /\ Latest >= 1 /\ Latest <= MaxVersion
  BY CacheAssumption DEF Types, Latest
<1>2. \A v \in 1..Latest : published[v] \in Nat
  BY <1>1 DEF Types, Latest
<1>3. entry \in Entry /\ \A e \in Entry : e.policy \in Policy
  BY DEF Types, Entry
<1>4. 0..MaxTime \subseteq Nat
  BY CacheAssumption
<1>. QED
  BY <1>1, <1>2, <1>3, <1>4 DEF Types

\* Nothing of the processes other than c changes.
Alone(c) ==
    \A d \in Client \ {c} :
        /\ pc'[d] = pc[d] /\ start'[d] = start[d] /\ control'[d] = control[d]
        /\ cached'[d] = cached[d] /\ request'[d] = request[d] /\ reply'[d] = reply[d]
        /\ total'[d] = total[d] /\ result'[d] = result[d]

\* A process does not care what others do, as long as no time passes.
LEMMA Bystander ==
    ASSUME IInv, NEW c \in Client, Alone(c), UNCHANGED <<clock, published>>,
           NEW d \in Client \ {c}
    PROVE  CallOK(d)'
<1>1. CallOK(d)
  BY DEF IInv
<1>2. /\ pc'[d] = pc[d] /\ start'[d] = start[d] /\ control'[d] = control[d]
      /\ cached'[d] = cached[d] /\ request'[d] = request[d] /\ reply'[d] = reply[d]
      /\ total'[d] = total[d] /\ result'[d] = result[d]
  BY DEF Alone
<1>3. Latest' = Latest
  BY DEF Latest
<1>4. start'[d] <= clock' /\ Described(cached[d])' /\ Known(cached[d].policy)'
  BY <1>1, <1>2, <1>3 DEF CallOK, Described, Known, Since
<1>5. Asked(d)' /\ Budget(d)'
  BY <1>1, <1>2 DEF CallOK, Asked, Budget
<1>6. Answered(d)'
  BY <1>1, <1>2, <1>3 DEF CallOK, Answered, Since, Matches
<1>7. Served(d)'
  BY <1>1, <1>2, <1>3 DEF CallOK, Served, Current, Since
<1>. QED
  BY <1>4, <1>5, <1>6, <1>7 DEF CallOK

\* A step of one process.
LEMMA ProcessStep ==
    ASSUME IInv, NEW c \in Client, Alone(c), UNCHANGED <<clock, published>>, Types',
           Described(entry)', Known(entry.policy)', CallOK(c)'
    PROVE  IInv'
<1>1. Timeline'
  BY DEF IInv, Timeline, Latest
<1>2. \A d \in Client : CallOK(d)'
  BY Bystander
<1>. QED
  BY <1>1, <1>2 DEF IInv

\* A step of one process that leaves the entry alone.
LEMMA LocalStep ==
    ASSUME IInv, NEW c \in Client, Alone(c), UNCHANGED <<clock, published, entry>>, Types',
           CallOK(c)'
    PROVE  IInv'
<1>1. Described(entry)' /\ Known(entry.policy)'
  BY DEF IInv, Described, Known, Since, Latest
<1>. QED
  BY <1>1, ProcessStep

\* An entry that is gone has nothing to be wrong about.
LEMMA NothingOK ==
    ASSUME Types
    PROVE  Described(NoEntry) /\ Known(NoPolicy)
<1>1. NoEntry.data = Bad
  BY DEF NoEntry
<1>2. NoPolicy.date = 0 /\ NoPolicy.resp = 0 /\ NoPolicy.hdr \in Headers
  BY NothingTypes DEF NoPolicy
<1>3. FreshnessLifetime(NoPolicy) <= MaxLifetime
  BY <1>2, NothingTypes, LifetimeBound
<1>. QED
  BY <1>1, <1>2, <1>3, Facts DEF Described, Known, NoImmutable

\* Time passes.
LEMMA TickStep ==
    ASSUME IInv, Tick
    PROVE  IInv'
<1>. USE DEF IInv
<1>1. clock' = clock + 1 /\ clock < MaxTime /\ UNCHANGED <<published, entry, process>>
  BY DEF Tick
<1>2. /\ UNCHANGED <<pc, option, cutoff, start, control, cached, request>>
      /\ UNCHANGED <<reply, total, retried, result>> /\ Latest' = Latest
  BY <1>1 DEF process, Latest
<1>3. clock' \in 0..MaxTime
  BY <1>1, Facts, CacheAssumption
<1>4. Types'
  BY <1>1, <1>2, <1>3 DEF Types
<1>5. Timeline'
  BY <1>1, <1>2, Facts DEF Timeline
<1>6. ASSUME NEW p \in Policy, Known(p) PROVE Known(p)'
  <2>1. p.resp \in Nat
    BY DEF Policy
  <2>. QED
    BY <1>1, <1>6, <2>1, Facts DEF Known
<1>7. Described(entry)' /\ Known(entry.policy)'
  BY <1>1, <1>2, <1>6, Facts DEF Described, Since
<1>8. ASSUME NEW c \in Client PROVE CallOK(c)'
  <2>1. start'[c] <= clock' /\ Described(cached[c])' /\ Known(cached[c].policy)'
    BY <1>1, <1>2, <1>6, Facts DEF CallOK, Described, Since
  <2>2. Asked(c)' /\ Budget(c)'
    BY <1>2 DEF CallOK, Asked, Budget
  <2>3. Answered(c)'
    <3>1. reply[c].date \in Nat
      BY Facts, CacheAssumption DEF Reply
    <3>. QED
      BY <1>1, <1>2, <3>1, Facts DEF CallOK, Answered, Since, Matches
  <2>4. Served(c)'
    BY <1>1, <1>2 DEF CallOK, Served, Current, Since
  <2>. QED
    BY <2>1, <2>2, <2>3, <2>4 DEF CallOK
<1>. QED
  BY <1>4, <1>5, <1>7, <1>8

\* A new version is the latest, and what was current stays so until now.
LEMMA PublishStep ==
    ASSUME IInv, Publish
    PROVE  IInv'
<1>. USE DEF IInv
<1>1. /\ UNCHANGED <<clock, entry>>
      /\ UNCHANGED <<pc, option, cutoff, start, control, cached, request>>
      /\ UNCHANGED <<reply, total, retried, result>>
  BY DEF Publish, process
<1>2. /\ published' \in Seq(Nat) /\ Latest' = Latest + 1 /\ published'[Latest + 1] = clock
      /\ \A v \in 1..Latest : published'[v] = published[v]
  BY Facts DEF Publish, Types, Latest
<1>3. Types'
  <2>1. Len(published') \in 1..MaxVersion
    BY <1>2, Facts, CacheAssumption DEF Publish, Latest
  <2>. QED
    BY <1>1, <1>2, <2>1 DEF Types
<1>4. Timeline'
  <2>1. \A v \in 1..Latest : published[v] < clock
    <3>. SUFFICES ASSUME NEW v \in 1..Latest PROVE published[v] < clock
      OBVIOUS
    <3>1. published[v] <= published[Latest]
      BY Facts DEF Timeline
    <3>. QED
      BY <3>1, Facts DEF Publish
  <2>2. \A v \in 1..Latest' : published'[v] <= clock'
    BY <1>1, <1>2, Facts DEF Timeline
  <2>3. ASSUME NEW v \in 1..Latest', NEW w \in 1..Latest', v < w
        PROVE  published'[v] < published'[w]
    <3>1. v \in 1..Latest
      BY <1>2, <2>3, Facts
    <3>2. CASE w \in 1..Latest
      BY <1>2, <2>3, <3>1, <3>2 DEF Timeline
    <3>3. CASE w = Latest + 1
      BY <1>2, <2>1, <3>1, <3>3
    <3>. QED
      BY <1>2, <3>2, <3>3, Facts
  <2>. QED
    BY <2>2, <2>3 DEF Timeline
<1>5. ASSUME NEW v \in 1..Latest, NEW t, t <= clock, Since(v, t) PROVE v \in 1..Latest' /\ Since(v, t)'
  <2>1. v \in 1..Latest'
    BY <1>2, Facts
  <2>2. CASE v < Latest
    <3>1. v + 1 \in 1..Latest /\ t <= published[v + 1]
      BY <1>5, <2>2, Facts DEF Since
    <3>. QED
      BY <1>2, <2>1, <3>1 DEF Since
  <2>3. CASE v = Latest
    BY <1>2, <1>5, <2>1, <2>3 DEF Since
  <2>. QED
    BY <2>2, <2>3, Facts
<1>6. ASSUME NEW e \in Entry, Described(e), Known(e.policy) PROVE Described(e)' /\ Known(e.policy)'
  <2>1. Known(e.policy)'
    BY <1>1, <1>6 DEF Known
  <2>2. e.policy.date <= clock
    <3>1. e.policy.date \in Nat /\ e.policy.resp \in Nat
      BY DEF Entry, Policy
    <3>. QED
      BY <1>6, <3>1, Facts DEF Known
  <2>3. Described(e)'
    BY <1>2, <1>5, <1>6, <2>2 DEF Described
  <2>. QED
    BY <2>1, <2>3
<1>7. Described(entry)' /\ Known(entry.policy)'
  BY <1>1, <1>6, Facts
<1>8. ASSUME NEW c \in Client PROVE CallOK(c)'
  <2>1. start'[c] <= clock' /\ Described(cached[c])' /\ Known(cached[c].policy)'
    BY <1>1, <1>6, Facts DEF CallOK
  <2>2. Asked(c)' /\ Budget(c)'
    BY <1>1 DEF CallOK, Asked, Budget
  <2>3. Answered(c)'
    <3>. SUFFICES ASSUME pc[c] = "received", reply[c].kind = "response" PROVE Answered(c)'
      BY <1>1 DEF Answered
    <3>. DEFINE r == reply[c]
    <3>1. /\ r.version \in 1..Latest /\ Since(r.version, r.date)
          /\ start[c] - CdnAge <= r.date /\ r.date <= clock
          /\ r.hdr \in Headers /\ r.status \in {200, 304}
          /\ r.status = 304 => Matches(request[c], r.version)
      BY DEF CallOK, Answered
    <3>2. r.version \in 1..Latest' /\ Since(r.version, r.date)'
      BY <1>1, <1>5, <3>1
    <3>3. r.status = 304 => Matches(request[c], r.version)'
      BY <1>1, <1>2, <3>1 DEF Matches
    <3>. QED
      BY <1>1, <3>1, <3>2, <3>3 DEF Answered
  <2>4. ASSUME NEW v, Current(c, v) PROVE Current(c, v)'
    <3>1. start[c] - Slack + 1 <= clock /\ start[c] - CdnAge <= clock
      BY SlackType, Facts DEF CallOK
    <3>2. v \in 1..Latest /\ start'[c] = start[c] /\ control'[c] = control[c]
      BY <1>1, <2>4 DEF Current
    <3>3. control[c] # "AllowStale" => Since(v, start[c] - Slack + 1)'
      BY <1>1, <1>5, <2>4, <3>1, <3>2 DEF Current
    <3>4. control[c] = "MustRevalidate" /\ NoImmutable => Since(v, start[c] - CdnAge)'
      BY <1>1, <1>5, <2>4, <3>1, <3>2 DEF Current
    <3>5. v \in 1..Latest'
      BY <1>2, <3>2, Facts
    <3>. QED
      BY <1>1, <3>3, <3>4, <3>5 DEF Current
  <2>5. Served(c)'
    BY <1>1, <2>4 DEF CallOK, Served
  <2>. QED
    BY <2>1, <2>2, <2>3, <2>5 DEF CallOK
<1>. QED
  BY <1>3, <1>4, <1>7, <1>8
-----------------------------------------------------------------------------
(* The parts of the steps of a call.                                       *)

\* A process goes to l.
LEMMA GoesTo ==
    ASSUME Types, NEW c \in Client, NEW l \in Location, Goto(c, l)
    PROVE  /\ pc' \in [Client -> Location] /\ pc'[c] = l
           /\ \A d \in Client \ {c} : pc'[d] = pc[d]
BY DEF Types, Goto

\* It drops what it holds.
LEMMA Drops ==
    ASSUME Types, NEW c \in Client, Drop(c)
    PROVE  /\ cached' \in [Client -> Entry] /\ request' \in [Client -> Request]
           /\ reply' \in [Client -> Reply] /\ cached'[c] = NoEntry
           /\ \A d \in Client \ {c} :
                cached'[d] = cached[d] /\ request'[d] = request[d] /\ reply'[d] = reply[d]
BY NothingTypes DEF Types, Drop

\* A step to a place at which nothing is asked, answered or served yet.
LEMMA QuietStep ==
    ASSUME IInv, NEW c \in Client, Alone(c), UNCHANGED <<clock, published>>, Types',
           Described(entry)', Known(entry.policy)',
           pc'[c] \in {"open", "read", "unlink", "fresh", "decide", "failed"},
           start'[c] \in {start[c], clock},
           cached'[c] \in {cached[c], entry, NoEntry}, Budget(c)'
    PROVE  IInv'
<1>1. /\ Described(cached[c]) /\ Known(cached[c].policy) /\ start[c] <= clock
      /\ Described(entry) /\ Known(entry.policy)
  BY DEF IInv, CallOK
<1>2. Described(NoEntry) /\ Known(NoEntry.policy)
  BY NothingOK DEF IInv, NoEntry
<1>3. Described(cached'[c]) /\ Known(cached'[c].policy) /\ start'[c] <= clock
  BY <1>1, <1>2, Facts DEF IInv
<1>4. Described(cached[c])' /\ Known(cached[c].policy)' /\ (start[c] <= clock)'
  BY <1>3 DEF Described, Known, Since, Latest
<1>5. Asked(c)' /\ Answered(c)' /\ Served(c)'
  BY DEF Asked, Answered, Served
<1>. QED
  BY <1>4, <1>5, ProcessStep DEF CallOK

\* A call returns something that it may return.
LEMMA ReturnStep ==
    ASSUME IInv, NEW c \in Client, NEW data \in 0..MaxVersion, Return(c, data), Current(c, data),
           pc[c] # "failed", entry' \in Entry, Described(entry)', Known(entry.policy)',
           UNCHANGED <<clock, published, option, cutoff, start, control, total, retried>>
    PROVE  IInv'
<1>. USE DEF IInv
<1>1. /\ pc' \in [Client -> Location] /\ pc'[c] = "done"
      /\ \A d \in Client \ {c} : pc'[d] = pc[d]
  BY GoesTo DEF Return, Location
<1>2. /\ cached' \in [Client -> Entry] /\ request' \in [Client -> Request]
      /\ reply' \in [Client -> Reply] /\ cached'[c] = NoEntry
      /\ \A d \in Client \ {c} :
           cached'[d] = cached[d] /\ request'[d] = request[d] /\ reply'[d] = reply[d]
  BY Drops DEF Return
<1>3. /\ result' \in [Client -> 0..MaxVersion] /\ result'[c] = data
      /\ \A d \in Client \ {c} : result'[d] = result[d]
  BY DEF Return, Types
<1>4. Types'
  BY <1>1, <1>2, <1>3 DEF Types
<1>5. Alone(c)
  BY <1>1, <1>2, <1>3 DEF Alone
<1>6. Described(cached[c])' /\ Known(cached[c].policy)'
  <2>1. Described(NoEntry) /\ Known(NoEntry.policy)
    BY NothingOK DEF NoEntry
  <2>. QED
    BY <1>2, <2>1 DEF Described, Known, Since, Latest
<1>7. Asked(c)' /\ Answered(c)' /\ Budget(c)'
  BY <1>1 DEF CallOK, Asked, Answered, Budget
<1>8. Served(c)'
  BY <1>1, <1>3 DEF Served, Current, Since, Latest
<1>9. CallOK(c)'
  BY <1>6, <1>7, <1>8 DEF CallOK
<1>. QED
  BY <1>4, <1>5, <1>9, ProcessStep

\* A call that fails goes on only while its retries, those of the request that
\* failed included, are within the budget.
LEMMA RetryStep ==
    ASSUME IInv, NEW c \in Client, NEW kind, NEW n \in 0..MaxRetries, RetryOrFail(c, kind, n),
           pc[c] # "failed",
           UNCHANGED <<clock, published, entry, option, cutoff, start, control, result>>
    PROVE  IInv'
<1>. USE DEF IInv
<1>1. /\ cached' \in [Client -> Entry] /\ request' \in [Client -> Request]
      /\ reply' \in [Client -> Reply] /\ cached'[c] = NoEntry
      /\ \A d \in Client \ {c} :
           cached'[d] = cached[d] /\ request'[d] = request[d] /\ reply'[d] = reply[d]
  BY Drops DEF RetryOrFail
<1>2. MaxRetries \in Nat /\ n \in Nat /\ n <= MaxRetries /\ total[c] \in Nat
      /\ total[c] <= MaxRetries
  BY CacheAssumption, Facts DEF CallOK, Budget
<1>3. PICK l \in {"fresh", "read", "failed"} : Goto(c, l) /\ (l # "failed" => total[c] + n < MaxRetries)
         /\ total' = [total EXCEPT ![c] = @ + n + (IF l = "failed" THEN 0 ELSE 1)]
  <2>1. CASE kind = "transient" /\ total[c] + n < MaxRetries
    BY <2>1 DEF RetryOrFail
  <2>2. CASE ~(kind = "transient" /\ total[c] + n < MaxRetries)
    <3>1. Goto(c, "failed") /\ total' = [total EXCEPT ![c] = @ + n]
      BY <2>2 DEF RetryOrFail
    <3>2. total[c] + n + 0 = total[c] + n
      BY <1>2
    <3>. QED
      BY <3>1, <3>2
  <2>. QED
    BY <2>1, <2>2
<1>4. /\ pc' \in [Client -> Location] /\ pc'[c] = l
      /\ \A d \in Client \ {c} : pc'[d] = pc[d]
  BY <1>3, GoesTo DEF Location
<1>5. /\ total' \in [Client -> Nat] /\ \A d \in Client \ {c} : total'[d] = total[d]
      /\ total'[c] = total[c] + n + (IF l = "failed" THEN 0 ELSE 1)
  BY <1>2, <1>3 DEF Types
<1>6. retried' \in [Client -> Nat]
  <2>1. retried \in [Client -> Nat] /\ retried[c] + 1 \in Nat
    BY DEF Types
  <2>2. retried' \in {retried, [retried EXCEPT ![c] = retried[c] + 1]}
    BY DEF RetryOrFail
  <2>. QED
    BY <2>1, <2>2
<1>7. Types'
  BY <1>1, <1>4, <1>5, <1>6 DEF Types
<1>8. Alone(c)
  BY <1>1, <1>4, <1>5 DEF Alone
<1>9. Budget(c)'
  BY <1>2, <1>3, <1>4, <1>5 DEF Budget
<1>10. Described(entry)' /\ Known(entry.policy)'
  BY DEF Described, Known, Since, Latest
<1>. QED
  BY <1>1, <1>4, <1>7, <1>8, <1>9, <1>10, QuietStep
-----------------------------------------------------------------------------
(* The steps of a call.                                                    *)

\* The entry is as it was.
LEMMA SameEntry ==
    ASSUME IInv, UNCHANGED <<clock, published, entry>>
    PROVE  Described(entry)' /\ Known(entry.policy)'
BY DEF IInv, Described, Known, Since, Latest

\* A process starts.
LEMMA OpenStep ==
    ASSUME IInv, NEW c \in Client, Open(c)
    PROVE  IInv'
<1>. USE DEF IInv
<1>1. /\ UNCHANGED <<clock, published, entry, option, start, control, cached>>
      /\ UNCHANGED <<request, reply, total, retried, result>> /\ pc[c] = "idle"
  BY DEF Open
<1>2. /\ pc' \in [Client -> Location] /\ pc'[c] = "open"
      /\ \A d \in Client \ {c} : pc'[d] = pc[d]
  BY GoesTo DEF Open, Location
<1>3. cutoff' \in [Client -> 0..MaxTime]
  BY NothingTypes DEF Open, Types
<1>4. Types'
  BY <1>1, <1>2, <1>3 DEF Types
<1>5. Alone(c) /\ Budget(c)'
  BY <1>1, <1>2 DEF Alone, CallOK, Budget
<1>. QED
  BY <1>1, <1>2, <1>4, <1>5, SameEntry, QuietStep

\* A call begins, with all of its retries left.
LEMMA BeginStep ==
    ASSUME IInv, NEW c \in Client, Begin(c)
    PROVE  IInv'
<1>. USE DEF IInv
<1>1. UNCHANGED <<clock, published, entry, option, cutoff, cached, request, reply>>
  BY DEF Begin
<1>2. PICK l \in {"fresh", "read"} : Goto(c, l)
  BY DEF Begin
<1>3. /\ pc' \in [Client -> Location] /\ pc'[c] = l
      /\ \A d \in Client \ {c} : pc'[d] = pc[d]
  BY <1>2, GoesTo DEF Location
<1>4. /\ start' \in [Client -> 0..MaxTime] /\ start'[c] = clock
      /\ \A d \in Client \ {c} : start'[d] = start[d]
  BY DEF Begin, Types
<1>5. /\ control' \in [Client -> {"None", "MustRevalidate", "AllowStale", "Override"}]
      /\ \A d \in Client \ {c} : control'[d] = control[d]
  BY DEF Begin, Types
<1>6. /\ total' \in [Client -> Nat] /\ retried' \in [Client -> Nat] /\ total'[c] = 0
      /\ \A d \in Client \ {c} : total'[d] = total[d]
  BY DEF Begin, Types
<1>7. /\ result' \in [Client -> 0..MaxVersion] /\ \A d \in Client \ {c} : result'[d] = result[d]
  BY NothingTypes, CacheAssumption DEF Begin, Types
<1>8. Types'
  BY <1>1, <1>3, <1>4, <1>5, <1>6, <1>7 DEF Types
<1>9. Alone(c)
  BY <1>1, <1>3, <1>4, <1>5, <1>6, <1>7 DEF Alone
<1>10. Budget(c)'
  BY <1>3, <1>6, CacheAssumption DEF Budget
<1>. QED
  BY <1>1, <1>3, <1>4, <1>8, <1>9, <1>10, SameEntry, QuietStep

\* The entry is read, or served as it is when there is no network.
LEMMA ReadCacheStep ==
    ASSUME IInv, NEW c \in Client, ReadCache(c)
    PROVE  IInv'
<1>. USE DEF IInv
<1>1. /\ UNCHANGED <<clock, published, entry, option, cutoff, start, control, total, retried>>
      /\ pc[c] = "read"
  BY DEF ReadCache
<1>2. CASE /\ control[c] = "AllowStale" /\ entry.data # Bad
           /\ Return(c, entry.data)
  <2>1. entry.data \in 1..Latest /\ entry.data \in 0..MaxVersion
    BY <1>2, Facts DEF Described, Entry
  <2>2. Current(c, entry.data)
    BY <1>2, <2>1 DEF Current
  <2>3. entry' \in Entry
    BY <1>1, Facts
  <2>. QED
    BY <1>1, <1>2, <2>1, <2>2, <2>3, SameEntry, ReturnStep
<1>3. CASE /\ \E l \in {"fresh", "unlink", "decide"} : Goto(c, l)
           /\ \E e \in {NoEntry, entry} : cached' = [cached EXCEPT ![c] = e]
           /\ UNCHANGED <<request, reply, result>>
  <2>1. PICK l \in {"fresh", "unlink", "decide"} : Goto(c, l)
    BY <1>3
  <2>2. /\ pc' \in [Client -> Location] /\ pc'[c] = l
        /\ \A d \in Client \ {c} : pc'[d] = pc[d]
    BY <2>1, GoesTo DEF Location
  <2>3. /\ cached' \in [Client -> Entry] /\ cached'[c] \in {NoEntry, entry}
        /\ \A d \in Client \ {c} : cached'[d] = cached[d]
    BY <1>3, NothingTypes DEF Types
  <2>4. Types'
    BY <1>1, <1>3, <2>2, <2>3 DEF Types
  <2>5. Alone(c) /\ Budget(c)'
    BY <1>1, <1>3, <2>2, <2>3 DEF Alone, CallOK, Budget
  <2>. QED
    BY <1>1, <2>2, <2>3, <2>4, <2>5, SameEntry, QuietStep
<1>. QED
  BY <1>2, <1>3 DEF ReadCache

\* A broken entry is removed.
LEMMA UnlinkStep ==
    ASSUME IInv, NEW c \in Client, Unlink(c)
    PROVE  IInv'
<1>. USE DEF IInv
<1>1. /\ UNCHANGED <<clock, published, option, cutoff, start, control, cached>>
      /\ UNCHANGED <<request, reply, total, retried, result>>
      /\ pc[c] = "unlink" /\ entry' = NoEntry
  BY DEF Unlink
<1>2. /\ pc' \in [Client -> Location] /\ pc'[c] = "fresh"
      /\ \A d \in Client \ {c} : pc'[d] = pc[d]
  BY GoesTo DEF Unlink, Location
<1>3. Types'
  BY <1>1, <1>2, NothingTypes DEF Types
<1>4. Described(entry)' /\ Known(entry.policy)'
  <2>1. Described(NoEntry) /\ Known(NoEntry.policy)
    BY NothingOK DEF NoEntry
  <2>. QED
    BY <1>1, <2>1 DEF Described, Known, Since, Latest
<1>5. Alone(c) /\ Budget(c)'
  BY <1>1, <1>2 DEF Alone, CallOK, Budget
<1>. QED
  BY <1>1, <1>2, <1>3, <1>4, <1>5, QuietStep

\* An entry that is fresh was current within the longest lifetime; a call that
\* must revalidate finds no entry fresh.
LEMMA FreshCurrent ==
    ASSUME IInv, NEW c \in Client, cached[c].data # Bad,
           BeforeRequest(cached[c].policy, clock, control[c]) = "Fresh"
    PROVE  Current(c, cached[c].data)
<1>. USE DEF IInv
<1>. DEFINE p == cached[c].policy
            v == cached[c].data
<1>1. /\ v \in 1..Latest /\ Since(v, p.date) /\ Known(p) /\ p \in Policy
      /\ start[c] <= clock
  BY Facts DEF CallOK, Described
<1>2. /\ Age(p, clock) < FreshnessLifetime(p)
      /\ control[c] = "MustRevalidate" => p.hdr.immutable
  BY DEF BeforeRequest, IsFresh
<1>3. p.date \in Nat /\ p.resp \in Nat
  BY <1>1 DEF Policy
<1>4. Age(p, clock) \in Nat /\ Age(p, clock) >= clock - p.date
  BY <1>1, AgeSinceDate, Facts DEF Known
<1>5. FreshnessLifetime(p) \in Nat /\ FreshnessLifetime(p) <= MaxLifetime
  BY <1>1, LifetimeType DEF Known
<1>6. start[c] - Slack + 1 <= p.date
  BY <1>1, <1>2, <1>3, <1>4, <1>5, SlackType, LongestLifetime, Facts
<1>7. Since(v, start[c] - Slack + 1)
  <2>. SUFFICES ASSUME v < Latest PROVE start[c] - Slack + 1 <= published[v + 1]
    BY DEF Since
  <2>1. p.date <= published[v + 1] /\ published[v + 1] \in Nat
    BY <1>1, Facts DEF Since
  <2>. QED
    BY <1>3, <1>6, <2>1, SlackType, Facts
<1>. QED
  BY <1>1, <1>2, <1>7 DEF Current, Known

\* A fresh entry is used, a stale one is revalidated with its own validators.
LEMMA DecideStep ==
    ASSUME IInv, NEW c \in Client, Decide(c)
    PROVE  IInv'
<1>. USE DEF IInv
<1>. DEFINE p == cached[c].policy
            verdict == BeforeRequest(p, clock, control[c])
            l == IF verdict = "Fresh" THEN "decode" ELSE IF verdict = "Stale" THEN "sent" ELSE "fresh"
            r == [kind |-> "revalidation", at |-> clock,
                  etag |-> IF p.hdr.etag = "strong" THEN p.etag ELSE None, since |-> p.lastMod]
<1>1. /\ UNCHANGED <<clock, published, entry, option, cutoff, start, control, cached>>
      /\ UNCHANGED <<reply, total, retried, result>> /\ pc[c] = "decide"
      /\ request' = IF verdict # "Stale" THEN request ELSE [request EXCEPT ![c] = r]
  BY DEF Decide
<1>2. p \in Policy /\ l \in Location
  BY Facts DEF Location
<1>3. r \in Request
  BY <1>2, Facts, NothingTypes DEF Policy, Request
<1>4. /\ pc' \in [Client -> Location] /\ pc'[c] = l
      /\ \A d \in Client \ {c} : pc'[d] = pc[d]
  BY <1>2, GoesTo DEF Decide
<1>5. /\ request' \in [Client -> Request] /\ (verdict = "Stale" => request'[c] = r)
      /\ \A d \in Client \ {c} : request'[d] = request[d]
  BY <1>1, <1>3 DEF Types
<1>6. Types'
  BY <1>1, <1>4, <1>5 DEF Types
<1>7. Alone(c) /\ Budget(c)'
  BY <1>1, <1>4, <1>5 DEF Alone, CallOK, Budget
<1>8. Described(cached[c])' /\ Known(cached[c].policy)' /\ (start[c] <= clock)'
  BY <1>1 DEF CallOK, Described, Known, Since, Latest
<1>9. Asked(c)' /\ Answered(c)'
  BY <1>1, <1>4, <1>5 DEF Asked, Answered
<1>10. Served(c)'
  <2>. SUFFICES ASSUME verdict = "Fresh", cached[c].data # Bad PROVE Current(c, cached[c].data)'
    BY <1>1, <1>4 DEF Served
  <2>. QED
    BY <1>1, FreshCurrent DEF Current, Since, Latest
<1>. QED
  BY <1>1, <1>6, <1>7, <1>8, <1>9, <1>10, LocalStep DEF CallOK

\* A request without validators.
LEMMA FreshRequestStep ==
    ASSUME IInv, NEW c \in Client, FreshRequest(c)
    PROVE  IInv'
<1>. USE DEF IInv
<1>. DEFINE r == [NoRequest EXCEPT !.at = clock]
<1>1. /\ UNCHANGED <<clock, published, entry, option, cutoff, start, control>>
      /\ UNCHANGED <<reply, total, retried, result>> /\ pc[c] = "fresh"
  BY DEF FreshRequest
<1>2. r \in Request /\ r.etag = None /\ r.since = None
  BY NothingTypes, Facts DEF NoRequest, Request
<1>3. /\ pc' \in [Client -> Location] /\ pc'[c] = "sent"
      /\ \A d \in Client \ {c} : pc'[d] = pc[d]
  BY GoesTo DEF FreshRequest, Location
<1>4. /\ request' \in [Client -> Request] /\ request'[c] = r
      /\ \A d \in Client \ {c} : request'[d] = request[d]
  BY <1>2 DEF FreshRequest, Types
<1>5. /\ cached' \in [Client -> Entry] /\ cached'[c] = NoEntry
      /\ \A d \in Client \ {c} : cached'[d] = cached[d]
  BY NothingTypes DEF FreshRequest, Types
<1>6. Types'
  BY <1>1, <1>3, <1>4, <1>5 DEF Types
<1>7. Alone(c) /\ Budget(c)'
  BY <1>1, <1>3, <1>4, <1>5 DEF Alone, CallOK, Budget
<1>8. Described(cached[c])' /\ Known(cached[c].policy)' /\ (start[c] <= clock)'
  <2>1. Described(NoEntry) /\ Known(NoEntry.policy)
    BY NothingOK DEF NoEntry
  <2>. QED
    BY <1>1, <1>5, <2>1 DEF CallOK, Described, Known, Since, Latest
<1>9. Asked(c)'
  BY <1>2, <1>4, <1>5 DEF Asked, NoEntry, NoPolicy
<1>10. Answered(c)' /\ Served(c)'
  BY <1>3 DEF Answered, Served
<1>. QED
  BY <1>1, <1>6, <1>7, <1>8, <1>9, <1>10, LocalStep DEF CallOK

\* The server or a proxy answers with a version that was current not long ago.
LEMMA RespondStep ==
    ASSUME IInv, NEW c \in Client, Respond(c)
    PROVE  IInv'
<1>. USE DEF IInv
<1>1. /\ UNCHANGED <<clock, published, entry, option, cutoff, start, control, cached>>
      /\ UNCHANGED <<request, total, result>> /\ pc[c] = "sent"
  BY DEF Respond
<1>2. PICK age \in 0..CdnAge, h \in Headers, n \in 0..MaxRetries :
         /\ age <= clock
         /\ \E v \in IF age = 0 THEN {Latest} ELSE Held(clock - age) :
            \E status \in {200} \cup (IF Matches(request[c], v) THEN {304} ELSE {}) :
              reply' = [reply EXCEPT ![c] =
                [kind |-> "response", status |-> status, version |-> v, date |-> clock - age,
                 age |-> age, hdr |-> h, retries |-> n]]
         /\ retried' = [retried EXCEPT ![c] = @ + n]
  BY DEF Respond
<1>21. PICK v \in IF age = 0 THEN {Latest} ELSE Held(clock - age) :
            \E status \in {200} \cup (IF Matches(request[c], v) THEN {304} ELSE {}) :
              reply' = [reply EXCEPT ![c] =
                [kind |-> "response", status |-> status, version |-> v, date |-> clock - age,
                 age |-> age, hdr |-> h, retries |-> n]]
  BY <1>2
<1>3. PICK status \in {200} \cup (IF Matches(request[c], v) THEN {304} ELSE {}) :
              reply' = [reply EXCEPT ![c] =
                [kind |-> "response", status |-> status, version |-> v, date |-> clock - age,
                 age |-> age, hdr |-> h, retries |-> n]]
  BY <1>21
<1>. DEFINE r == [kind |-> "response", status |-> status, version |-> v, date |-> clock - age,
                  age |-> age, hdr |-> h, retries |-> n]
<1>4. age \in Nat /\ age <= CdnAge /\ clock - age \in 0..MaxTime /\ clock - age <= clock
  BY <1>2, Facts, CacheAssumption DEF Types
<1>5. v \in 1..Latest /\ Since(v, clock - age)
  BY <1>4, Facts DEF Held, Since
<1>6. r \in Reply
  <2>1. v \in 0..MaxVersion
    BY <1>5, Facts, CacheAssumption
  <2>2. h \in Header /\ status \in {0, 200, 304, 500}
    BY CacheAssumption
  <2>. QED
    BY <1>4, <2>1, <2>2 DEF Reply
<1>7. /\ pc' \in [Client -> Location] /\ pc'[c] = "received"
      /\ \A d \in Client \ {c} : pc'[d] = pc[d]
  BY GoesTo DEF Respond, Location
<1>8. /\ reply' \in [Client -> Reply] /\ reply'[c] = r
      /\ \A d \in Client \ {c} : reply'[d] = reply[d]
  BY <1>3, <1>6 DEF Types
<1>9. retried' \in [Client -> Nat]
  <2>1. retried[c] + n \in Nat /\ retried \in [Client -> Nat]
    BY CacheAssumption DEF Types
  <2>. QED
    BY <1>2, <2>1
<1>10. Types'
  BY <1>1, <1>7, <1>8, <1>9 DEF Types
<1>11. Alone(c) /\ Budget(c)'
  BY <1>1, <1>7, <1>8 DEF Alone, CallOK, Budget
<1>12. Described(cached[c])' /\ Known(cached[c].policy)' /\ (start[c] <= clock)'
  BY <1>1 DEF CallOK, Described, Known, Since, Latest
<1>13. Asked(c)' /\ Served(c)'
  BY <1>1, <1>7 DEF CallOK, Asked, Served
<1>14. Answered(c)'
  <2>1. /\ reply'[c].version = v /\ reply'[c].date = clock - age /\ reply'[c].hdr = h
        /\ reply'[c].status = status
    BY <1>8
  <2>2. Latest' = Latest /\ Since(v, clock - age)'
    BY <1>1, <1>5 DEF Since, Latest
  <2>3. start[c] - CdnAge <= clock - age
    BY <1>4, Facts, CacheAssumption DEF CallOK
  <2>4. status \in {200, 304} /\ (status = 304 => Matches(request[c], v)')
    BY <1>1 DEF Matches
  <2>. QED
    BY <1>1, <1>4, <1>5, <2>1, <2>2, <2>3, <2>4 DEF Answered
<1>. QED
  BY <1>1, <1>10, <1>11, <1>12, <1>13, <1>14, LocalStep DEF CallOK

\* The request fails.
LEMMA FailStep ==
    ASSUME IInv, NEW c \in Client, Fail(c)
    PROVE  IInv'
<1>. USE DEF IInv
<1>1. /\ UNCHANGED <<clock, published, entry, option, cutoff, start, control, cached>>
      /\ UNCHANGED <<request, total, result>> /\ pc[c] = "sent"
  BY DEF Fail
<1>2. PICK kind \in {"transient", "fatal"}, status \in {0, 500}, n \in 0..MaxRetries :
         /\ reply' = [reply EXCEPT ![c] =
              [NoReply EXCEPT !.kind = kind, !.status = status, !.retries = n]]
         /\ retried' = [retried EXCEPT ![c] = @ + n]
  <2>1. Failures \subseteq {"transient", "fatal"} /\ MaxRetries \in 0..MaxRetries
    BY CacheAssumption
  <2>2. PICK kind \in IF option[c].offline THEN {"fatal"} ELSE Failures, status \in {0, 500} :
       \E n \in IF kind = "transient" THEN {MaxRetries} ELSE 0..MaxRetries :
         /\ option[c].offline => n = 0 /\ status = 0
         /\ reply' = [reply EXCEPT ![c] =
              [NoReply EXCEPT !.kind = kind, !.status = status, !.retries = n]]
         /\ retried' = [retried EXCEPT ![c] = @ + n]
    BY DEF Fail
  <2>3. PICK n \in IF kind = "transient" THEN {MaxRetries} ELSE 0..MaxRetries :
         /\ reply' = [reply EXCEPT ![c] =
              [NoReply EXCEPT !.kind = kind, !.status = status, !.retries = n]]
         /\ retried' = [retried EXCEPT ![c] = @ + n]
    BY <2>2
  <2>4. kind \in {"transient", "fatal"} /\ n \in 0..MaxRetries
    BY <2>1
  <2>. QED
    BY ZenonT(60), <2>3, <2>4
<1>. DEFINE r == [NoReply EXCEPT !.kind = kind, !.status = status, !.retries = n]
<1>3. r \in Reply /\ r.kind # "response"
  BY ZenonT(60), NothingTypes DEF Reply
<1>4. /\ pc' \in [Client -> Location] /\ pc'[c] = "received"
      /\ \A d \in Client \ {c} : pc'[d] = pc[d]
  BY GoesTo DEF Fail, Location
<1>5. /\ reply' \in [Client -> Reply] /\ reply'[c] = r
      /\ \A d \in Client \ {c} : reply'[d] = reply[d]
  BY <1>2, <1>3 DEF Types
<1>6. retried' \in [Client -> Nat]
  <2>1. retried[c] + n \in Nat /\ retried \in [Client -> Nat]
    BY CacheAssumption DEF Types
  <2>. QED
    BY <1>2, <2>1
<1>7. Types'
  BY <1>1, <1>4, <1>5, <1>6 DEF Types
<1>8. Alone(c) /\ Budget(c)'
  BY <1>1, <1>4, <1>5 DEF Alone, CallOK, Budget
<1>9. Described(cached[c])' /\ Known(cached[c].policy)' /\ (start[c] <= clock)'
  BY <1>1 DEF CallOK, Described, Known, Since, Latest
<1>10. Asked(c)' /\ Served(c)'
  BY <1>1, <1>4 DEF CallOK, Asked, Served
<1>11. Answered(c)'
  BY <1>3, <1>5 DEF Answered
<1>. QED
  BY <1>1, <1>7, <1>8, <1>9, <1>10, <1>11, LocalStep DEF CallOK

\* An error is retried or ends the call.
LEMMA ReceiveErrorStep ==
    ASSUME IInv, NEW c \in Client, ReceiveError(c)
    PROVE  IInv'
<1>1. UNCHANGED <<clock, published, entry, option, cutoff, start, control, result>>
      /\ pc[c] = "received"
  BY DEF ReceiveError
<1>2. reply[c].retries \in 0..MaxRetries /\ 0 \in 0..MaxRetries
  BY Facts, CacheAssumption DEF IInv, Reply
<1>3. \E n \in 0..MaxRetries : RetryOrFail(c, reply[c].kind, n)
  BY <1>2 DEF ReceiveError
<1>. QED
  BY <1>1, <1>3, RetryStep

\* The policy that is made of a response.
LEMMA BuiltPolicy ==
    ASSUME IInv, NEW c \in Client, pc[c] = "received", reply[c].kind = "response"
    PROVE  LET new == Build(c, clock)
           IN  /\ new \in Policy /\ Known(new) /\ new.date = reply[c].date
               /\ new.etag \in {None, reply[c].version}
               /\ new.lastMod \in {None, published[reply[c].version]}
<1>. USE DEF IInv
<1>. DEFINE h == reply[c].hdr
            v == reply[c].version
            o == [h EXCEPT !.maxAge = OverrideAge, !.noCache = FALSE, !.noStore = FALSE,
                           !.immutable = FALSE]
            new == Build(c, clock)
<1>1. v \in 1..Latest /\ h \in Headers /\ reply[c].date <= clock
  BY DEF CallOK, Answered
<1>2. h \in Header
  BY <1>1, CacheAssumption
<1>3. o \in Header /\ o.maxAge = OverrideAge /\ o.immutable = FALSE
  BY <1>2, CacheAssumption DEF Header
<1>4. /\ new.req = request[c].at /\ new.resp = clock /\ new.date = reply[c].date
      /\ new.age = reply[c].age
      /\ new.etag = IF h.etag = "none" THEN None ELSE v
      /\ new.lastMod = IF h.lastMod THEN published[v] ELSE None
      /\ new.hdr = IF control[c] = "Override" THEN o ELSE h
  BY DEF Build
<1>5. /\ request[c].at \in Nat /\ reply[c].date \in Nat /\ reply[c].age \in Nat
      /\ published[v] \in Nat /\ v \in Nat /\ clock \in Nat
  <2>1. 0..MaxTime \subseteq Nat
    BY CacheAssumption
  <2>2. request[c] \in Request /\ reply[c] \in Reply
    BY Facts
  <2>3. request[c].at \in Nat /\ reply[c].date \in Nat /\ reply[c].age \in Nat
    BY <2>1, <2>2 DEF Request, Reply
  <2>. QED
    BY <1>1, <2>3, Facts
<1>6. new \in Policy
  <2>. HIDE DEF o
  <2>. QED
    BY <1>2, <1>3, <1>5, NothingTypes DEF Build, Policy, o
<1>. HIDE DEF new, o
<1>7. new.hdr \in Headers \/ new.hdr.maxAge = OverrideAge
  BY <1>1, <1>3, <1>4
<1>8. Known(new)
  <2>1. FreshnessLifetime(new) <= MaxLifetime
    BY <1>6, <1>7, LifetimeBound
  <2>2. NoImmutable => ~new.hdr.immutable
    BY <1>1, <1>3, <1>4 DEF NoImmutable
  <2>. QED
    BY <1>1, <1>4, <1>5, <2>1, <2>2 DEF Known
<1>9. new.etag \in {None, v} /\ new.lastMod \in {None, published[v]} /\ new.date = reply[c].date
  BY <1>4
<1>. QED
  BY <1>6, <1>8, <1>9 DEF new

\* A 304 that is taken confirms the version that is stored: a proxy's older
\* version has another tag, if it has one, and another date.
LEMMA SameVersion ==
    ASSUME IInv, NEW c \in Client, pc[c] = "received", reply[c].kind = "response",
           reply[c].status = 304, ~IsModified(cached[c].policy, Build(c, clock)),
           cached[c].data # Bad
    PROVE  reply[c].version = cached[c].data
<1>. USE DEF IInv
<1>. DEFINE v == reply[c].version
            data == cached[c].data
            old == cached[c].policy
            new == Build(c, clock)
<1>1. /\ data \in 1..Latest /\ old.etag \in {None, data} /\ old.lastMod \in {None, published[data]}
  BY DEF CallOK, Described
<1>2. v \in 1..Latest /\ Matches(request[c], v)
  BY DEF CallOK, Answered
<1>3. /\ request[c].etag = IF old.hdr.etag = "strong" THEN old.etag ELSE None
      /\ request[c].since = old.lastMod
  BY DEF CallOK, Asked
<1>4. new.etag \in {None, v} /\ new.lastMod \in {None, published[v]}
  BY BuiltPolicy
<1>. HIDE DEF new
<1>5. ~IsModified(old, new)
  BY DEF new
<1>6. CASE request[c].etag # None
  BY <1>1, <1>2, <1>3, <1>6 DEF Matches
<1>7. CASE request[c].etag = None
  <2>1. old.lastMod # None
    BY <1>2, <1>3, <1>7 DEF Matches
  <2>2. old.lastMod = published[data]
    BY <1>1, <2>1
  <2>3. \/ old.etag # None /\ old.etag = new.etag
        \/ old.lastMod = new.lastMod
    BY <1>5, <2>1 DEF IsModified
  <2>4. CASE old.etag # None /\ old.etag = new.etag
    BY <1>1, <1>4, <2>4
  <2>5. CASE old.lastMod = new.lastMod
    <3>1. published[data] = published[v]
      BY <1>4, <2>1, <2>2, <2>5
    <3>. QED
      BY <1>1, <1>2, <3>1, Facts DEF Timeline
  <2>. QED
    BY <2>3, <2>4, <2>5
<1>. QED
  BY <1>6, <1>7

\* A version of a response is one that the call may return.
LEMMA ReplyCurrent ==
    ASSUME IInv, NEW c \in Client, pc[c] = "received", reply[c].kind = "response"
    PROVE  Current(c, reply[c].version) /\ Since(reply[c].version, reply[c].date)
<1>. USE DEF IInv
<1>. DEFINE v == reply[c].version
            t == reply[c].date
<1>1. v \in 1..Latest /\ Since(v, t) /\ start[c] - CdnAge <= t
  BY DEF CallOK, Answered
<1>2. t \in Nat
  BY Facts, CacheAssumption DEF Reply
<1>3. start[c] - Slack + 1 <= t
  BY <1>1, <1>2, SlackType, Facts
<1>4. Since(v, start[c] - CdnAge) /\ Since(v, start[c] - Slack + 1)
  <2>. SUFFICES ASSUME v < Latest
                PROVE  /\ start[c] - CdnAge <= published[v + 1]
                       /\ start[c] - Slack + 1 <= published[v + 1]
    BY DEF Since
  <2>1. t <= published[v + 1] /\ published[v + 1] \in Nat
    BY <1>1, Facts DEF Since
  <2>. QED
    BY <1>1, <1>2, <1>3, <2>1, SlackType, Facts
<1>. QED
  BY <1>1, <1>4 DEF Current

\* A response is taken, unless it is a 304 for something else.
LEMMA ReceiveStep ==
    ASSUME IInv, NEW c \in Client, Receive(c)
    PROVE  IInv'
<1>. USE DEF IInv
<1>. DEFINE new  == Build(c, clock)
            kept == reply[c].status = 304
            data == IF kept THEN cached[c].data ELSE reply[c].version
            e    == Present(data, new, 0)
            r    == [NoReply EXCEPT !.retries = reply[c].retries]
<1>1. /\ UNCHANGED <<clock, published, entry, option, cutoff, start, control>>
      /\ UNCHANGED <<total, retried, result>>
      /\ pc[c] = "received" /\ reply[c].kind = "response"
      /\ request' = [request EXCEPT ![c] = NoRequest] /\ reply' = [reply EXCEPT ![c] = r]
  BY DEF Receive
<1>2. /\ request' \in [Client -> Request] /\ reply' \in [Client -> Reply]
      /\ \A d \in Client \ {c} : request'[d] = request[d] /\ reply'[d] = reply[d]
  <2>1. reply[c].retries \in 0..MaxRetries
    BY Facts DEF Reply
  <2>2. r \in Reply
    BY <2>1, NothingTypes DEF Reply
  <2>. HIDE DEF r
  <2>. QED
    BY <1>1, <2>2, NothingTypes DEF Types
<1>3. CASE kept /\ IsModified(cached[c].policy, new)
  <2>1. Goto(c, "unlink") /\ cached' = [cached EXCEPT ![c] = NoEntry]
    BY <1>3 DEF Receive
  <2>2. /\ pc' \in [Client -> Location] /\ pc'[c] = "unlink"
        /\ \A d \in Client \ {c} : pc'[d] = pc[d]
    BY <2>1, GoesTo DEF Location
  <2>3. /\ cached' \in [Client -> Entry] /\ cached'[c] = NoEntry
        /\ \A d \in Client \ {c} : cached'[d] = cached[d]
    BY <2>1, NothingTypes DEF Types
  <2>4. Types'
    BY <1>1, <1>2, <2>2, <2>3 DEF Types
  <2>5. Alone(c) /\ Budget(c)'
    BY <1>1, <1>2, <2>2, <2>3 DEF Alone, CallOK, Budget
  <2>. QED
    BY <1>1, <2>2, <2>3, <2>4, <2>5, SameEntry, QuietStep
<1>4. CASE ~(kept /\ IsModified(cached[c].policy, new))
  <2>. DEFINE l == IF kept THEN "refresh" ELSE "callback"
  <2>1. Goto(c, l) /\ cached' = [cached EXCEPT ![c] = e]
    BY <1>4 DEF Receive
  <2>2. /\ new \in Policy /\ Known(new) /\ new.date = reply[c].date
        /\ new.etag \in {None, reply[c].version}
        /\ new.lastMod \in {None, published[reply[c].version]}
    BY <1>1, BuiltPolicy
  <2>. HIDE DEF new
  <2>3. data # Bad => data = reply[c].version
    BY <1>1, <1>4, SameVersion DEF new
  <2>4. Current(c, reply[c].version) /\ Since(reply[c].version, reply[c].date)
    BY <1>1, ReplyCurrent
  <2>5. reply[c].version \in 1..Latest
    BY <2>4 DEF Current
  <2>6. data \in 0..MaxVersion
    BY Facts DEF Entry, Reply
  <2>. HIDE DEF data
  <2>7. e \in Entry /\ e.data = data /\ e.policy = new
    BY <2>2, <2>6, NothingTypes DEF Present, Entry
  <2>. HIDE DEF e
  <2>8. /\ pc' \in [Client -> Location] /\ pc'[c] = l
        /\ \A d \in Client \ {c} : pc'[d] = pc[d]
    BY <2>1, GoesTo DEF Location
  <2>9. /\ cached' \in [Client -> Entry] /\ cached'[c] = e
        /\ \A d \in Client \ {c} : cached'[d] = cached[d]
    BY <2>1, <2>7 DEF Types
  <2>10. Types'
    BY <1>1, <1>2, <2>8, <2>9 DEF Types
  <2>11. Alone(c) /\ Budget(c)'
    BY <1>1, <1>2, <2>8, <2>9 DEF Alone, CallOK, Budget
  <2>12. Known(cached[c].policy)' /\ (start[c] <= clock)'
    BY <1>1, <2>2, <2>7, <2>9 DEF CallOK, Known
  <2>13. Described(cached[c])'
    BY <1>1, <2>2, <2>3, <2>4, <2>5, <2>7, <2>9 DEF Described, Since, Latest
  <2>14. Asked(c)' /\ Answered(c)'
    BY <2>8 DEF Asked, Answered
  <2>15. pc'[c] = "callback" => data # Bad
    BY <2>5, <2>8, NothingTypes DEF data
  <2>16. Served(c)'
    BY <1>1, <2>3, <2>4, <2>7, <2>8, <2>9, <2>15 DEF Served, Current, Since, Latest
  <2>. QED
    BY <1>1, <2>10, <2>11, <2>12, <2>13, <2>14, <2>16, LocalStep DEF CallOK
<1>. QED
  BY <1>3, <1>4

\* The body of a response is read, and stored if it may be.
LEMMA CallbackStep ==
    ASSUME IInv, NEW c \in Client, Callback(c)
    PROVE  IInv'
<1>. USE DEF IInv
<1>1. /\ UNCHANGED <<clock, published, entry, option, cutoff, start, control, total, retried>>
      /\ pc[c] = "callback"
  BY DEF Callback
<1>2. cached[c].data # Bad /\ Current(c, cached[c].data) /\ cached[c].data \in 0..MaxVersion
  BY <1>1, Facts DEF CallOK, Served, Entry
<1>3. CASE Return(c, cached[c].data)
  <2>1. entry' \in Entry
    BY <1>1, Facts
  <2>. QED
    BY <1>1, <1>2, <1>3, <2>1, SameEntry, ReturnStep
<1>4. CASE Goto(c, "write") /\ UNCHANGED <<cached, request, reply, result>>
  <2>1. /\ pc' \in [Client -> Location] /\ pc'[c] = "write"
        /\ \A d \in Client \ {c} : pc'[d] = pc[d]
    BY <1>4, GoesTo DEF Location
  <2>2. Types'
    BY <1>1, <1>4, <2>1 DEF Types
  <2>3. Alone(c) /\ Budget(c)'
    BY <1>1, <1>4, <2>1 DEF Alone, CallOK, Budget
  <2>4. Described(cached[c])' /\ Known(cached[c].policy)' /\ (start[c] <= clock)'
    BY <1>1, <1>4 DEF CallOK, Described, Known, Since, Latest
  <2>5. Asked(c)' /\ Answered(c)'
    BY <2>1 DEF Asked, Answered
  <2>6. Served(c)'
    BY <1>1, <1>2, <1>4, <2>1 DEF Served, Current, Since, Latest
  <2>. QED
    BY <1>1, <2>2, <2>3, <2>4, <2>5, <2>6, LocalStep DEF CallOK
<1>. QED
  BY <1>3, <1>4 DEF Callback

\* Reading the body or writing the entry fails.
LEMMA CallFailsStep ==
    ASSUME IInv, NEW c \in Client, CallbackFails(c) \/ WriteFails(c)
    PROVE  IInv'
<1>1. UNCHANGED <<clock, published, entry, option, cutoff, start, control, result>>
      /\ pc[c] # "failed"
  BY DEF CallbackFails, WriteFails
<1>2. reply[c].retries \in 0..MaxRetries /\ 0 \in 0..MaxRetries
  BY Facts, CacheAssumption DEF IInv, Reply
<1>3. PICK kind \in Failures, n \in 0..MaxRetries : RetryOrFail(c, kind, n)
  BY <1>2 DEF CallbackFails, WriteFails
<1>. QED
  BY <1>1, <1>3, RetryStep

\* The entry that a call writes is the one it holds.
LEMMA Written ==
    ASSUME IInv, NEW c \in Client, entry' = [cached[c] EXCEPT !.written = clock],
           UNCHANGED <<clock, published>>
    PROVE  entry' \in Entry /\ Described(entry)' /\ Known(entry.policy)'
<1>. USE DEF IInv
<1>1. cached[c] \in Entry /\ clock \in 0..MaxTime
  BY Facts DEF Types
<1>2. entry' \in Entry /\ entry'.data = cached[c].data /\ entry'.policy = cached[c].policy
  BY <1>1 DEF Entry
<1>3. Described(cached[c]) /\ Known(cached[c].policy)
  BY DEF CallOK
<1>. QED
  BY <1>2, <1>3 DEF Described, Known, Since, Latest

\* The new payload is stored with its policy.
LEMMA WriteStep ==
    ASSUME IInv, NEW c \in Client, Write(c)
    PROVE  IInv'
<1>. USE DEF IInv
<1>1. /\ UNCHANGED <<clock, published, option, cutoff, start, control, total, retried>>
      /\ pc[c] = "write" /\ entry' = [cached[c] EXCEPT !.written = clock]
      /\ Return(c, cached[c].data)
  BY DEF Write
<1>2. Current(c, cached[c].data) /\ cached[c].data \in 0..MaxVersion
  BY <1>1, Facts DEF CallOK, Served, Entry
<1>. QED
  BY <1>1, <1>2, Written, ReturnStep

\* The payload that was confirmed is stored with the new policy.
LEMMA RefreshCacheStep ==
    ASSUME IInv, NEW c \in Client, RefreshCache(c)
    PROVE  IInv'
<1>. USE DEF IInv
<1>1. /\ UNCHANGED <<clock, published, option, cutoff, start, control, cached>>
      /\ UNCHANGED <<request, reply, total, retried, result>>
      /\ pc[c] = "refresh" /\ entry' = [cached[c] EXCEPT !.written = clock]
  BY DEF RefreshCache
<1>2. /\ pc' \in [Client -> Location] /\ pc'[c] = "decode"
      /\ \A d \in Client \ {c} : pc'[d] = pc[d]
  BY GoesTo DEF RefreshCache, Location
<1>3. entry' \in Entry /\ Described(entry)' /\ Known(entry.policy)'
  BY <1>1, Written
<1>4. Types'
  BY <1>1, <1>2, <1>3 DEF Types
<1>5. Alone(c) /\ Budget(c)'
  BY <1>1, <1>2 DEF Alone, CallOK, Budget
<1>6. Described(cached[c])' /\ Known(cached[c].policy)' /\ (start[c] <= clock)'
  BY <1>1 DEF CallOK, Described, Known, Since, Latest
<1>7. Asked(c)' /\ Answered(c)'
  BY <1>2 DEF Asked, Answered
<1>8. cached[c].data # Bad => Current(c, cached[c].data)
  BY <1>1 DEF CallOK, Served
<1>9. Served(c)'
  BY <1>1, <1>2, <1>8 DEF Served, Current, Since, Latest
<1>. QED
  BY <1>1, <1>3, <1>4, <1>5, <1>6, <1>7, <1>9, ProcessStep DEF CallOK

\* The payload is decoded and returned, or the entry is removed.
LEMMA DecodeStep ==
    ASSUME IInv, NEW c \in Client, Decode(c)
    PROVE  IInv'
<1>. USE DEF IInv
<1>1. /\ UNCHANGED <<clock, published, entry, option, cutoff, start, control, total, retried>>
      /\ pc[c] = "decode"
  BY DEF Decode
<1>2. CASE cached[c].data # Bad /\ Return(c, cached[c].data)
  <2>1. Current(c, cached[c].data) /\ cached[c].data \in 0..MaxVersion
    BY <1>1, <1>2, Facts DEF CallOK, Served, Entry
  <2>2. entry' \in Entry
    BY <1>1, Facts
  <2>. QED
    BY <1>1, <1>2, <2>1, <2>2, SameEntry, ReturnStep
<1>3. CASE Goto(c, "unlink") /\ UNCHANGED <<cached, request, reply, result>>
  <2>1. /\ pc' \in [Client -> Location] /\ pc'[c] = "unlink"
        /\ \A d \in Client \ {c} : pc'[d] = pc[d]
    BY <1>3, GoesTo DEF Location
  <2>2. Types'
    BY <1>1, <1>3, <2>1 DEF Types
  <2>3. Alone(c) /\ Budget(c)'
    BY <1>1, <1>3, <2>1 DEF Alone, CallOK, Budget
  <2>. QED
    BY <1>1, <1>3, <2>1, <2>2, <2>3, SameEntry, QuietStep
<1>. QED
  BY <1>2, <1>3 DEF Decode
-----------------------------------------------------------------------------
(* The theorems.                                                           *)

\* The entry found at the start is missing, broken or cannot be decoded.
LEMMA InitInv == Init => IInv
<1>. SUFFICES ASSUME Init PROVE IInv
  OBVIOUS
<1>1. /\ clock = 0 /\ published = <<0>> /\ option \in [Client -> Options]
      /\ \A c \in Client : /\ pc[c] = "idle" /\ start[c] = 0 /\ cached[c] = NoEntry /\ total[c] = 0
  BY DEF Init
<1>2. Latest = 1 /\ published \in Seq(Nat) /\ published[1] = 0
  BY <1>1 DEF Latest
<1>3. /\ entry \in Entry /\ entry.data = Bad
      /\ entry.policy.date = 0 /\ entry.policy.resp = 0 /\ entry.policy.hdr \in Headers
  <2>1. NoPolicy \in Policy /\ NoPolicy.hdr \in Headers /\ NoPolicy.date = 0 /\ NoPolicy.resp = 0
    BY NothingTypes DEF NoPolicy
  <2>2. CASE entry = NoEntry
    BY <2>1, <2>2, NothingTypes DEF NoEntry
  <2>3. CASE entry = [NoEntry EXCEPT !.state = "broken"]
    <3>1. entry \in Entry /\ entry.data = NoEntry.data /\ entry.policy = NoEntry.policy
      BY <2>3, NothingTypes DEF Entry
    <3>. QED
      BY <2>1, <3>1 DEF NoEntry
  <2>4. ASSUME NEW h \in Headers,
               entry = Present(Bad, [NoPolicy EXCEPT !.hdr = h,
                               !.etag = IF h.etag = "none" THEN None ELSE 1,
                               !.lastMod = IF h.lastMod THEN 0 ELSE None], 0)
        PROVE  /\ entry \in Entry /\ entry.data = Bad
               /\ entry.policy.date = 0 /\ entry.policy.resp = 0 /\ entry.policy.hdr \in Headers
    <3>. DEFINE t == IF h.etag = "none" THEN None ELSE 1
                m == IF h.lastMod THEN 0 ELSE None
                p == [NoPolicy EXCEPT !.hdr = h, !.etag = t, !.lastMod = m]
    <3>1. t \in Int /\ m \in Int /\ h \in Header
      BY NothingTypes, CacheAssumption
    <3>. HIDE DEF t, m
    <3>2. p \in Policy /\ p.hdr = h /\ p.date = 0 /\ p.resp = 0
      BY <2>1, <3>1 DEF Policy
    <3>. HIDE DEF p
    <3>3. entry = Present(Bad, p, 0)
      BY <2>4 DEF p, t, m
    <3>4. Bad \in 0..MaxVersion
      BY CacheAssumption DEF Bad
    <3>. QED
      BY <3>2, <3>3, <3>4, NothingTypes DEF Present, Entry
  <2>. QED
    BY <2>2, <2>3, <2>4 DEF Init
<1>4. Types
  <2>1. /\ cached \in [Client -> Entry] /\ request \in [Client -> Request]
        /\ reply \in [Client -> Reply]
    BY NothingTypes DEF Init
  <2>2. /\ pc \in [Client -> Location] /\ total \in [Client -> Nat] /\ retried \in [Client -> Nat]
        /\ control \in [Client -> {"None", "MustRevalidate", "AllowStale", "Override"}]
    BY DEF Init, Location
  <2>3. /\ cutoff \in [Client -> 0..MaxTime] /\ start \in [Client -> 0..MaxTime]
        /\ result \in [Client -> 0..MaxVersion]
    <3>1. 0 \in 0..MaxTime /\ Bad \in 0..MaxVersion
      BY CacheAssumption DEF Bad
    <3>. QED
      BY <3>1 DEF Init
  <2>4. clock \in 0..MaxTime /\ Len(published) \in 1..MaxVersion
    BY <1>1, <1>2, CacheAssumption DEF Latest
  <2>. QED
    BY <1>1, <1>2, <1>3, <2>1, <2>2, <2>3, <2>4 DEF Types
<1>5. Timeline
  BY <1>1, <1>2 DEF Timeline
<1>6. Described(entry) /\ Known(entry.policy)
  <2>1. FreshnessLifetime(entry.policy) <= MaxLifetime
    BY <1>3, <1>4, LifetimeBound, Facts
  <2>. QED
    BY <1>1, <1>3, <2>1 DEF Described, Known, NoImmutable
<1>7. ASSUME NEW c \in Client PROVE CallOK(c)
  <2>1. Described(cached[c]) /\ Known(cached[c].policy)
    BY <1>1, <1>4, NothingOK DEF NoEntry
  <2>2. Asked(c) /\ Answered(c) /\ Served(c)
    BY <1>1 DEF Asked, Answered, Served
  <2>3. Budget(c) /\ start[c] <= clock
    BY <1>1, CacheAssumption DEF Budget
  <2>. QED
    BY <2>1, <2>2, <2>3 DEF CallOK
<1>. QED
  BY <1>4, <1>5, <1>6, <1>7 DEF IInv

\* Every step keeps the cache and the calls in order.
LEMMA NextInv == IInv /\ [Next]_vars => IInv'
<1>. SUFFICES ASSUME IInv, [Next]_vars PROVE IInv'
  OBVIOUS
<1>1. CASE Tick \/ Publish
  BY <1>1, TickStep, PublishStep
<1>2. ASSUME NEW c \in Client, Open(c) \/ Begin(c) \/ Act(c) PROVE IInv'
  BY <1>2, OpenStep, BeginStep, ReadCacheStep, UnlinkStep, DecideStep, FreshRequestStep,
     RespondStep, FailStep, ReceiveErrorStep, ReceiveStep, CallbackStep, CallFailsStep,
     WriteStep, RefreshCacheStep, DecodeStep DEF Act
<1>3. CASE UNCHANGED vars
  <2>1. /\ UNCHANGED <<clock, published, entry, pc, option, cutoff, start>>
        /\ UNCHANGED <<control, cached, request, reply, total, retried, result>>
        /\ Latest' = Latest
    BY <1>3 DEF vars, process, Latest
  <2>2. Types' /\ Timeline'
    BY <2>1 DEF IInv, Types, Timeline
  <2>3. ASSUME NEW c \in Client PROVE CallOK(c)'
    <3>1. (start[c] <= clock)' /\ Described(cached[c])' /\ Known(cached[c].policy)'
      BY <2>1 DEF IInv, CallOK, Described, Known, Since
    <3>2. Asked(c)' /\ Answered(c)' /\ Budget(c)'
      BY <2>1 DEF IInv, CallOK, Asked, Answered, Budget, Since, Matches
    <3>3. Served(c)'
      BY <2>1 DEF IInv, CallOK, Served, Current, Since
    <3>. QED
      BY <3>1, <3>2, <3>3 DEF CallOK
  <2>. QED
    BY <2>1, <2>2, <2>3, SameEntry DEF IInv
<1>. QED
  BY <1>1, <1>2, <1>3 DEF Next

\* The inductive invariant: payloads were current at the dates of the policies
\* they are stored with, whose validators are theirs, and calls keep within
\* their budget.
THEOREM CacheInductive == Spec => []IInv
BY InitInv, NextInv, PTL DEF Spec

\* The validators that `CachePolicy` sends of an entry are of its payload, in
\* whatever order processes write the entry and remove it.
THEOREM PolicyDescribesPayload == Spec => []PolicyMatchesData
<1>1. IInv => PolicyMatchesData
  BY DEF IInv, Described, PolicyMatchesData
<1>. QED
  BY <1>1, CacheInductive, PTL

-----------------------------------------------------------------------------
(* The retries of a call.                                                  *)

\* Nothing of the retries of the processes other than c changes.
Apart(c) ==
    \A d \in Client \ {c} :
        /\ pc'[d] = pc[d] /\ request'[d] = request[d] /\ reply'[d] = reply[d]
        /\ total'[d] = total[d] /\ retried'[d] = retried[d]

LEMMA RetryLocal ==
    ASSUME RInv, NEW c \in Client, Apart(c), RetryOK(c)'
    PROVE  RInv'
<1>. SUFFICES ASSUME NEW d \in Client \ {c} PROVE RetryOK(d)'
  BY DEF RInv
<1>. QED
  BY DEF RInv, Apart, RetryOK, Spent, Asking, Replied

\* The numbers.
LEMMA RetryFacts ==
    ASSUME Types, NEW c \in Client
    PROVE  /\ MaxRetries \in Nat /\ total[c] \in Nat /\ retried[c] \in Nat
           /\ Paid(total[c]) \in Nat
           /\ reply[c].retries \in Nat /\ reply[c].retries <= MaxRetries
<1>1. MaxRetries \in Nat /\ total[c] \in Nat /\ retried[c] \in Nat
  BY CacheAssumption DEF Types
<1>2. reply[c].retries \in 0..MaxRetries
  BY Facts DEF Reply
<1>3. \A a, b \in Nat : a * b \in Nat
  OBVIOUS
<1>. QED
  BY <1>1, <1>2, <1>3 DEF Paid

\* A retry pays for the attempt it ends.
LEMMA RetryPays ==
    ASSUME NEW M \in Nat, NEW t \in Nat, NEW n \in Nat
    PROVE  t * (M + 1) + M + n + 1 <= (t + n + 1) * (M + 1)
<1>1. (t + n + 1) * (M + 1) = t * (M + 1) + n * (M + 1) + (M + 1)
  OBVIOUS
<1>2. n * (M + 1) = n * M + n /\ n * M \in Nat /\ t * (M + 1) \in Nat
  OBVIOUS
<1>. QED
  BY <1>1, <1>2

\* What a call within its budget may have made when it ends.
LEMMA RetryEnds ==
    ASSUME NEW M \in Nat, NEW t \in Nat, t <= M
    PROVE  t * (M + 1) + M + M <= M * (M + 3)
<1>1. t * (M + 1) <= M * (M + 1)
  <2>1. PICK k \in Nat : M = t + k
    <3>1. M - t \in Nat /\ M = t + (M - t)
      OBVIOUS
    <3>. QED
      BY <3>1
  <2>2. M * (M + 1) = t * (M + 1) + k * (M + 1)
    BY <2>1
  <2>3. k * (M + 1) \in Nat /\ t * (M + 1) \in Nat
    OBVIOUS
  <2>. QED
    BY <2>2, <2>3
<1>2. M * (M + 3) = M * (M + 1) + M + M
  OBVIOUS
<1>3. t * (M + 1) \in Nat /\ M * (M + 1) \in Nat
  OBVIOUS
<1>. QED
  BY <1>1, <1>2, <1>3

\* An error that reports n retries is retried or ends the call.
LEMMA RetryOrFailSpends ==
    ASSUME IInv, RInv, NEW c \in Client, NEW kind, NEW n \in Nat, RetryOrFail(c, kind, n),
           pc[c] # "failed", n <= MaxRetries,
           retried[c] <= Paid(total[c]) + MaxRetries + n
    PROVE  RInv'
<1>1. Types /\ Budget(c)
  BY DEF IInv, CallOK
<1>2. total[c] <= MaxRetries
  BY <1>1 DEF Budget
<1>3. /\ pc \in [Client -> Location] /\ total \in [Client -> Nat] /\ retried \in [Client -> Nat]
      /\ request \in [Client -> Request] /\ reply \in [Client -> Reply]
  BY <1>1 DEF Types
<1>4. Apart(c)
  BY <1>3 DEF RetryOrFail, Goto, Drop, Apart
<1>5. CASE total[c] + n < MaxRetries /\ kind = "transient"
  <2>1. /\ total'[c] = total[c] + n + 1 /\ retried'[c] = retried[c] + 1
        /\ pc'[c] \in {"fresh", "read"}
    BY <1>3, <1>5 DEF RetryOrFail, Goto
  <2>2. total'[c] \in Nat /\ MaxRetries \in Nat
    BY <1>1, <2>1, RetryFacts
  <2>3. Paid(total[c]) + MaxRetries + n + 1 <= Paid(total'[c]) /\ Paid(total'[c]) \in Nat
    <3>1. Paid(total'[c]) \in Nat
      BY <2>2 DEF Paid
    <3>. QED
      BY <1>1, <2>1, <3>1, RetryPays, RetryFacts DEF Paid
  <2>4. retried'[c] <= Spent(c)'
    <3>1. Spent(c)' \in {Paid(total'[c]) + 0, Paid(total'[c]) + MaxRetries + 0}
      BY <2>1 DEF Spent, Replied, Paid
    <3>. QED
      BY <1>1, <2>1, <2>2, <2>3, <3>1, RetryFacts
  <2>. QED
    BY <1>4, <2>1, <2>4, RetryLocal DEF RetryOK
<1>6. CASE ~(total[c] + n < MaxRetries /\ kind = "transient")
  <2>1. retried'[c] = retried[c] /\ pc'[c] = "failed"
    BY <1>3, <1>6 DEF RetryOrFail, Goto
  <2>2. Paid(total[c]) + MaxRetries + MaxRetries <= MaxRetries * (MaxRetries + 3)
    BY <1>1, <1>2, RetryEnds, RetryFacts DEF Paid
  <2>3. MaxRetries * (MaxRetries + 3) \in Nat
    BY CacheAssumption
  <2>4. retried'[c] <= MaxRetries * (MaxRetries + 3)
    BY <1>1, <2>1, <2>2, <2>3, RetryFacts
  <2>. QED
    BY <1>4, <2>1, <2>4, RetryLocal DEF RetryOK, Spent
<1>. QED
  BY <1>5, <1>6

\* A step of an attempt that makes no retry.
LEMMA RetryQuiet ==
    ASSUME IInv, RInv, NEW c \in Client, Apart(c), UNCHANGED <<total, retried>>,
           Spent(c) <= Spent(c)', Spent(c) \in Nat, Spent(c)' \in Nat,
           pc'[c] \notin {"sent", "received"}
    PROVE  RInv'
<1>1. retried[c] <= Spent(c) /\ retried[c] \in Nat
  BY RetryFacts DEF IInv, RInv, RetryOK
<1>2. retried'[c] <= Spent(c)'
  BY <1>1
<1>. QED
  BY <1>2, RetryLocal DEF RetryOK

\* A reply comes with the retries of the middleware.
LEMMA ReplyRetries ==
    ASSUME Types, NEW c \in Client, Respond(c) \/ Fail(c)
    PROVE  \E n \in 0..MaxRetries :
             /\ reply'[c].retries = n /\ \A d \in Client \ {c} : reply'[d] = reply[d]
             /\ retried' = [retried EXCEPT ![c] = retried[c] + n]
<1>0. reply \in [Client -> Reply]
  BY DEF Types
<1>1. CASE Respond(c)
  <2>1. PICK age \in 0..CdnAge, h \in Headers, n \in 0..MaxRetries :
         /\ age <= clock
         /\ \E v \in IF age = 0 THEN {Latest} ELSE Held(clock - age) :
            \E status \in {200} \cup (IF Matches(request[c], v) THEN {304} ELSE {}) :
              reply' = [reply EXCEPT ![c] =
                [kind |-> "response", status |-> status, version |-> v, date |-> clock - age,
                 age |-> age, hdr |-> h, retries |-> n]]
         /\ retried' = [retried EXCEPT ![c] = @ + n]
    BY <1>1 DEF Respond
  <2>11. PICK v \in IF age = 0 THEN {Latest} ELSE Held(clock - age) :
            \E status \in {200} \cup (IF Matches(request[c], v) THEN {304} ELSE {}) :
              reply' = [reply EXCEPT ![c] =
                [kind |-> "response", status |-> status, version |-> v, date |-> clock - age,
                 age |-> age, hdr |-> h, retries |-> n]]
    BY <2>1
  <2>2. PICK status \in {200} \cup (IF Matches(request[c], v) THEN {304} ELSE {}) :
              reply' = [reply EXCEPT ![c] =
                [kind |-> "response", status |-> status, version |-> v, date |-> clock - age,
                 age |-> age, hdr |-> h, retries |-> n]]
    BY <2>11
  <2>3. reply'[c].retries = n /\ \A d \in Client \ {c} : reply'[d] = reply[d]
    BY <1>0, <2>2
  <2>. QED
    BY <2>1, <2>3
<1>2. CASE Fail(c)
  <2>1. PICK kind \in IF option[c].offline THEN {"fatal"} ELSE Failures, status \in {0, 500} :
       \E n \in IF kind = "transient" THEN {MaxRetries} ELSE 0..MaxRetries :
         /\ option[c].offline => n = 0 /\ status = 0
         /\ reply' = [reply EXCEPT ![c] =
              [NoReply EXCEPT !.kind = kind, !.status = status, !.retries = n]]
         /\ retried' = [retried EXCEPT ![c] = @ + n]
    BY <1>2 DEF Fail
  <2>2. PICK n \in IF kind = "transient" THEN {MaxRetries} ELSE 0..MaxRetries :
         /\ reply' = [reply EXCEPT ![c] =
              [NoReply EXCEPT !.kind = kind, !.status = status, !.retries = n]]
         /\ retried' = [retried EXCEPT ![c] = @ + n]
    BY <2>1
  <2>3. n \in 0..MaxRetries
    BY CacheAssumption
  <2>4. [NoReply EXCEPT !.kind = kind, !.status = status, !.retries = n].retries = n
    BY DEF NoReply
  <2>5. reply'[c].retries = n /\ \A d \in Client \ {c} : reply'[d] = reply[d]
    BY <1>0, <2>2, <2>4
  <2>. QED
    BY <2>2, <2>3, <2>5
<1>. QED
  BY <1>1, <1>2

\* The retries of a call, through each of its steps.
LEMMA RetryNext == IInv /\ RInv /\ [Next]_vars => RInv'
<1>. SUFFICES ASSUME IInv, RInv, [Next]_vars PROVE RInv'
  OBVIOUS
<1>1. Types
  BY DEF IInv
<1>2. /\ pc \in [Client -> Location] /\ total \in [Client -> Nat] /\ retried \in [Client -> Nat]
      /\ request \in [Client -> Request] /\ reply \in [Client -> Reply]
  BY <1>1 DEF Types
<1>3. CASE Tick \/ Publish \/ UNCHANGED vars
  <2>1. UNCHANGED <<pc, request, reply, total, retried>>
    BY <1>3 DEF Tick, Publish, vars, process
  <2>. QED
    BY <2>1 DEF RInv, RetryOK, Spent, Asking, Replied
<1>4. ASSUME NEW c \in Client, Open(c) \/ Begin(c) \/ Act(c) PROVE RInv'
  <2>0. /\ MaxRetries \in Nat /\ total[c] \in Nat /\ retried[c] \in Nat /\ Paid(total[c]) \in Nat
        /\ reply[c].retries \in Nat /\ reply[c].retries <= MaxRetries
    BY <1>1, RetryFacts
  <2>. DEFINE P == Paid(total[c])
  <2>1. RetryOK(c) /\ retried[c] <= Spent(c)
    BY DEF RInv, RetryOK
  <2>2. CASE Open(c)
    <3>1. pc[c] = "idle" /\ pc'[c] = "open" /\ UNCHANGED <<request, reply, total, retried>> /\ Apart(c)
      BY <1>2, <2>2 DEF Open, Goto, Apart
    <3>2. Spent(c) = P + 0 /\ Spent(c)' = P + 0
      BY <3>1 DEF Spent, Replied, Paid
    <3>. QED
      BY <2>0, <3>1, <3>2, RetryQuiet
  <2>3. CASE Begin(c)
    <3>1. /\ pc'[c] \in {"fresh", "read"} /\ total'[c] = 0 /\ retried'[c] = 0 /\ Apart(c)
      BY <1>2, <2>3 DEF Begin, Goto, Apart
    <3>2. Paid(0) = 0
      BY <2>0 DEF Paid
    <3>3. Spent(c)' \in {Paid(0) + 0, Paid(0) + MaxRetries + 0}
      BY <3>1 DEF Spent, Replied, Paid
    <3>4. retried'[c] <= Spent(c)'
      BY <2>0, <3>1, <3>2, <3>3
    <3>. QED
      BY <3>1, <3>4, RetryLocal DEF RetryOK
  <2>4. ASSUME NEW data, Return(c, data), UNCHANGED <<total, retried>>,
               pc[c] \in {"read", "callback", "write", "decode"}
        PROVE  RInv'
    <3>1. pc'[c] = "done" /\ Apart(c)
      BY <1>2, <2>4 DEF Return, Goto, Drop, Apart
    <3>2. /\ Spent(c) \in Nat /\ Spent(c) <= P + MaxRetries + MaxRetries
      BY <2>0, <2>4 DEF Spent, Replied, Asking
    <3>3. Spent(c)' = MaxRetries * (MaxRetries + 3)
      BY <3>1 DEF Spent
    <3>4. total[c] <= MaxRetries
      BY <2>4 DEF IInv, CallOK, Budget
    <3>5. P + MaxRetries + MaxRetries <= MaxRetries * (MaxRetries + 3)
      BY <2>0, <3>4, RetryEnds DEF Paid
    <3>6. MaxRetries * (MaxRetries + 3) \in Nat
      BY <2>0
    <3>. QED
      BY <2>0, <2>4, <3>1, <3>2, <3>3, <3>5, <3>6, RetryQuiet
  <2>5. CASE ReadCache(c)
    <3>1. pc[c] = "read" /\ UNCHANGED <<total, retried>>
      BY <2>5 DEF ReadCache
    <3>2. CASE Return(c, entry.data)
      BY <2>4, <3>1, <3>2
    <3>3. CASE ~Return(c, entry.data)
      <4>1. pc'[c] \in {"fresh", "unlink", "decide"} /\ UNCHANGED <<request, reply>> /\ Apart(c)
        BY <1>2, <2>5, <3>1, <3>3 DEF ReadCache, Goto, Apart
      <4>2. Spent(c) = P + 0 /\ Spent(c)' \in {P + 0, P + MaxRetries + 0}
        BY <3>1, <4>1 DEF Spent, Replied, Asking, Paid
      <4>. QED
        BY <2>0, <3>1, <4>1, <4>2, RetryQuiet
    <3>. QED
      BY <3>2, <3>3
  <2>6. CASE Unlink(c)
    <3>1. pc[c] = "unlink" /\ pc'[c] = "fresh" /\ UNCHANGED <<request, reply, total, retried>> /\ Apart(c)
      BY <1>2, <2>6 DEF Unlink, Goto, Apart
    <3>2. Spent(c) = P + MaxRetries + 0 /\ Spent(c)' = P + MaxRetries + 0
      BY <3>1 DEF Spent, Replied, Asking, Paid
    <3>. QED
      BY <2>0, <3>1, <3>2, RetryQuiet
  <2>7. CASE Decide(c)
    <3>1. /\ pc[c] = "decide" /\ pc'[c] \in {"decode", "sent", "fresh"} /\ Apart(c)
          /\ UNCHANGED <<reply, total, retried>>
      BY <1>2, <2>7 DEF Decide, Goto, Apart
    <3>2. pc'[c] = "sent" => request'[c].kind = "revalidation"
      BY <1>2, <2>7, <3>1 DEF Decide, Goto
    <3>3. Spent(c) = P + 0 /\ Spent(c)' \in {P + 0, P + MaxRetries + 0}
      BY <3>1 DEF Spent, Replied, Asking, Paid
    <3>4. retried'[c] <= Spent(c)'
      BY <2>0, <2>1, <3>1, <3>3
    <3>. QED
      BY <3>1, <3>2, <3>4, RetryLocal DEF RetryOK
  <2>8. CASE FreshRequest(c)
    <3>1. /\ pc[c] = "fresh" /\ pc'[c] = "sent" /\ Apart(c) /\ UNCHANGED <<reply, total, retried>>
          /\ request'[c] = [NoRequest EXCEPT !.at = clock]
      BY <1>2, <2>8 DEF FreshRequest, Goto, Apart
    <3>2. /\ request'[c].kind = "fresh" /\ request'[c].etag = None /\ request'[c].since = None
      BY <3>1 DEF NoRequest
    <3>3. Spent(c) = P + MaxRetries + 0 /\ Spent(c)' = P + MaxRetries + 0
      BY <3>1, <3>2 DEF Spent, Replied, Asking, Paid
    <3>4. retried'[c] <= Spent(c)'
      BY <2>1, <3>1, <3>3
    <3>. QED
      BY <3>1, <3>2, <3>4, RetryLocal DEF RetryOK
  <2>9. CASE Respond(c) \/ Fail(c)
    <3>1. PICK n \in 0..MaxRetries :
             /\ reply'[c].retries = n /\ \A d \in Client \ {c} : reply'[d] = reply[d]
             /\ retried' = [retried EXCEPT ![c] = retried[c] + n]
      BY <1>1, <2>9, ReplyRetries
    <3>2. pc[c] = "sent" /\ Goto(c, "received") /\ UNCHANGED <<request, total>>
      BY <2>9 DEF Respond, Fail
    <3>21. pc'[c] = "received" /\ \A d \in Client \ {c} : pc'[d] = pc[d]
      BY <1>2, <3>2 DEF Goto
    <3>3. retried'[c] = retried[c] + n /\ n \in Nat /\ Apart(c)
      BY <1>2, <2>0, <3>1, <3>2, <3>21 DEF Apart
    <3>4. Spent(c)' = Spent(c) + n /\ Spent(c) \in Nat
      BY <2>0, <3>1, <3>2, <3>21, <3>3 DEF Spent, Replied, Asking, Paid
    <3>5. retried'[c] <= Spent(c)'
      BY <2>0, <2>1, <3>3, <3>4
    <3>. QED
      BY <2>1, <3>2, <3>21, <3>3, <3>5, RetryLocal DEF RetryOK
  <2>10. CASE ReceiveError(c)
    <3>. DEFINE n == IF request[c].kind = "revalidation" /\ reply[c].status # 0 THEN 0
                     ELSE reply[c].retries
    <3>1. pc[c] = "received" /\ RetryOrFail(c, reply[c].kind, n)
      BY <2>10 DEF ReceiveError
    <3>2. n \in Nat /\ n <= MaxRetries
      BY <2>0
    <3>3. CASE request[c].kind = "revalidation"
      <4>1. retried[c] <= P + reply[c].retries
        BY <2>1, <3>1, <3>3 DEF Spent, Replied, Asking
      <4>2. retried[c] <= P + MaxRetries + n
        BY <2>0, <3>2, <4>1
      <4>. HIDE DEF n
      <4>. QED
        BY <3>1, <3>2, <4>2, RetryOrFailSpends
    <3>4. CASE request[c].kind # "revalidation"
      <4>1. retried[c] <= P + MaxRetries + n
        BY <2>1, <3>1, <3>4 DEF Spent, Replied, Asking
      <4>. HIDE DEF n
      <4>. QED
        BY <3>1, <3>2, <4>1, RetryOrFailSpends
    <3>. QED
      BY <3>3, <3>4
  <2>11. CASE Receive(c)
    <3>1. /\ pc[c] = "received" /\ pc'[c] \in {"unlink", "refresh", "callback"}
          /\ UNCHANGED <<total, retried>> /\ Apart(c)
          /\ pc'[c] # "callback" => reply[c].status = 304
          /\ reply[c].kind = "response"
      BY <1>2, <2>11 DEF Receive, Goto, Apart
    <3>2. reply'[c].retries = reply[c].retries
      BY <1>2, <2>11 DEF Receive, NoReply
    <3>3. reply[c].status = 304 => request[c].kind = "revalidation"
      <4>1. reply[c].status = 304 => Matches(request[c], reply[c].version)
        BY <3>1 DEF IInv, CallOK, Answered
      <4>2. request[c].kind \in {"fresh", "revalidation"}
        BY <1>2 DEF Request
      <4>. QED
        BY <2>1, <3>1, <4>1, <4>2 DEF RetryOK, Matches
    <3>4. CASE pc'[c] = "callback"
      <4>1. /\ Spent(c)' = P + MaxRetries + reply[c].retries
            /\ Spent(c) \in {P + reply[c].retries, P + MaxRetries + reply[c].retries}
        BY <3>1, <3>2, <3>4 DEF Spent, Replied, Asking, Paid
      <4>. QED
        BY <2>0, <3>1, <3>4, <4>1, RetryQuiet
    <3>5. CASE pc'[c] # "callback"
      <4>1. /\ Spent(c)' = P + MaxRetries + 0 /\ Spent(c) = P + reply[c].retries
        BY <3>1, <3>3, <3>5 DEF Spent, Replied, Asking, Paid
      <4>. QED
        BY <2>0, <3>1, <3>5, <4>1, RetryQuiet
    <3>. QED
      BY <3>4, <3>5
  <2>12. CASE Callback(c)
    <3>1. pc[c] = "callback" /\ UNCHANGED <<total, retried>>
      BY <2>12 DEF Callback
    <3>2. CASE Return(c, cached[c].data)
      BY <2>4, <3>1, <3>2
    <3>3. CASE Goto(c, "write") /\ UNCHANGED <<cached, request, reply, result>>
      <4>1. pc'[c] = "write" /\ Apart(c)
        BY <1>2, <3>1, <3>3 DEF Goto, Apart
      <4>2. Spent(c) = P + MaxRetries + reply[c].retries /\ Spent(c)' = Spent(c)
        BY <3>1, <3>3, <4>1 DEF Spent, Replied, Asking, Paid
      <4>. QED
        BY <2>0, <3>1, <4>1, <4>2, RetryQuiet
    <3>. QED
      BY <2>12, <3>2, <3>3 DEF Callback
  <2>13. CASE CallbackFails(c)
    <3>1. PICK kind \in Failures : RetryOrFail(c, kind, reply[c].retries)
      BY <2>13 DEF CallbackFails
    <3>2. pc[c] = "callback"
      BY <2>13 DEF CallbackFails
    <3>3. retried[c] <= P + MaxRetries + reply[c].retries
      BY <2>1, <3>2 DEF Spent, Replied, Asking
    <3>. QED
      BY <2>0, <3>1, <3>2, <3>3, RetryOrFailSpends
  <2>14. CASE Write(c)
    BY <2>4, <2>14 DEF Write
  <2>15. CASE RefreshCache(c)
    <3>1. /\ pc[c] = "refresh" /\ pc'[c] = "decode" /\ UNCHANGED <<request, reply, total, retried>>
          /\ Apart(c)
      BY <1>2, <2>15 DEF RefreshCache, Goto, Apart
    <3>2. Spent(c) = P + MaxRetries + 0 /\ Spent(c)' = P + MaxRetries + 0
      BY <3>1 DEF Spent, Replied, Asking, Paid
    <3>. QED
      BY <2>0, <3>1, <3>2, RetryQuiet
  <2>16. CASE WriteFails(c)
    <3>1. pc[c] \in {"write", "refresh"} /\ RetryOrFail(c, "fatal", 0)
      BY <2>16 DEF WriteFails
    <3>2. Spent(c) <= P + MaxRetries + MaxRetries /\ Spent(c) \in Nat
      BY <2>0, <3>1 DEF Spent, Replied, Asking
    <3>3. pc'[c] = "failed" /\ retried' = retried /\ Apart(c)
      BY <1>2, <3>1 DEF RetryOrFail, Goto, Drop, Apart
    <3>4. total[c] <= MaxRetries
      BY <3>1 DEF IInv, CallOK, Budget
    <3>5. P + MaxRetries + MaxRetries <= MaxRetries * (MaxRetries + 3)
      BY <2>0, <3>4, RetryEnds DEF Paid
    <3>6. MaxRetries * (MaxRetries + 3) \in Nat
      BY <2>0
    <3>7. retried'[c] <= MaxRetries * (MaxRetries + 3)
      BY <2>0, <2>1, <3>2, <3>3, <3>5, <3>6
    <3>. QED
      BY <3>3, <3>7, RetryLocal DEF RetryOK, Spent
  <2>17. CASE Decode(c)
    <3>1. pc[c] = "decode" /\ UNCHANGED <<total, retried>>
      BY <2>17 DEF Decode
    <3>2. CASE Return(c, cached[c].data)
      BY <2>4, <3>1, <3>2
    <3>3. CASE Goto(c, "unlink") /\ UNCHANGED <<cached, request, reply, result>>
      <4>1. pc'[c] = "unlink" /\ Apart(c)
        BY <1>2, <3>1, <3>3 DEF Goto, Apart
      <4>2. Spent(c) = P + MaxRetries + 0 /\ Spent(c)' = Spent(c)
        BY <3>1, <3>3, <4>1 DEF Spent, Replied, Asking, Paid
      <4>. QED
        BY <2>0, <3>1, <4>1, <4>2, RetryQuiet
    <3>. QED
      BY <2>17, <3>2, <3>3 DEF Decode
  <2>. QED
    BY <1>4, <2>2, <2>3, <2>5, <2>6, <2>7, <2>8, <2>9, <2>10, <2>11, <2>12, <2>13, <2>14, <2>15,
       <2>16, <2>17 DEF Act
<1>. QED
  BY <1>3, <1>4 DEF Next

LEMMA RetryInit == Init => RInv
<1>. SUFFICES ASSUME Init, NEW c \in Client PROVE RetryOK(c)
  BY DEF RInv
<1>1. pc[c] = "idle" /\ total[c] = 0 /\ retried[c] = 0
  BY DEF Init
<1>2. Paid(0) = 0
  BY CacheAssumption DEF Paid
<1>3. Spent(c) = Paid(0) + 0
  BY <1>1 DEF Spent, Replied
<1>. QED
  BY <1>1, <1>2, <1>3 DEF RetryOK

\* The retries that a call makes, those that its budget does not count included,
\* are bounded for every value of UV_HTTP_RETRIES, however often other processes
\* restore or remove the entry between its attempts.
THEOREM RetriesAreBounded == Spec => []RetriesBounded
<1>1. IInv /\ RInv => RetriesBounded
  <2>. SUFFICES ASSUME IInv, RInv, NEW c \in Client PROVE retried[c] <= MaxRetries * (MaxRetries + 3)
    BY DEF RetriesBounded
  <2>0. /\ MaxRetries \in Nat /\ retried[c] \in Nat /\ Paid(total[c]) \in Nat /\ total[c] \in Nat
        /\ reply[c].retries \in Nat /\ reply[c].retries <= MaxRetries
    BY RetryFacts DEF IInv
  <2>1. retried[c] <= Spent(c)
    BY DEF RInv, RetryOK
  <2>2. CASE pc[c] \in {"done", "failed"}
    BY <2>1, <2>2 DEF Spent
  <2>3. CASE pc[c] \notin {"done", "failed"}
    <3>1. Spent(c) \in Nat /\ Spent(c) <= Paid(total[c]) + MaxRetries + MaxRetries
      BY <2>0, <2>3 DEF Spent, Replied
    <3>2. total[c] <= MaxRetries
      BY <2>3 DEF IInv, CallOK, Budget
    <3>3. Paid(total[c]) + MaxRetries + MaxRetries <= MaxRetries * (MaxRetries + 3)
      BY <2>0, <3>2, RetryEnds DEF Paid
    <3>4. MaxRetries * (MaxRetries + 3) \in Nat
      BY <2>0
    <3>. QED
      BY <2>0, <2>1, <3>1, <3>3, <3>4
  <2>. QED
    BY <2>2, <2>3
<1>. QED
  BY <1>1, InitInv, NextInv, RetryInit, RetryNext, PTL DEF Spec
-----------------------------------------------------------------------------
\* What was current at t + 1 or later was current after t.
LEMMA SinceCurrent ==
    ASSUME Types, NEW v \in 1..Latest, NEW t \in Int, Since(v, t + 1)
    PROVE  CurrentAfter(v, t)
<1>1. CASE v = Latest
  BY <1>1 DEF CurrentAfter
<1>2. CASE v < Latest
  <2>1. t + 1 <= published[v + 1] /\ published[v + 1] \in Nat
    BY <1>2, Facts DEF Since
  <2>. QED
    BY <2>1 DEF CurrentAfter
<1>. QED
  BY <1>1, <1>2, Facts

\* With `--refresh`, a call returns a version that was current after it began,
\* as far as proxies allow, if no response is immutable.
THEOREM RefreshIsCurrent == Spec => []RefreshSeesCurrent
<1>1. IInv => RefreshSeesCurrent
  <2>. SUFFICES ASSUME IInv, NEW c \in Client, pc[c] = "done", control[c] = "MustRevalidate",
                       \A h \in Headers : ~h.immutable
                PROVE  CurrentAfter(result[c], start[c] - CdnAge - 1)
    BY DEF RefreshSeesCurrent
  <2>1. result[c] \in 1..Latest /\ Since(result[c], start[c] - CdnAge)
    BY DEF IInv, CallOK, Served, Current, NoImmutable
  <2>2. /\ start[c] - CdnAge - 1 \in Int
        /\ (start[c] - CdnAge - 1) + 1 = start[c] - CdnAge
    BY Facts, SlackType DEF IInv
  <2>3. Since(result[c], (start[c] - CdnAge - 1) + 1)
    BY <2>1, <2>2
  <2>. QED
    BY <2>1, <2>2, <2>3, SinceCurrent DEF IInv
<1>. QED
  BY <1>1, CacheInductive, PTL

\* A call returns a published version that was current no longer ago than the
\* longest lifetime of a response, or any of them offline.
THEOREM CallsServeRecent == Spec => []ServesRecent
<1>1. IInv => ServesRecent
  <2>. SUFFICES ASSUME IInv, NEW c \in Client, pc[c] = "done"
                PROVE  /\ result[c] \in 1..Latest
                       /\ control[c] # "AllowStale" => CurrentAfter(result[c], start[c] - Slack)
    BY DEF ServesRecent, Slack
  <2>1. /\ result[c] \in 1..Latest
        /\ control[c] # "AllowStale" => Since(result[c], start[c] - Slack + 1)
    BY DEF IInv, CallOK, Served, Current
  <2>2. start[c] - Slack \in Int
    BY Facts, SlackType DEF IInv
  <2>. QED
    BY <2>1, <2>2, SinceCurrent DEF IInv
<1>. QED
  BY <1>1, CacheInductive, PTL
=============================================================================
