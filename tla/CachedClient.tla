---------------------------- MODULE CachedClient ----------------------------
(***************************************************************************)
(* The HTTP cache (crates/uv-client/src/cached_client.rs and httpcache).   *)
(*                                                                         *)
(* Several uv processes share one cache entry, a file that holds a payload *)
(* and the `CachePolicy` it was stored with.  Reads, atomic writes and     *)
(* removals of the file interleave (only Windows takes a lock), time       *)
(* passes, and the server publishes new versions of the resource.          *)
(***************************************************************************)
EXTENDS Integers, Sequences

CONSTANTS
    Client,      \* uv processes
    Options,     \* how a process may be run: records of Option
    Headers,     \* the headers responses may carry: records of Header
    OverrideAge, \* the max-age of a configured `Cache-Control` override
    Heuristic,   \* lifetime given to a response with only a Last-Modified
    CdnAge,      \* the oldest a response may be when a proxy serves it
    MaxRetries,  \* UV_HTTP_RETRIES
    Failures,    \* the ways a request may fail
    MaxTime, MaxVersion   \* bounds of the model

None == -1       \* an absent number
Bad  == 0        \* a payload that cannot be decoded

\* skip: the call is `skip_cache_with_retry`, made with a damaged download.
Option == [refresh : BOOLEAN, offline : BOOLEAN, override : BOOLEAN, skip : BOOLEAN]

\* expires is an offset from the Date header; -2 stands for an invalid date.
Header == [maxAge : Nat \cup {None}, expires : Nat \cup {None, -2}, lastMod : BOOLEAN,
           etag : {"none", "weak", "strong"},
           noCache : BOOLEAN, noStore : BOOLEAN, immutable : BOOLEAN, vary : BOOLEAN]
Invalid == -2

ASSUME CacheAssumption ==
    /\ Options \subseteq Option /\ Headers \subseteq Header /\ Headers # {}
    /\ OverrideAge \in Nat /\ Heuristic \in Nat /\ CdnAge \in Nat /\ MaxRetries \in Nat
    /\ Failures \subseteq {"transient", "fatal"}
    /\ MaxTime \in Nat /\ MaxVersion \in Nat \ {0}

VARIABLES
    clock,      \* seconds
    published,  \* published[v]: when version v of the resource appeared
    entry,      \* the cache file
    pc, option, \* where a process is, and how it was run
    cutoff,     \* the timestamp of its `Refresh` policy
    start,      \* when its current call began
    control,    \* the `CacheControl` of the call
    cached,     \* the entry it read, then the one it is about to store
    request,    \* the request it sent: when, and its validators
    reply,      \* what it received
    total,      \* `RetryState::total_retries`
    retried,    \* (history) the retries really made
    result      \* the payload returned

process == <<pc, option, cutoff, start, control, cached, request, reply, total, retried, result>>
vars == <<clock, published, entry, process>>

Location == {"idle", "open", "read", "unlink", "decide", "fresh", "sent", "received",
             "callback", "write", "refresh", "decode", "done", "failed"}

Latest  == Len(published)
\* The versions that were current at some moment of second t.
Held(t) == {v \in 1..Latest : published[v] <= t /\ (v < Latest => t <= published[v + 1])}
-----------------------------------------------------------------------------
(* `CachePolicy`. *)

Policy == [req : Nat, resp : Nat, date : Nat, age : Nat, etag : Int, lastMod : Int, hdr : Header]

\* The header is parsed with `and_then`: what is not a date is no header.
ParseExpires(e) == IF e = Invalid THEN None ELSE e

FreshnessLifetime(p) ==
    IF p.hdr.maxAge # None THEN p.hdr.maxAge
    ELSE IF ParseExpires(p.hdr.expires) # None THEN ParseExpires(p.hdr.expires)
    ELSE IF p.hdr.lastMod THEN Heuristic
    ELSE 0

Monus(a, b) == IF a >= b THEN a - b ELSE 0
Greater(a, b) == IF a >= b THEN a ELSE b

\* Mutant: the `Age` header is not counted.
AgeHere(p, now) == Monus(p.resp, p.req) + Monus(now, p.resp)

Age(p, now) ==
    Greater(Monus(p.resp, p.date), p.age + Monus(p.resp, p.req)) + Monus(now, p.resp)

\* `is_fresh`: uv's requests carry no max-age, min-fresh or max-stale.
IsFresh(p, now, noCache) ==
    /\ noCache => p.hdr.immutable
    /\ Age(p, now) < FreshnessLifetime(p)

IsStorable(p) == ~p.hdr.noStore

\* `is_modified`, of a response with status 304.
IsModified(old, new) ==
    /\ ~(/\ old.etag # None /\ old.etag = new.etag
         /\ old.hdr.etag = "strong" /\ new.hdr.etag = "strong")
    /\ ~(old.lastMod # None /\ old.lastMod = new.lastMod)
    /\ {old.etag, new.etag, old.lastMod, new.lastMod} # {None}

\* Mutant: `no-cache` is not put on the request.
BeforeRequestPlain(p, now, cc) ==
    IF ~IsStorable(p) THEN "NoMatch"
    ELSE IF ~p.hdr.vary /\ ~p.hdr.noCache /\ IsFresh(p, now, FALSE) THEN "Fresh" ELSE "Stale"

\* `before_request`; the entry's file name fixes the URL and the method.
BeforeRequest(p, now, cc) ==
    IF ~IsStorable(p) THEN "NoMatch"
    ELSE IF ~p.hdr.vary /\ ~p.hdr.noCache /\ IsFresh(p, now, cc = "MustRevalidate") THEN "Fresh"
    ELSE "Stale"

\* `CachePolicyBuilder::build`, with the `Cache-Control` override applied.
Build(c, now) ==
    LET h == reply[c].hdr IN
    [req |-> request[c].at, resp |-> now, date |-> reply[c].date, age |-> reply[c].age,
     etag |-> IF h.etag = "none" THEN None ELSE reply[c].version,
     lastMod |-> IF h.lastMod THEN published[reply[c].version] ELSE None,
     hdr |-> IF control[c] = "Override"
               THEN [h EXCEPT !.maxAge = OverrideAge, !.noCache = FALSE, !.noStore = FALSE,
                              !.immutable = FALSE]
               ELSE h]
-----------------------------------------------------------------------------
AnyHeader == CHOOSE h \in Headers : TRUE
NoPolicy  == [req |-> 0, resp |-> 0, date |-> 0, age |-> 0, etag |-> None, lastMod |-> None,
              hdr |-> AnyHeader]
NoEntry   == [state |-> "missing", data |-> Bad, policy |-> NoPolicy, written |-> 0]
Present(data, p, now) == [state |-> "present", data |-> data, policy |-> p, written |-> now]

NoRequest == [kind |-> "fresh", at |-> 0, etag |-> None, since |-> None]
NoReply   == [kind |-> "none", status |-> 0, version |-> 0, date |-> 0, age |-> 0,
              hdr |-> AnyHeader, retries |-> 0]

\* The file may come from a damaged disk or another version of uv.
Init ==
    /\ clock = 0 /\ published = <<0>>
    /\ entry \in {NoEntry, [NoEntry EXCEPT !.state = "broken"]}
                 \cup {Present(Bad, [NoPolicy EXCEPT !.hdr = h,
                               !.etag = IF h.etag = "none" THEN None ELSE 1,
                               !.lastMod = IF h.lastMod THEN 0 ELSE None], 0) : h \in Headers}
    /\ pc = [c \in Client |-> "idle"]
    /\ option \in [Client -> Options]
    /\ cutoff = [c \in Client |-> 0] /\ start = [c \in Client |-> 0]
    /\ control = [c \in Client |-> "None"]
    /\ cached = [c \in Client |-> NoEntry]
    /\ request = [c \in Client |-> NoRequest] /\ reply = [c \in Client |-> NoReply]
    /\ total = [c \in Client |-> 0] /\ retried = [c \in Client |-> 0]
    /\ result = [c \in Client |-> Bad]

Goto(c, l) == pc' = [pc EXCEPT ![c] = l]

Tick ==
    /\ clock < MaxTime /\ clock' = clock + 1
    /\ UNCHANGED <<published, entry, process>>

\* At most one version a second, so that Last-Modified tells versions apart.
Publish ==
    /\ Latest < MaxVersion /\ published[Latest] < clock
    /\ published' = Append(published, clock)
    /\ UNCHANGED <<clock, entry, process>>
-----------------------------------------------------------------------------
(* A call of the client. *)

\* The process starts: `Refresh::from_args` takes the time.
Open(c) ==
    /\ pc[c] = "idle"
    /\ cutoff' = [cutoff EXCEPT ![c] = IF option[c].refresh THEN clock ELSE 0]
    /\ Goto(c, "open")
    /\ UNCHANGED <<clock, published, entry, option, start, control, cached, request, reply,
                   total, retried, result>>

\* A call begins.  `Cache::freshness` looks at the file's timestamp.
Begin(c) ==
    /\ pc[c] \in {"open", "done", "failed"}
    /\ start' = [start EXCEPT ![c] = clock]
    /\ control' = [control EXCEPT ![c] =
         IF option[c].offline THEN "AllowStale"
         ELSE IF option[c].override THEN "Override"
         ELSE IF option[c].refresh /\ entry.state # "missing" /\ entry.written < cutoff[c]
           THEN "MustRevalidate"
         ELSE "None"]
    /\ total' = [total EXCEPT ![c] = 0] /\ retried' = [retried EXCEPT ![c] = 0]
    /\ result' = [result EXCEPT ![c] = Bad]
    /\ Goto(c, IF option[c].skip THEN "fresh" ELSE "read")
    /\ UNCHANGED <<clock, published, entry, option, cutoff, cached, request, reply>>

\* What the call holds is dropped.
Drop(c) ==
    /\ cached' = [cached EXCEPT ![c] = NoEntry]
    /\ request' = [request EXCEPT ![c] = NoRequest] /\ reply' = [reply EXCEPT ![c] = NoReply]

Return(c, data) ==
    /\ result' = [result EXCEPT ![c] = data]
    /\ Goto(c, "done") /\ Drop(c)

\* `read_cache`, or `read_and_decode_stale_cache` offline.
ReadCache(c) ==
    LET stale  == control[c] = "AllowStale"
        broken == entry.state = "broken" \/ (stale /\ entry.data = Bad)
        none   == entry.state = "missing"
                    \/ (stale /\ entry.state = "present" /\ ~IsStorable(entry.policy)) IN
    /\ pc[c] = "read"
    /\ IF stale /\ ~none /\ ~broken THEN Return(c, entry.data)
       ELSE /\ Goto(c, IF none THEN "fresh" ELSE IF broken THEN "unlink" ELSE "decide")
            /\ cached' = [cached EXCEPT ![c] = IF none \/ broken THEN NoEntry ELSE entry]
            /\ UNCHANGED <<request, reply, result>>
    /\ UNCHANGED <<clock, published, entry, option, cutoff, start, control, total, retried>>

\* A broken entry is removed, whatever the file holds by now.
Unlink(c) ==
    /\ pc[c] = "unlink"
    /\ entry' = NoEntry
    /\ Goto(c, "fresh")
    /\ UNCHANGED <<clock, published, option, cutoff, start, control, cached, request, reply,
                   total, retried, result>>

\* `send_cached`: a stale entry is revalidated.
Decide(c) ==
    LET p == cached[c].policy
        verdict == BeforeRequest(p, clock, control[c]) IN
    /\ pc[c] = "decide"
    /\ Goto(c, IF verdict = "Fresh" THEN "decode" ELSE IF verdict = "Stale" THEN "sent" ELSE "fresh")
    /\ request' = IF verdict # "Stale" THEN request ELSE [request EXCEPT ![c] =
         [kind |-> "revalidation", at |-> clock,
          etag |-> IF p.hdr.etag = "strong" THEN p.etag ELSE None, since |-> p.lastMod]]
    /\ UNCHANGED <<clock, published, entry, option, cutoff, start, control, cached, reply,
                   total, retried, result>>

\* `fresh_request`.
FreshRequest(c) ==
    /\ pc[c] = "fresh"
    /\ request' = [request EXCEPT ![c] = [NoRequest EXCEPT !.at = clock]]
    /\ cached' = [cached EXCEPT ![c] = NoEntry]
    /\ Goto(c, "sent")
    /\ UNCHANGED <<clock, published, entry, option, cutoff, start, control, reply, total,
                   retried, result>>
-----------------------------------------------------------------------------
(* The network (external): the server or a proxy answers, or the request   *)
(* fails after the retries of the middleware.                              *)

\* The server compares entity tags, or dates if it was sent no tag.
Matches(req, v) ==
    IF req.etag # None THEN req.etag = v ELSE req.since # None /\ published[v] <= req.since

Respond(c) ==
    /\ pc[c] = "sent" /\ ~option[c].offline
    /\ \E age \in 0..CdnAge, h \in Headers, n \in 0..MaxRetries :
         /\ age <= clock
         /\ \E v \in IF age = 0 THEN {Latest} ELSE Held(clock - age) :
            \E status \in {200} \cup (IF Matches(request[c], v) THEN {304} ELSE {}) :
              reply' = [reply EXCEPT ![c] =
                [kind |-> "response", status |-> status, version |-> v, date |-> clock - age,
                 age |-> age, hdr |-> h, retries |-> n]]
         /\ retried' = [retried EXCEPT ![c] = @ + n]
    /\ Goto(c, "received")
    /\ UNCHANGED <<clock, published, entry, option, cutoff, start, control, cached, request,
                   total, result>>

\* A status error is a response; without one, there was no connection.
Fail(c) ==
    /\ pc[c] = "sent"
    /\ \E kind \in IF option[c].offline THEN {"fatal"} ELSE Failures, status \in {0, 500} :
       \E n \in IF kind = "transient" THEN {MaxRetries} ELSE 0..MaxRetries :
         /\ option[c].offline => n = 0 /\ status = 0
         /\ reply' = [reply EXCEPT ![c] =
              [NoReply EXCEPT !.kind = kind, !.status = status, !.retries = n]]
         /\ retried' = [retried EXCEPT ![c] = @ + n]
    /\ Goto(c, "received")
    /\ UNCHANGED <<clock, published, entry, option, cutoff, start, control, cached, request,
                   total, result>>
-----------------------------------------------------------------------------
\* Mutant: the budget is exceeded by one.
RetryOnceMore(c, kind, n) ==
    /\ IF kind = "transient" /\ total[c] + n <= MaxRetries
         THEN /\ total' = [total EXCEPT ![c] = @ + n + 1]
              /\ retried' = [retried EXCEPT ![c] = @ + 1]
              /\ Goto(c, IF option[c].skip THEN "fresh" ELSE "read")
         ELSE /\ total' = [total EXCEPT ![c] = @ + n]
              /\ Goto(c, "failed")
              /\ UNCHANGED retried
    /\ Drop(c)

\* Mutant: an attempt begins with a budget of its own, as a call does.
RetryForever(c, kind, n) ==
    /\ Goto(c, IF kind = "transient" /\ n < MaxRetries THEN "read" ELSE "failed")
    /\ retried' = [retried EXCEPT ![c] = 0] /\ UNCHANGED total /\ Drop(c)

\* `RetryState::should_retry`, for an error that reports n retries; the loop of
\* `get_cacheable_with_retry`.
RetryOrFail(c, kind, n) ==
    /\ IF kind = "transient" /\ total[c] + n < MaxRetries
         THEN /\ total' = [total EXCEPT ![c] = @ + n + 1]
              /\ retried' = [retried EXCEPT ![c] = @ + 1]
              /\ Goto(c, IF option[c].skip THEN "fresh" ELSE "read")
         ELSE /\ total' = [total EXCEPT ![c] = @ + n]
              /\ Goto(c, "failed")
              /\ UNCHANGED retried
    /\ Drop(c)

\* The error of a revalidation that got a status carries no retries.
ReceiveError(c) ==
    /\ pc[c] = "received" /\ reply[c].kind # "response"
    /\ RetryOrFail(c, reply[c].kind,
         IF request[c].kind = "revalidation" /\ reply[c].status # 0 THEN 0 ELSE reply[c].retries)
    /\ UNCHANGED <<clock, published, entry, option, cutoff, start, control, result>>

\* A response: new data, or a 304.  A 304 whose validators do not match those
\* of the entry is unusable, and the entry is removed.
Receive(c) ==
    LET new  == Build(c, clock)
        kept == reply[c].status = 304 IN
    /\ pc[c] = "received" /\ reply[c].kind = "response"
    /\ IF kept /\ IsModified(cached[c].policy, new)
         THEN Goto(c, "unlink") /\ cached' = [cached EXCEPT ![c] = NoEntry]
         ELSE /\ Goto(c, IF kept THEN "refresh" ELSE "callback")
              /\ cached' = [cached EXCEPT ![c] =
                   Present(IF kept THEN @.data ELSE reply[c].version, new, 0)]
    /\ request' = [request EXCEPT ![c] = NoRequest]
    /\ reply' = [reply EXCEPT ![c] = [NoReply EXCEPT !.retries = reply[c].retries]]
    /\ UNCHANGED <<clock, published, entry, option, cutoff, start, control, total, retried, result>>

\* `run_response_callback`: the body is read and transformed.
Callback(c) ==
    /\ pc[c] = "callback"
    /\ IF IsStorable(cached[c].policy)
         THEN Goto(c, "write") /\ UNCHANGED <<cached, request, reply, result>>
         ELSE Return(c, cached[c].data)
    /\ UNCHANGED <<clock, published, entry, option, cutoff, start, control, total, retried>>

CallbackFails(c) ==
    /\ pc[c] = "callback"
    /\ \E kind \in Failures : RetryOrFail(c, kind, reply[c].retries)
    /\ UNCHANGED <<clock, published, entry, option, cutoff, start, control, result>>

\* `write_atomic` of a new payload.
Write(c) ==
    /\ pc[c] = "write"
    /\ entry' = [cached[c] EXCEPT !.written = clock]
    /\ Return(c, cached[c].data)
    /\ UNCHANGED <<clock, published, option, cutoff, start, control, total, retried>>

\* Mutant: the policy is rewritten in place.
RefreshInPlace(c) ==
    /\ pc[c] = "refresh"
    /\ entry' = IF entry.state = "present" THEN [entry EXCEPT !.policy = cached[c].policy] ELSE entry
    /\ Goto(c, "decode")
    /\ UNCHANGED <<clock, published, option, cutoff, start, control, cached, request, reply,
                   total, retried, result>>

\* `write_atomic` of the payload that was read, with the new policy.
RefreshCache(c) ==
    /\ pc[c] = "refresh"
    /\ entry' = [cached[c] EXCEPT !.written = clock]
    /\ Goto(c, "decode")
    /\ UNCHANGED <<clock, published, option, cutoff, start, control, cached, request, reply,
                   total, retried, result>>

\* The disk is full, say: `CacheWrite` is not retried.
WriteFails(c) ==
    /\ pc[c] \in {"write", "refresh"} /\ "fatal" \in Failures
    /\ RetryOrFail(c, "fatal", 0)
    /\ UNCHANGED <<clock, published, entry, option, cutoff, start, control, result>>

\* `from_aligned_bytes` of the payload; if it fails, `resend_and_heal_cache`.
Decode(c) ==
    /\ pc[c] = "decode"
    /\ IF cached[c].data = Bad
         THEN Goto(c, "unlink") /\ UNCHANGED <<cached, request, reply, result>>
         ELSE Return(c, cached[c].data)
    /\ UNCHANGED <<clock, published, entry, option, cutoff, start, control, total, retried>>
-----------------------------------------------------------------------------
Act(c) ==
    \/ ReadCache(c) \/ Unlink(c) \/ Decide(c) \/ FreshRequest(c) \/ Respond(c) \/ Fail(c)
    \/ ReceiveError(c) \/ Receive(c) \/ Callback(c) \/ CallbackFails(c) \/ Write(c) \/ RefreshCache(c) \/ WriteFails(c) \/ Decode(c)

Next ==
    \/ Tick \/ Publish
    \/ \E c \in Client : Open(c) \/ Begin(c) \/ Act(c)

Spec     == Init /\ [][Next]_vars
FairSpec == Spec /\ \A c \in Client : WF_vars(Act(c))
-----------------------------------------------------------------------------
EntryOK(e) ==
    /\ e.state \in {"missing", "broken", "present"}
    /\ e.data \in 0..MaxVersion /\ e.policy \in Policy /\ e.written \in 0..MaxTime

TypeOK ==
    /\ clock \in 0..MaxTime /\ published \in Seq(0..MaxTime) /\ Len(published) \in 1..MaxVersion
    /\ EntryOK(entry) /\ \A c \in Client : EntryOK(cached[c])
    /\ pc \in [Client -> Location] /\ option \in [Client -> Options]
    /\ cutoff \in [Client -> 0..MaxTime] /\ start \in [Client -> 0..MaxTime]
    /\ control \in [Client -> {"None", "MustRevalidate", "AllowStale", "Override"}]
    /\ total \in [Client -> Nat] /\ retried \in [Client -> Nat]
    /\ result \in [Client -> 0..MaxVersion]

\* Version v was current at some time later than t.
CurrentAfter(v, t) == v = Latest \/ published[v + 1] > t

\* The longest a response may be used without asking the server.
Lifetime(h) == FreshnessLifetime([NoPolicy EXCEPT !.hdr = h])
Lifetimes   == {Lifetime(h) : h \in Headers} \cup {OverrideAge}
MaxLifetime == CHOOSE l \in Lifetimes : \A m \in Lifetimes : m <= l

ASSUME LifetimeAssumption == \E l \in Lifetimes : \A m \in Lifetimes : m <= l

\* What a call returns is a published version, current no longer ago than the
\* lifetime the server (or the user's override) gives its responses, whatever
\* other processes did to the entry meanwhile.  Offline, any version will do.
ServesRecent ==
    \A c \in Client : pc[c] = "done" =>
        /\ result[c] \in 1..Latest
        /\ control[c] # "AllowStale" =>
             CurrentAfter(result[c], start[c] - Greater(MaxLifetime, CdnAge + 1))

\* A call that must revalidate (`--refresh`) returns a version that was current
\* after it began, as far as proxies allow, unless the response is immutable.
RefreshSeesCurrent ==
    \A c \in Client :
        /\ pc[c] = "done" /\ control[c] = "MustRevalidate"
        /\ \A h \in Headers : ~h.immutable
        => CurrentAfter(result[c], start[c] - CdnAge - 1)

\* The policy of an entry describes its payload: a validator of one version is
\* never stored with another, which the server would go on confirming.
PolicyMatchesData ==
    entry.state = "present" /\ entry.data # Bad =>
        /\ entry.policy.etag \in {None, entry.data}
        /\ entry.policy.lastMod \in {None, published[entry.data]}

\* The retries that a call makes, those of the middleware in each of its requests
\* included, are bounded.  The retries of a revalidation that is answered, or
\* ends in an error status, are not in the budget (`total_retries`), so that each
\* of the call's MaxRetries + 1 attempts may add MaxRetries of them to the
\* 2 * MaxRetries that are: the bound is quadratic.
RetriesBounded == \A c \in Client : retried[c] <= MaxRetries * (MaxRetries + 3)

\* Every call ends.
CallsReturn == \A c \in Client : pc[c] \in {"read", "fresh"} ~> pc[c] \in {"done", "failed"}

\* "If the middleware performed any retries, consider them in our budget."
RetriesCounted == \A c \in Client : pc[c] = "failed" => total[c] = retried[c]
=============================================================================
