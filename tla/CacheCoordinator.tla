--------------------------- MODULE CacheCoordinator ---------------------------
(***************************************************************************)
(* CacheCoordinator over InMemoryCacheBackend: threads that read through   *)
(* one coordinator while the source changes, entries are invalidated (or   *)
(* not), and calls of the backend fail.                                    *)
(*                                                                         *)
(* A call of the backend is atomic (it holds the backend's lock), a read   *)
(* is several steps; any call of the backend may raise.  All threads use   *)
(* the coordinator's clock.  The source is outside the package: a row is   *)
(* versioned, and a loader reads it as it is when called.  Serializer,     *)
(* schema fingerprint and payload appear only as the kind of an entry: a   *)
(* row, the absence of one, a payload that cannot be decoded, an entry of  *)
(* another schema.                                                         *)
(*                                                                         *)
(* A definition called Faulty... is the definition after it with a bug in  *)
(* it.  No specification uses one: each shows that a property can fail.    *)
(***************************************************************************)
EXTENDS Integers, Sequences

CONSTANTS
    Reader,       \* threads that call read
    Client,       \* callers of the explicit operations
    Key,          \* cache keys, one per identity
    Policy,       \* the policies the coordinator may be created with
    DefaultTtl,   \* default_ttl
    NegativeTtl,  \* negative_ttl, where the policy has one
    MaxStaleness, \* maximum_staleness
    ExplicitTtl,  \* ttl arguments of explicit operations
    MaxVersion,   \* bound on the versions of a row
    MaxClock,     \* bound on the clock
    MaxCalls,     \* bound on reads, on explicit writes and on bad entries
    MaxFaults,    \* bound on failing loaders and evidence sinks
    None          \* Python's None

SourceVersionStrategy == {"none", "exact", "at-least"}

CachePolicy == [enabled : BOOLEAN, strategy : SourceVersionStrategy,
                fallback : BOOLEAN, negative : BOOLEAN]

ASSUME PolicyAssumption == Policy \subseteq CachePolicy
ASSUME TtlAssumption ==
    /\ DefaultTtl \in Nat \ {0} /\ NegativeTtl \in Nat \ {0} /\ MaxStaleness \in Nat
    /\ ExplicitTtl \subseteq Nat \ {0}
ASSUME BoundAssumption ==
    MaxVersion \in Nat /\ MaxClock \in Nat /\ MaxCalls \in Nat /\ MaxFaults \in Nat
ASSUME NamesAssumption == None \notin Reader

VARIABLES
    policy,    \* the coordinator's policy
    flights,   \* _flights: the leader of each open flight, or None
    entries,   \* backend: the entry of each key, or None
    revision,  \* backend: the last entry version given out
    history,   \* source: the versions of each row
    pc,        \* where each reader is
    call,      \* local variables of each reader's latest call
    token,     \* what each client saw when it last inspected, or None
    clock,
    calls, faults \* what is left of the bounds

cvars == <<policy, flights, entries, revision, history, pc, call, token, clock,
           calls, faults>>
backend == <<entries, revision>>
world   == <<policy, history, token, clock, calls>>

Kind == {"row", "none", "corrupt", "foreign"}

\* version is the source_version of the entry; 0 stands for None.
CacheEntry == [kind : Kind, version : Nat, created_at : Nat, expires_at : Nat,
               revision : Nat]

Location == {"idle", "direct", "get", "drop", "purge", "join", "wait", "load",
             "populate", "finish"}

Call == [key : Key \cup {None}, required : Nat, started : Nat, now : Nat,
         role : {"none", "leader", "follower"}, cache_error : BOOLEAN,
         kind : Kind, version : Nat,
         outcome : {"none", "hit", "negative-hit", "miss", "bypass", "raised"}]

NoCall == [key |-> None, required |-> 0, started |-> 0, now |-> 0, role |-> "none",
           cache_error |-> FALSE, kind |-> "none", version |-> 0, outcome |-> "none"]

CTypeOK ==
    /\ policy \in Policy
    /\ flights \in [Key -> Reader \cup {None}]
    /\ entries \in [Key -> CacheEntry \cup {None}]
    /\ revision \in Nat
    /\ \A k \in Key : history[k] # << >>
    /\ \A k \in Key : \A i \in DOMAIN history[k] :
          history[k][i] \in [present : BOOLEAN, since : Nat]
    /\ pc \in [Reader -> Location]
    /\ call \in [Reader -> Call]
    /\ token \in [Client -> [key : Key, entry : CacheEntry] \cup {None}]
    /\ clock \in Nat /\ calls \in Nat /\ faults \in Nat

CInit ==
    /\ policy \in Policy
    /\ flights = [k \in Key |-> None]
    /\ entries = [k \in Key |-> None]
    /\ revision = 0
    /\ \E present \in BOOLEAN :
          history = [k \in Key |-> <<[present |-> present, since |-> 0]>>]
    /\ pc = [r \in Reader |-> "idle"]
    /\ call = [r \in Reader |-> NoCall]
    /\ token = [c \in Client |-> None]
    /\ clock = 0
    /\ calls = MaxCalls
    /\ faults = MaxFaults

--------------------------------------------------------------------------------
Goto(r, location) == pc' = [pc EXCEPT ![r] = location]

Fault == faults > 0 /\ faults' = faults - 1

\* What a loader returns for version i of the row of k.
RowAt(k, i) ==
    IF history[k][i].present THEN [kind |-> "row", version |-> i]
                             ELSE [kind |-> "none", version |-> 0]

Versions(k) == 1..Len(history[k])

\* Entry versions come from one counter, never from the entry replaced.
FaultyNextVersion(k) == IF entries[k] = None THEN 1 ELSE entries[k].revision + 1
NextVersion(k) == revision + 1

FaultyVersionValid(cached, required) ==  \* an entry without version will do
    \/ required = 0 \/ policy.strategy = "none"
    \/ cached = 0
    \/ policy.strategy = "exact" /\ cached = required
    \/ policy.strategy = "at-least" /\ cached >= required

VersionValid(cached, required) ==
    \/ required = 0 \/ policy.strategy = "none"
    \/ /\ cached # 0
       /\ \/ policy.strategy = "exact" /\ cached = required
          \/ policy.strategy = "at-least" /\ cached >= required

ValidEntry(entry, required, now) ==
    /\ entry.kind # "foreign"
    /\ ~(entry.expires_at <= now)
    /\ ~(entry.created_at + MaxStaleness < now)
    /\ VersionValid(entry.version, required)

--------------------------------------------------------------------------------
(* InMemoryCacheBackend.  An entry carries the version it is stored with.  *)

put(k, entry) ==
    /\ entries' = [entries EXCEPT ![k] = entry]
    /\ revision' = NextVersion(k)

put_if_absent(k, entry) == entries[k] = None /\ put(k, entry)

compare_and_set(k, entry, expected_version) ==
    /\ entries[k] # None
    /\ entries[k].revision = expected_version
    /\ put(k, entry)

delete(k) ==
    /\ entries' = [entries EXCEPT ![k] = None]
    /\ UNCHANGED revision

\* All keys belong to the coordinator's one resource.
invalidate ==
    /\ entries' = [k \in Key |-> None]
    /\ UNCHANGED revision

--------------------------------------------------------------------------------
(***************************************************************************)
(* The steps of read.                                                      *)
(***************************************************************************)
Begin(r, k, required) ==
    /\ pc[r] = "idle" /\ calls > 0 /\ calls' = calls - 1
    /\ call' = [call EXCEPT ![r] = [NoCall EXCEPT
           !.key = k, !.required = required, !.started = clock, !.now = clock]]
    /\ Goto(r, IF policy.enabled THEN "get" ELSE "direct")
    /\ UNCHANGED <<policy, history, token, clock, backend, flights, faults>>

\* The call ends; a leader still has to close its flight.
Return(r, outcome, kind, version) ==
    /\ call' = [call EXCEPT ![r].outcome = outcome, ![r].kind = kind, ![r].version = version,
                           ![r].now = 0, ![r].cache_error = FALSE,
                           ![r].role = IF @ = "leader" THEN @ ELSE "none"]
    /\ Goto(r, IF call[r].role = "leader" THEN "finish" ELSE "idle")

Raise(r) == Return(r, "raised", "none", 0)

\* The policy disables the cache.
Direct(r) ==
    /\ pc[r] = "direct"
    /\ \/ LET row == RowAt(call[r].key, Len(history[call[r].key]))
          IN  Return(r, "bypass", row.kind, row.version) /\ UNCHANGED faults
       \/ Raise(r) /\ Fault
    /\ UNCHANGED <<world, backend, flights>>

(***************************************************************************)
(* _cached found nothing to return: the first time a reader joins a        *)
(* flight, after waiting for one it loads, with a clock reading of its own.*)
(***************************************************************************)
NotCached(r, error) ==
    IF call[r].role = "follower"
    THEN /\ Goto(r, "load")
         /\ call' = [call EXCEPT ![r].cache_error = @ \/ error, ![r].now = clock]
    ELSE /\ Goto(r, "join")
         /\ call' = [call EXCEPT ![r].cache_error = @ \/ error]

GetFails(r) ==
    /\ pc[r] = "get"
    /\ \/ policy.fallback /\ NotCached(r, TRUE) /\ UNCHANGED faults
       \/ ~policy.fallback /\ Raise(r) /\ UNCHANGED faults
       \/ Raise(r) /\ Fault
    /\ UNCHANGED <<world, backend, flights>>

Get(r) ==
    /\ pc[r] = "get"
    /\ LET entry == entries[call[r].key]
       IN  \/ entry = None /\ NotCached(r, FALSE)
           \/ /\ entry # None /\ ~ValidEntry(entry, call[r].required, call[r].now)
              /\ Goto(r, "drop") /\ UNCHANGED call
           \/ /\ entry # None /\ ValidEntry(entry, call[r].required, call[r].now)
              /\ \/ entry.kind = "none" /\ Return(r, "negative-hit", "none", 0)
                 \/ entry.kind = "row" /\ Return(r, "hit", "row", entry.version)
                 \/ entry.kind = "corrupt" /\ Goto(r, "purge") /\ UNCHANGED call
    /\ UNCHANGED <<world, backend, flights, faults>>

(***************************************************************************)
(* A stale or corrupt entry is deleted, by key: what is deleted may be a   *)
(* newer entry.  A failing delete, and a corrupt entry, are recorded.      *)
(***************************************************************************)
Discard(r) ==
    /\ pc[r] \in {"drop", "purge"}
    /\ \/ /\ delete(call[r].key)
          /\ \/ NotCached(r, FALSE) /\ UNCHANGED faults
             \/ pc[r] = "purge" /\ Raise(r) /\ Fault
       \/ /\ UNCHANGED backend
          /\ \/ NotCached(r, FALSE) /\ UNCHANGED faults
             \/ Raise(r) /\ Fault
    /\ UNCHANGED <<world, flights>>

FaultyJoin(r) ==  \* does not look for a flight
    /\ pc[r] = "join"
    /\ flights' = [flights EXCEPT ![call[r].key] = r]
    /\ call' = [call EXCEPT ![r].role = "leader"]
    /\ Goto(r, "load")
    /\ UNCHANGED <<world, backend, faults>>

Join(r) ==
    /\ pc[r] = "join"
    /\ IF flights[call[r].key] = None
       THEN /\ flights' = [flights EXCEPT ![call[r].key] = r]
            /\ call' = [call EXCEPT ![r].role = "leader"]
            /\ Goto(r, "load")
       ELSE /\ call' = [call EXCEPT ![r].role = "follower"]
            /\ Goto(r, "wait")
            /\ UNCHANGED flights
    /\ UNCHANGED <<world, backend, faults>>

\* The event was set, or singleflight_wait_seconds have passed.
Wait(r) ==
    /\ pc[r] = "wait"
    /\ call' = [call EXCEPT ![r].now = clock]
    /\ Goto(r, "get")
    /\ UNCHANGED <<world, backend, flights, faults>>

Load(r) ==
    /\ pc[r] = "load"
    /\ \/ LET row == RowAt(call[r].key, Len(history[call[r].key]))
          IN  /\ call' = [call EXCEPT ![r].kind = row.kind, ![r].version = row.version]
              /\ Goto(r, "populate")
              /\ UNCHANGED faults
       \/ Raise(r) /\ Fault
    /\ UNCHANGED <<world, backend, flights>>

\* _entry dates an entry by the reading taken before its value was loaded.
FaultyEntry(r) ==  \* dated when it is stored
    [kind       |-> call[r].kind,
     version    |-> call[r].version,
     created_at |-> clock,
     expires_at |-> clock + IF call[r].kind = "none" THEN NegativeTtl ELSE DefaultTtl,
     revision   |-> NextVersion(call[r].key)]

FaultyNegativeEntry(r) ==  \* the absence of a row never expires
    [kind       |-> call[r].kind,
     version    |-> call[r].version,
     created_at |-> call[r].now,
     expires_at |-> IF call[r].kind = "none" THEN None ELSE call[r].now + DefaultTtl,
     revision   |-> NextVersion(call[r].key)]

Entry(r) ==
    [kind       |-> call[r].kind,
     version    |-> call[r].version,
     created_at |-> call[r].now,
     expires_at |-> call[r].now + IF call[r].kind = "none" THEN NegativeTtl ELSE DefaultTtl,
     revision   |-> NextVersion(call[r].key)]

Loaded(r, error) ==
    Return(r, IF error THEN "bypass" ELSE "miss", call[r].kind, call[r].version)

FaultyPopulate(r) ==  \* a failing put fails the read
    /\ pc[r] = "populate"
    /\ \/ /\ call[r].kind = "none" /\ ~policy.negative
          /\ Loaded(r, call[r].cache_error)
          /\ UNCHANGED <<entries, revision, faults>>
       \/ /\ call[r].kind = "row" \/ policy.negative
          /\ put(call[r].key, Entry(r))
          /\ Loaded(r, call[r].cache_error)
          /\ UNCHANGED faults
       \/ /\ call[r].kind = "row" \/ policy.negative
          /\ Raise(r)
          /\ UNCHANGED <<entries, revision, faults>>
    /\ UNCHANGED <<world, flights>>

Populate(r) ==
    /\ pc[r] = "populate"
    /\ \/ /\ call[r].kind = "none" /\ ~policy.negative
          /\ Loaded(r, call[r].cache_error)
          /\ UNCHANGED <<entries, revision, faults>>
       \/ /\ call[r].kind = "row" \/ policy.negative
          /\ put(call[r].key, Entry(r))
          /\ Loaded(r, call[r].cache_error)
          /\ UNCHANGED faults
       \/ /\ call[r].kind = "row" \/ policy.negative
          /\ \/ Loaded(r, TRUE) /\ UNCHANGED faults
             \/ Raise(r) /\ Fault
          /\ UNCHANGED <<entries, revision>>
    /\ UNCHANGED <<world, flights>>

\* The leader's finally clause.
Finish(r) ==
    /\ pc[r] = "finish"
    /\ flights' = [flights EXCEPT ![call[r].key] = None]
    /\ call' = [call EXCEPT ![r].role = "none"]
    /\ Goto(r, "idle")
    /\ UNCHANGED <<world, backend, faults>>

--------------------------------------------------------------------------------
(* invalidate_after_commit and the explicit operations; one whose call of  *)
(* the backend raises, raises or reports failure and changes nothing.      *)

reading == <<policy, flights, history, pc, call, clock, faults>>

invalidate_after_commit ==
    /\ invalidate
    /\ UNCHANGED <<reading, token, calls>>

\* An entry a caller made itself, of a row it has seen.
ExplicitEntry(k, i, ttl) ==
    [kind |-> "row", version |-> i, created_at |-> clock, expires_at |-> clock + ttl,
     revision |-> NextVersion(k)]

PutIfAbsent(k, i, ttl) ==
    /\ calls > 0 /\ calls' = calls - 1
    /\ history[k][i].present
    /\ put_if_absent(k, ExplicitEntry(k, i, ttl))
    /\ UNCHANGED <<reading, token>>

Inspect(c, k) ==
    /\ token' = [token EXCEPT ![c] = IF entries[k] = None THEN None
                                     ELSE [key |-> k, entry |-> entries[k]]]
    /\ UNCHANGED <<reading, backend, calls>>

CompareAndSet(c, i, ttl) ==
    /\ calls > 0 /\ calls' = calls - 1
    /\ token[c] # None
    /\ LET k == token[c].key
       IN  /\ i \in Versions(k) /\ history[k][i].present
           /\ compare_and_set(k, ExplicitEntry(k, i, ttl), token[c].entry.revision)
    /\ UNCHANGED <<reading, token>>

Delete(k) ==
    /\ delete(k)
    /\ UNCHANGED <<reading, token, calls>>

--------------------------------------------------------------------------------
(* The source, other deployments, the clock.                               *)

Commit(k, present) ==
    /\ Len(history[k]) < MaxVersion
    /\ history' = [history EXCEPT ![k] = Append(@, [present |-> present, since |-> clock])]
    /\ UNCHANGED <<policy, flights, backend, pc, call, token, clock, calls, faults>>

\* A payload that does not decode, or an entry of another schema or serializer.
BadEntry(k, kind) ==
    /\ calls > 0 /\ calls' = calls - 1
    /\ put(k, [kind |-> kind, version |-> Len(history[k]), created_at |-> clock,
               expires_at |-> clock + DefaultTtl, revision |-> NextVersion(k)])
    /\ UNCHANGED <<reading, token>>

Tick ==
    /\ clock < MaxClock
    /\ clock' = clock + 1
    /\ UNCHANGED <<policy, flights, backend, history, pc, call, token, calls, faults>>

--------------------------------------------------------------------------------
ReaderStep(r) ==
    \/ Direct(r)
    \/ GetFails(r)
    \/ Get(r)
    \/ Discard(r)
    \/ Join(r)
    \/ Wait(r)
    \/ Load(r)
    \/ Populate(r)
    \/ Finish(r)

Environment ==
    \/ \E k \in Key, present \in BOOLEAN : Commit(k, present)
    \/ \E k \in Key, kind \in {"corrupt", "foreign"} : BadEntry(k, kind)
    \/ invalidate_after_commit
    \/ Tick

\* A caller may require any version of the row that it knows of.
ReadNext ==
    \/ \E r \in Reader : \/ ReaderStep(r)
                         \/ \E k \in Key : \E required \in Versions(k) \cup {0} :
                                Begin(r, k, required)
    \/ Environment

ExplicitNext ==
    \/ \E k \in Key, ttl \in ExplicitTtl : \E i \in Versions(k) : PutIfAbsent(k, i, ttl)
    \/ \E c \in Client, ttl \in ExplicitTtl, i \in 1..MaxVersion : CompareAndSet(c, i, ttl)
    \/ \E c \in Client, k \in Key : Inspect(c, k)
    \/ \E k \in Key : Delete(k)

\* Reads only.
ReadSpec == CInit /\ [][ReadNext]_cvars

\* Reads next to callers that use the cache explicitly.
CacheSpec == CInit /\ [][ReadNext \/ ExplicitNext]_cvars

--------------------------------------------------------------------------------
Answered(r) == pc[r] = "idle" /\ call[r].outcome \notin {"none", "raised"}

(***************************************************************************)
(* A read answers with what the row was at some moment not longer than     *)
(* maximum_staleness before it began, although invalidations get lost or   *)
(* run between another thread's load and its put, bad entries turn up and  *)
(* negative entries carry no version.  (Entries that explicit callers made *)
(* are dated by those callers; they are not part of this.)                 *)
(***************************************************************************)
BoundedStaleness ==
    \A r \in Reader : Answered(r) =>
        \E i \in Versions(call[r].key) :
            /\ RowAt(call[r].key, i) = [kind |-> call[r].kind, version |-> call[r].version]
            /\ \/ i = Len(history[call[r].key])
               \/ history[call[r].key][i + 1].since >= call[r].started - MaxStaleness

(***************************************************************************)
(* A caller that requires a source version gets the row in that version or *)
(* a later one: whatever the cache holds, what it wrote itself is visible  *)
(* to it (unless the policy ignores versions).                             *)
(***************************************************************************)
RequiredVersionMet ==
    \A r \in Reader :
        Answered(r) /\ call[r].required # 0 /\ policy.strategy # "none" =>
            \E i \in Versions(call[r].key) :
                /\ i >= call[r].required
                /\ RowAt(call[r].key, i) = [kind |-> call[r].kind, version |-> call[r].version]

(***************************************************************************)
(* Single flight: the readers that lead are those with a flight open, so   *)
(* one per key at most, and none stays open behind a read that returned or *)
(* raised.                                                                 *)
(***************************************************************************)
SingleFlight ==
    \A r \in Reader, k \in Key :
        flights[k] = r <=> /\ call[r].key = k /\ call[r].role = "leader"
                           /\ pc[r] \in {"load", "populate", "finish"}

(***************************************************************************)
(* An outage of the cache is not an outage of the source: with fallback a  *)
(* read raises only if its loader or the evidence sink did.                *)
(***************************************************************************)
OutageTransparent ==
    \A r \in Reader :
        pc[r] = "idle" /\ call[r].outcome = "raised" => ~policy.fallback \/ faults < MaxFaults

(***************************************************************************)
(* An entry version identifies an entry, deletes and re-creations in       *)
(* between included: a compare_and_set replaces exactly the entry its      *)
(* caller inspected.                                                       *)
(***************************************************************************)
EntryVersionUnique ==
    \A c \in Client : token[c] # None =>
        LET entry == entries[token[c].key]
        IN  entry # None /\ entry.revision = token[c].entry.revision => entry = token[c].entry
================================================================================
