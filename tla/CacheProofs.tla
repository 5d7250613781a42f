------------------------------ MODULE CacheProofs ------------------------------
(***************************************************************************)
(* Proofs about the cache coordinator, for every number of readers,        *)
(* clients and keys, every policy, every lifetime of entries and every     *)
(* length of a run.                                                        *)
(***************************************************************************)
EXTENDS CacheCoordinator, TLAPS

Next == ReadNext \/ ExplicitNext

Row == [present : BOOLEAN, since : Nat]

\* The reader has begun a call.
Begun(r) == pc[r] # "idle" \/ call[r].outcome # "none"

TInv ==
    /\ CTypeOK
    /\ history \in [Key -> Seq(Row)]
    /\ \A r \in Reader : /\ Begun(r) => call[r].key \in Key
                         /\ pc[r] = "populate" => call[r].kind \in {"row", "none"}
    /\ faults <= MaxFaults

LEMMA Types ==
  ASSUME TInv
  PROVE  /\ policy \in CachePolicy
         /\ flights \in [Key -> Reader \cup {None}]
         /\ entries \in [Key -> CacheEntry \cup {None}] /\ revision \in Nat
         /\ history \in [Key -> Seq(Row)]
         /\ \A k \in Key : Len(history[k]) \in Nat /\ Len(history[k]) >= 1
         /\ pc \in [Reader -> Location] /\ call \in [Reader -> Call]
         /\ token \in [Client -> [key : Key, entry : CacheEntry] \cup {None}]
         /\ clock \in Nat /\ calls \in Nat /\ faults \in Nat
         /\ MaxFaults \in Nat
         /\ \A r \in Reader : /\ call[r].required \in Nat /\ call[r].started \in Nat
                              /\ call[r].now \in Nat /\ call[r].version \in Nat
                              /\ call[r].kind \in Kind
         /\ \A r \in Reader : pc[r] # "idle" => call[r].key \in Key
<1>1. \A k \in Key : Len(history[k]) \in Nat /\ Len(history[k]) >= 1
  <2> SUFFICES ASSUME NEW k \in Key PROVE Len(history[k]) \in Nat /\ Len(history[k]) >= 1
    OBVIOUS
  <2>1. history[k] \in Seq(Row) /\ history[k] # << >>
    BY DEF TInv, CTypeOK
  <2> QED
    BY <2>1
<1> QED
  BY <1>1, PolicyAssumption, BoundAssumption DEF TInv, CTypeOK, Call, Begun

--------------------------------------------------------------------------------
(***************************************************************************)
(* What the steps of a read do to the reader that takes them.              *)
(***************************************************************************)
OthersKept(r) ==
    /\ pc' \in [Reader -> Location] /\ call' \in [Reader -> Call]
    /\ \A q \in Reader \ {r} : pc'[q] = pc[q] /\ call'[q] = call[q]

SameRequest(r) ==
    /\ call'[r].key = call[r].key /\ call'[r].required = call[r].required
    /\ call'[r].started = call[r].started

\* The call goes on.
Moves(r, from, to) ==
    /\ OthersKept(r) /\ SameRequest(r)
    /\ pc[r] = from /\ pc'[r] = to
    /\ call'[r].outcome = call[r].outcome

Returned(r, outcome, kind, version) ==
    /\ OthersKept(r) /\ SameRequest(r)
    /\ pc'[r] = IF call[r].role = "leader" THEN "finish" ELSE "idle"
    /\ call'[r].role = IF call[r].role = "leader" THEN "leader" ELSE "none"
    /\ call'[r].outcome = outcome /\ call'[r].kind = kind /\ call'[r].version = version
    /\ call'[r].now = 0

LEMMA GotoEffect ==
  ASSUME TInv, NEW r \in Reader, NEW location \in Location, Goto(r, location)
  PROVE  /\ pc' \in [Reader -> Location] /\ pc'[r] = location
         /\ \A q \in Reader \ {r} : pc'[q] = pc[q]
  BY Types DEF Goto

LEMMA ReturnEffect ==
  ASSUME TInv, NEW r \in Reader,
         NEW o \in {"hit", "negative-hit", "miss", "bypass", "raised"},
         NEW kind \in Kind, NEW version \in Nat, Return(r, o, kind, version)
  PROVE  Returned(r, o, kind, version)
<1> DEFINE role == IF call[r].role = "leader" THEN "leader" ELSE "none"
           c == [call[r] EXCEPT !.outcome = o, !.kind = kind, !.version = version,
                                !.now = 0, !.cache_error = FALSE, !.role = role]
<1>1. call' = [call EXCEPT ![r] = c]
  BY Types DEF Return, Call
<1>2. /\ c \in Call /\ c.key = call[r].key /\ c.required = call[r].required
      /\ c.started = call[r].started /\ c.now = 0 /\ c.role = role
      /\ c.outcome = o /\ c.kind = kind /\ c.version = version
  BY Types, ZenonT(30) DEF Call
<1>3. /\ pc' \in [Reader -> Location] /\ \A q \in Reader \ {r} : pc'[q] = pc[q]
      /\ pc'[r] = IF call[r].role = "leader" THEN "finish" ELSE "idle"
  BY GotoEffect DEF Return, Location
<1> HIDE DEF c
<1> QED
  BY <1>1, <1>2, <1>3, Types DEF Returned, OthersKept, SameRequest

LEMMA RaiseEffect ==
  ASSUME TInv, NEW r \in Reader, Raise(r)
  PROVE  Returned(r, "raised", "none", 0)
  BY ReturnEffect DEF Raise, Kind

\* _cached found nothing; the reader goes on to load or to join.
Missed(r) ==
    /\ OthersKept(r) /\ SameRequest(r)
    /\ pc[r] \in {"get", "drop", "purge"}
    /\ call'[r].outcome = call[r].outcome /\ call'[r].role = call[r].role
    /\ call'[r].kind = call[r].kind /\ call'[r].version = call[r].version
    /\ \/ call[r].role = "follower" /\ pc'[r] = "load" /\ call'[r].now = clock
       \/ call[r].role # "follower" /\ pc'[r] = "join" /\ call'[r].now = call[r].now

LEMMA NotCachedEffect ==
  ASSUME TInv, NEW r \in Reader, NEW error \in BOOLEAN, NotCached(r, error),
         pc[r] \in {"get", "drop", "purge"}
  PROVE  Missed(r)
<1>1. CASE call[r].role = "follower"
  <2> DEFINE c == [call[r] EXCEPT !.cache_error = call[r].cache_error \/ error, !.now = clock]
  <2>1. call' = [call EXCEPT ![r] = c]
    BY <1>1, Types DEF NotCached, Call
  <2>2. /\ c \in Call /\ c.key = call[r].key /\ c.required = call[r].required
        /\ c.started = call[r].started /\ c.now = clock /\ c.role = call[r].role
        /\ c.outcome = call[r].outcome /\ c.kind = call[r].kind /\ c.version = call[r].version
    BY Types, ZenonT(30) DEF Call
  <2>3. pc' \in [Reader -> Location] /\ pc'[r] = "load" /\ \A q \in Reader \ {r} : pc'[q] = pc[q]
    BY <1>1, GotoEffect DEF NotCached, Location
  <2> HIDE DEF c
  <2> QED
    BY <1>1, <2>1, <2>2, <2>3, Types DEF Missed, OthersKept, SameRequest
<1>2. CASE call[r].role # "follower"
  <2> DEFINE c == [call[r] EXCEPT !.cache_error = call[r].cache_error \/ error]
  <2>1. call' = [call EXCEPT ![r] = c]
    BY <1>2, Types DEF NotCached, Call
  <2>2. /\ c \in Call /\ c.key = call[r].key /\ c.required = call[r].required
        /\ c.started = call[r].started /\ c.now = call[r].now /\ c.role = call[r].role
        /\ c.outcome = call[r].outcome /\ c.kind = call[r].kind /\ c.version = call[r].version
    BY Types DEF Call
  <2>3. pc' \in [Reader -> Location] /\ pc'[r] = "join" /\ \A q \in Reader \ {r} : pc'[q] = pc[q]
    BY <1>2, GotoEffect DEF NotCached, Location
  <2> HIDE DEF c
  <2> QED
    BY <1>2, <2>1, <2>2, <2>3, Types DEF Missed, OthersKept, SameRequest
<1> QED
  BY <1>1, <1>2

LEMMA RowTyped ==
  ASSUME TInv, NEW k \in Key, NEW i \in Versions(k)
  PROVE  /\ i \in Nat /\ history[k][i] \in Row
         /\ RowAt(k, i).kind \in {"row", "none"} /\ RowAt(k, i).version \in Nat
         /\ RowAt(k, i) = [kind |-> RowAt(k, i).kind, version |-> RowAt(k, i).version]
<1>1. i \in Nat /\ i \in 1..Len(history[k]) /\ history[k] \in Seq(Row)
  BY Types DEF Versions
<1>2. history[k][i] \in Row
  BY <1>1
<1> QED
  BY <1>1, <1>2 DEF RowAt, Row

LEMMA LatestVersion ==
  ASSUME TInv, NEW k \in Key
  PROVE  Len(history[k]) \in Versions(k)
  BY Types DEF Versions

\* The kinds of steps of a read, each with what it does.
Raises(r) ==
    /\ pc[r] \in {"direct", "get", "drop", "purge", "load", "populate"}
    /\ Returned(r, "raised", "none", 0)
    /\ \/ Fault
       \/ ~policy.fallback /\ faults' = faults
    /\ \/ UNCHANGED backend
       \/ delete(call[r].key)
    /\ flights' = flights

Bypasses(r) ==
    /\ pc[r] = "direct"
    /\ LET k == call[r].key
       IN  Returned(r, "bypass", RowAt(k, Len(history[k])).kind, RowAt(k, Len(history[k])).version)
    /\ UNCHANGED <<backend, faults, flights>>

Misses(r) ==
    /\ Missed(r)
    /\ \/ UNCHANGED backend
       \/ delete(call[r].key)
    /\ UNCHANGED <<faults, flights>>

Rejects(r) ==
    /\ \/ Moves(r, "get", "drop")
       \/ Moves(r, "get", "purge")
    /\ call' = call
    /\ UNCHANGED <<backend, faults, flights>>

Hits(r) ==
    /\ pc[r] = "get"
    /\ LET entry == entries[call[r].key]
       IN  /\ entry # None /\ ValidEntry(entry, call[r].required, call[r].now)
           /\ \/ entry.kind = "none" /\ Returned(r, "negative-hit", "none", 0)
              \/ entry.kind = "row" /\ Returned(r, "hit", "row", entry.version)
    /\ UNCHANGED <<backend, faults, flights>>

Leads(r) ==
    /\ Moves(r, "join", "load")
    /\ call'[r].role = "leader" /\ call'[r].now = call[r].now
    /\ flights[call[r].key] = None
    /\ flights' = [flights EXCEPT ![call[r].key] = r]
    /\ UNCHANGED <<backend, faults>>

Follows(r) ==
    /\ Moves(r, "join", "wait")
    /\ call'[r].role = "follower" /\ call'[r].now = call[r].now
    /\ UNCHANGED <<backend, faults, flights>>

Wakes(r) ==
    /\ Moves(r, "wait", "get")
    /\ call'[r].role = call[r].role /\ call'[r].now = clock
    /\ UNCHANGED <<backend, faults, flights>>

Loads(r) ==
    /\ Moves(r, "load", "populate")
    /\ call'[r].role = call[r].role /\ call'[r].now = call[r].now
    /\ LET k == call[r].key
       IN  /\ call'[r].kind = RowAt(k, Len(history[k])).kind
           /\ call'[r].version = RowAt(k, Len(history[k])).version
    /\ UNCHANGED <<backend, faults, flights>>

Populates(r) ==
    /\ pc[r] = "populate"
    /\ \E o \in {"miss", "bypass"} : Returned(r, o, call[r].kind, call[r].version)
    /\ \/ UNCHANGED backend
       \/ put(call[r].key, Entry(r))
    /\ UNCHANGED <<faults, flights>>

Finishes(r) ==
    /\ Moves(r, "finish", "idle")
    /\ call'[r].role = "none" /\ call'[r].now = call[r].now
    /\ call'[r].kind = call[r].kind /\ call'[r].version = call[r].version
    /\ flights' = [flights EXCEPT ![call[r].key] = None]
    /\ UNCHANGED <<backend, faults>>

LEMMA DirectEffect ==
  ASSUME TInv, NEW r \in Reader, Direct(r)
  PROVE  (Raises(r) \/ Bypasses(r)) /\ UNCHANGED world
<1>1. CASE Raise(r) /\ Fault
  BY <1>1, RaiseEffect DEF Direct, Raises
<1>2. CASE ~(Raise(r) /\ Fault)
  <2> DEFINE k == call[r].key
             row == RowAt(k, Len(history[k]))
  <2>1. Return(r, "bypass", row.kind, row.version) /\ UNCHANGED faults
    BY <1>2 DEF Direct
  <2>2. pc[r] = "direct" /\ k \in Key
    BY Types DEF Direct
  <2>3. row.kind \in Kind /\ row.version \in Nat
    BY <2>2, LatestVersion, RowTyped DEF Kind
  <2>4. Returned(r, "bypass", row.kind, row.version)
    BY <2>1, <2>3, ReturnEffect
  <2> QED
    BY <2>1, <2>2, <2>4 DEF Direct, Bypasses
<1> QED
  BY <1>1, <1>2

LEMMA GetFailsEffect ==
  ASSUME TInv, NEW r \in Reader, GetFails(r)
  PROVE  (Raises(r) \/ Misses(r)) /\ UNCHANGED world
<1>1. pc[r] = "get"
  BY DEF GetFails
<1>2. CASE Raise(r) /\ (Fault \/ (~policy.fallback /\ faults' = faults))
  BY <1>1, <1>2, RaiseEffect DEF GetFails, Raises
<1>3. CASE NotCached(r, TRUE) /\ faults' = faults
  BY <1>1, <1>3, NotCachedEffect DEF GetFails, Misses
<1>4. \/ Raise(r) /\ (Fault \/ (~policy.fallback /\ faults' = faults))
      \/ NotCached(r, TRUE) /\ faults' = faults
  BY DEF GetFails
<1> QED
  BY <1>2, <1>3, <1>4, Zenon

LEMMA GetEffect ==
  ASSUME TInv, NEW r \in Reader, Get(r)
  PROVE  (Misses(r) \/ Rejects(r) \/ Hits(r)) /\ UNCHANGED world
<1> DEFINE entry == entries[call[r].key]
<1>1. pc[r] = "get" /\ call[r].key \in Key /\ UNCHANGED <<world, backend, flights, faults>>
  BY Types DEF Get
<1>2. CASE NotCached(r, FALSE)
  BY <1>1, <1>2, NotCachedEffect DEF Misses
<1>3. ASSUME NEW location \in {"drop", "purge"}, Goto(r, location), UNCHANGED call
      PROVE  Rejects(r)
  <2>1. /\ pc' \in [Reader -> Location] /\ pc'[r] = location
        /\ \A q \in Reader \ {r} : pc'[q] = pc[q]
    BY <1>3, GotoEffect DEF Location
  <2> QED
    BY <1>1, <1>3, <2>1, Types DEF Rejects, Moves, OthersKept, SameRequest
<1>4. CASE /\ entry # None /\ ValidEntry(entry, call[r].required, call[r].now)
           /\ entry.kind = "none" /\ Return(r, "negative-hit", "none", 0)
  <2>1. Returned(r, "negative-hit", "none", 0)
    BY <1>4, ReturnEffect DEF Kind
  <2> QED
    BY <1>1, <1>4, <2>1 DEF Hits
<1>5. CASE /\ entry # None /\ ValidEntry(entry, call[r].required, call[r].now)
           /\ entry.kind = "row" /\ Return(r, "hit", "row", entry.version)
  <2>1. entry \in CacheEntry
    BY <1>1, <1>5, Types
  <2>2. Returned(r, "hit", "row", entry.version)
    BY <1>5, <2>1, ReturnEffect DEF Kind, CacheEntry
  <2> QED
    BY <1>1, <1>5, <2>2 DEF Hits
<1> QED
  BY <1>1, <1>2, <1>3, <1>4, <1>5 DEF Get

LEMMA DiscardEffect ==
  ASSUME TInv, NEW r \in Reader, Discard(r)
  PROVE  (Raises(r) \/ Misses(r)) /\ UNCHANGED world
<1>1. /\ pc[r] \in {"drop", "purge"} /\ UNCHANGED <<world, flights>>
      /\ delete(call[r].key) \/ UNCHANGED backend
  BY DEF Discard
<1>2. CASE Raise(r) /\ Fault
  BY <1>1, <1>2, RaiseEffect DEF Raises
<1>3. CASE NotCached(r, FALSE) /\ UNCHANGED faults
  BY <1>1, <1>3, NotCachedEffect DEF Misses
<1> QED
  BY <1>1, <1>2, <1>3 DEF Discard

LEMMA JoinEffect ==
  ASSUME TInv, NEW r \in Reader, Join(r)
  PROVE  (Leads(r) \/ Follows(r)) /\ UNCHANGED world
<1>1. pc[r] = "join" /\ call[r].key \in Key /\ UNCHANGED <<world, backend, faults>>
  BY Types DEF Join
<1>2. ASSUME NEW location \in {"load", "wait"}, NEW role \in {"leader", "follower"},
             Goto(r, location), call' = [call EXCEPT ![r].role = role]
      PROVE  /\ Moves(r, "join", location)
             /\ call'[r].role = role /\ call'[r].now = call[r].now
  <2> DEFINE c == [call[r] EXCEPT !.role = role]
  <2>1. call' = [call EXCEPT ![r] = c]
    BY <1>2
  <2>2. /\ c \in Call /\ c.key = call[r].key /\ c.required = call[r].required
        /\ c.started = call[r].started /\ c.now = call[r].now /\ c.role = role
        /\ c.outcome = call[r].outcome
    BY Types, ZenonT(30) DEF Call
  <2>3. /\ pc' \in [Reader -> Location] /\ pc'[r] = location
        /\ \A q \in Reader \ {r} : pc'[q] = pc[q]
    BY <1>2, GotoEffect DEF Location
  <2> HIDE DEF c
  <2> QED
    BY <1>1, <2>1, <2>2, <2>3, Types DEF Moves, OthersKept, SameRequest
<1>3. CASE flights[call[r].key] = None
  BY <1>1, <1>2, <1>3 DEF Join, Leads
<1>4. CASE flights[call[r].key] # None
  BY <1>1, <1>2, <1>4 DEF Join, Follows
<1> QED
  BY <1>3, <1>4

LEMMA WaitEffect ==
  ASSUME TInv, NEW r \in Reader, Wait(r)
  PROVE  Wakes(r) /\ UNCHANGED world
<1> DEFINE c == [call[r] EXCEPT !.now = clock]
<1>1. call' = [call EXCEPT ![r] = c]
  BY DEF Wait
<1>2. /\ c \in Call /\ c.key = call[r].key /\ c.required = call[r].required
      /\ c.started = call[r].started /\ c.now = clock /\ c.role = call[r].role
      /\ c.outcome = call[r].outcome
  BY Types DEF Call
<1>3. /\ pc' \in [Reader -> Location] /\ pc'[r] = "get"
      /\ \A q \in Reader \ {r} : pc'[q] = pc[q]
  BY GotoEffect DEF Wait, Location
<1> HIDE DEF c
<1> QED
  BY <1>1, <1>2, <1>3, Types DEF Wait, Wakes, Moves, OthersKept, SameRequest

LEMMA LoadEffect ==
  ASSUME TInv, NEW r \in Reader, Load(r)
  PROVE  (Raises(r) \/ Loads(r)) /\ UNCHANGED world
<1>1. CASE Raise(r) /\ Fault
  BY <1>1, RaiseEffect DEF Load, Raises
<1>2. CASE ~(Raise(r) /\ Fault)
  <2> DEFINE k == call[r].key
             row == RowAt(k, Len(history[k]))
             c == [call[r] EXCEPT !.kind = row.kind, !.version = row.version]
  <2>1. /\ pc[r] = "load" /\ k \in Key /\ UNCHANGED <<world, backend, flights, faults>>
        /\ call' = [call EXCEPT ![r].kind = row.kind, ![r].version = row.version]
        /\ Goto(r, "populate")
    BY <1>2, Types DEF Load
  <2>2. row.kind \in Kind /\ row.version \in Nat
    BY <2>1, LatestVersion, RowTyped DEF Kind
  <2> HIDE DEF row
  <2>3. call' = [call EXCEPT ![r] = c]
    BY <2>1, Types DEF Call
  <2>4. /\ c \in Call /\ c.key = call[r].key /\ c.required = call[r].required
        /\ c.started = call[r].started /\ c.now = call[r].now /\ c.role = call[r].role
        /\ c.outcome = call[r].outcome /\ c.kind = row.kind /\ c.version = row.version
    BY <2>2, Types DEF Call
  <2>5. /\ pc' \in [Reader -> Location] /\ pc'[r] = "populate"
        /\ \A q \in Reader \ {r} : pc'[q] = pc[q]
    BY <2>1, GotoEffect DEF Location
  <2> HIDE DEF c
  <2>6. call'[r] = c /\ Moves(r, "load", "populate")
    BY <2>1, <2>3, <2>4, <2>5, Types, ZenonT(30) DEF Moves, OthersKept, SameRequest
  <2> QED
    BY <2>1, <2>4, <2>6 DEF Loads, row
<1> QED
  BY <1>1, <1>2

LEMMA PopulateEffect ==
  ASSUME TInv, NEW r \in Reader, Populate(r)
  PROVE  (Raises(r) \/ Populates(r)) /\ UNCHANGED world
<1>1. /\ pc[r] = "populate" /\ UNCHANGED <<world, flights>>
      /\ UNCHANGED backend \/ put(call[r].key, Entry(r))
  BY DEF Populate, backend
<1>2. CASE Raise(r) /\ Fault /\ UNCHANGED backend
  BY <1>1, <1>2, RaiseEffect DEF Raises
<1>3. ASSUME NEW o \in {"miss", "bypass"}, Return(r, o, call[r].kind, call[r].version),
             UNCHANGED faults
      PROVE  Populates(r)
  <2>1. Returned(r, o, call[r].kind, call[r].version)
    BY <1>3, ReturnEffect, Types
  <2> QED
    BY <1>1, <1>3, <2>1 DEF Populates
<1>4. ASSUME NEW error, Loaded(r, error)
      PROVE  \E o \in {"miss", "bypass"} : Return(r, o, call[r].kind, call[r].version)
  <2>1. CASE error
    BY <1>4, <2>1 DEF Loaded
  <2>2. CASE ~error
    BY <1>4, <2>2 DEF Loaded
  <2> QED
    BY <2>1, <2>2
<1>5. \/ Raise(r) /\ Fault /\ UNCHANGED backend
      \/ UNCHANGED faults /\ \E error : Loaded(r, error)
  BY Zenon DEF Populate, backend
<1> QED
  BY <1>1, <1>2, <1>3, <1>4, <1>5, Zenon

LEMMA FinishEffect ==
  ASSUME TInv, NEW r \in Reader, Finish(r)
  PROVE  Finishes(r) /\ UNCHANGED world
<1> DEFINE c == [call[r] EXCEPT !.role = "none"]
<1>1. call' = [call EXCEPT ![r] = c]
  BY DEF Finish
<1>2. /\ c \in Call /\ c.key = call[r].key /\ c.required = call[r].required
      /\ c.started = call[r].started /\ c.now = call[r].now /\ c.role = "none"
      /\ c.outcome = call[r].outcome /\ c.kind = call[r].kind /\ c.version = call[r].version
  BY Types, ZenonT(30) DEF Call
<1>3. /\ pc' \in [Reader -> Location] /\ pc'[r] = "idle"
      /\ \A q \in Reader \ {r} : pc'[q] = pc[q]
  BY GotoEffect DEF Finish, Location
<1> HIDE DEF c
<1> QED
  BY <1>1, <1>2, <1>3, Types DEF Finish, Finishes, Moves, OthersKept, SameRequest

\* A step of a read is one of these.
Steps(r) ==
    \/ Raises(r) \/ Bypasses(r) \/ Misses(r) \/ Rejects(r) \/ Hits(r) \/ Leads(r)
    \/ Follows(r) \/ Wakes(r) \/ Loads(r) \/ Populates(r) \/ Finishes(r)

LEMMA ReaderEffect ==
  ASSUME TInv, NEW r \in Reader, ReaderStep(r)
  PROVE  Steps(r) /\ UNCHANGED world
  BY DirectEffect, GetFailsEffect, GetEffect, DiscardEffect, JoinEffect, WaitEffect,
     LoadEffect, PopulateEffect, FinishEffect DEF ReaderStep, Steps

Begins(r, k, required) ==
    /\ OthersKept(r) /\ pc[r] = "idle" /\ pc'[r] \in {"get", "direct"}
    /\ call'[r].key = k /\ call'[r].required = required
    /\ call'[r].started = clock /\ call'[r].now = clock
    /\ call'[r].role = "none" /\ call'[r].outcome = "none"
    /\ UNCHANGED <<policy, flights, backend, history, token, clock, faults>>

LEMMA BeginEffect ==
  ASSUME TInv, NEW r \in Reader, NEW k \in Key, NEW required \in Versions(k) \cup {0},
         Begin(r, k, required)
  PROVE  Begins(r, k, required) /\ calls' \in Nat
<1> DEFINE c == [NoCall EXCEPT !.key = k, !.required = required, !.started = clock,
                               !.now = clock]
<1>1. call' = [call EXCEPT ![r] = c] /\ pc[r] = "idle"
  BY DEF Begin
<1>2. /\ c \in Call /\ c.key = k /\ c.required = required
      /\ c.started = clock /\ c.now = clock /\ c.role = "none" /\ c.outcome = "none"
  <2>1. required \in Nat /\ k \in Key \cup {None}
    BY Types DEF Versions
  <2> QED
    BY <2>1, Types DEF Call, NoCall, Kind
<1>3. /\ pc' \in [Reader -> Location] /\ pc'[r] \in {"get", "direct"}
      /\ \A q \in Reader \ {r} : pc'[q] = pc[q]
  BY GotoEffect DEF Begin, Location
<1>4. calls' \in Nat
  BY Types DEF Begin
<1> HIDE DEF c
<1> QED
  BY <1>1, <1>2, <1>3, <1>4, Types DEF Begin, Begins, OthersKept

\* A read touches only the entry of its key.
TouchesEntry(r) ==
    \/ UNCHANGED backend
    \/ delete(call[r].key)
    \/ pc[r] = "populate" /\ put(call[r].key, Entry(r))

LEMMA StepBasics ==
  ASSUME TInv, NEW r \in Reader, Steps(r)
  PROVE  /\ OthersKept(r) /\ SameRequest(r)
         /\ pc[r] # "idle" /\ call[r].key \in Key
         /\ TouchesEntry(r)
         /\ faults' = faults \/ Fault
  BY Types DEF Steps, Raises, Bypasses, Misses, Missed, Rejects, Hits, Leads, Follows, Wakes,
               Loads, Populates, Finishes, Moves, Returned, TouchesEntry

LEMMA PutTyped ==
  ASSUME TInv, NEW k \in Key, NEW e \in CacheEntry, put(k, e)
  PROVE  entries' \in [Key -> CacheEntry \cup {None}] /\ revision' \in Nat
  BY Types DEF put, NextVersion

LEMMA DeleteTyped ==
  ASSUME TInv, NEW k \in Key, delete(k)
  PROVE  entries' \in [Key -> CacheEntry \cup {None}] /\ revision' \in Nat
  BY Types DEF delete

LEMMA EntryTyped ==
  ASSUME TInv, NEW r \in Reader, pc[r] = "populate"
  PROVE  /\ Entry(r) \in CacheEntry
         /\ Entry(r).kind = call[r].kind /\ Entry(r).version = call[r].version
         /\ Entry(r).created_at = call[r].now /\ Entry(r).revision = revision + 1
<1>1. call[r].now + (IF call[r].kind = "none" THEN NegativeTtl ELSE DefaultTtl) \in Nat
  BY Types, TtlAssumption
<1> QED
  BY <1>1, Types DEF Entry, CacheEntry, NextVersion

LEMMA ExplicitEntryTyped ==
  ASSUME TInv, NEW k \in Key, NEW i \in Nat, NEW ttl \in ExplicitTtl
  PROVE  /\ ExplicitEntry(k, i, ttl) \in CacheEntry
         /\ ExplicitEntry(k, i, ttl).kind = "row" /\ ExplicitEntry(k, i, ttl).version = i
         /\ ExplicitEntry(k, i, ttl).revision = revision + 1
<1>1. clock + ttl \in Nat
  BY Types, TtlAssumption
<1> QED
  BY <1>1, Types DEF ExplicitEntry, CacheEntry, NextVersion, Kind

LEMMA BackendTyped ==
  ASSUME TInv, NEW r \in Reader, Steps(r)
  PROVE  entries' \in [Key -> CacheEntry \cup {None}] /\ revision' \in Nat
<1>1. CASE UNCHANGED backend
  BY <1>1, Types DEF backend
<1>2. CASE delete(call[r].key)
  BY <1>2, StepBasics, DeleteTyped
<1>3. CASE pc[r] = "populate" /\ put(call[r].key, Entry(r))
  <2>1. Entry(r) \in CacheEntry /\ call[r].key \in Key
    BY <1>3, EntryTyped, StepBasics
  <2> QED
    BY <1>3, <2>1, PutTyped
<1> QED
  BY <1>1, <1>2, <1>3, StepBasics DEF TouchesEntry

LEMMA FlightsTyped ==
  ASSUME TInv, NEW r \in Reader, Steps(r)
  PROVE  flights' \in [Key -> Reader \cup {None}]
<1>1. call[r].key \in Key
  BY StepBasics
<1>2. CASE flights' = flights
  BY <1>2, Types
<1>3. CASE Leads(r)
  BY <1>1, <1>3, Types DEF Leads
<1>4. CASE Finishes(r)
  BY <1>1, <1>4, Types DEF Finishes
<1> QED
  BY <1>2, <1>3, <1>4 DEF Steps, Raises, Bypasses, Misses, Rejects, Hits, Follows, Wakes, Loads,
                          Populates

LEMMA FaultsTyped ==
  ASSUME TInv, faults' = faults \/ Fault
  PROVE  faults' \in Nat /\ faults' <= MaxFaults /\ faults' <= faults
  BY Types DEF TInv, Fault

\* A reader arrives at populate only by loading.
LEMMA PopulateKind ==
  ASSUME TInv, NEW r \in Reader, Steps(r), pc'[r] = "populate"
  PROVE  Loads(r) /\ call'[r].kind \in {"row", "none"}
<1>1. Loads(r)
  BY Types DEF Steps, Raises, Bypasses, Misses, Missed, Rejects, Hits, Leads, Follows, Wakes,
               Populates, Finishes, Moves, Returned
<1>2. call[r].key \in Key
  BY StepBasics
<1>3. RowAt(call[r].key, Len(history[call[r].key])).kind \in {"row", "none"}
  BY <1>2, LatestVersion, RowTyped
<1> QED
  BY <1>1, <1>3 DEF Loads

LEMMA ReaderTInv ==
  ASSUME TInv, NEW r \in Reader, Steps(r), UNCHANGED world
  PROVE  TInv'
<1>1. OthersKept(r) /\ SameRequest(r) /\ call[r].key \in Key
  BY StepBasics
<1>2. /\ entries' \in [Key -> CacheEntry \cup {None}] /\ revision' \in Nat
      /\ flights' \in [Key -> Reader \cup {None}]
      /\ faults' \in Nat /\ faults' <= MaxFaults
  BY BackendTyped, FlightsTyped, StepBasics, FaultsTyped
<1>3. CTypeOK'
  BY <1>1, <1>2 DEF TInv, CTypeOK, world, OthersKept
<1>4. ASSUME NEW q \in Reader
      PROVE  /\ Begun(q)' => call'[q].key \in Key
             /\ pc'[q] = "populate" => call'[q].kind \in {"row", "none"}
  <2>1. CASE q = r
    BY <1>1, <2>1, PopulateKind DEF SameRequest
  <2>2. CASE q # r
    BY <1>1, <2>2 DEF OthersKept, TInv, Begun
  <2> QED
    BY <2>1, <2>2
<1> QED
  BY <1>2, <1>3, <1>4 DEF TInv, world

LEMMA BeginTInv ==
  ASSUME TInv, NEW r \in Reader, NEW k \in Key, NEW required,
         Begins(r, k, required), calls' \in Nat
  PROVE  TInv'
<1>1. CTypeOK'
  BY DEF TInv, CTypeOK, Begins, OthersKept, backend
<1>2. ASSUME NEW q \in Reader
      PROVE  /\ Begun(q)' => call'[q].key \in Key
             /\ pc'[q] = "populate" => call'[q].kind \in {"row", "none"}
  <2>1. CASE q = r
    BY <2>1 DEF Begins
  <2>2. CASE q # r
    BY <2>2 DEF Begins, OthersKept, TInv, Begun
  <2> QED
    BY <2>1, <2>2
<1> QED
  BY <1>1, <1>2 DEF TInv, Begins

--------------------------------------------------------------------------------
(***************************************************************************)
(* The steps that are not a reader's.                                      *)
(***************************************************************************)
\* An entry is stored by a caller that knows the row, or it cannot be used.
Stores(k, e) ==
    /\ e \in CacheEntry /\ e.revision = revision + 1 /\ put(k, e)
    /\ \/ e.kind = "row" /\ e.version \in Versions(k) /\ history[k][e.version].present
       \/ e.kind \in {"corrupt", "foreign"} /\ e.created_at = clock
    /\ calls' \in Nat /\ UNCHANGED <<reading, token>>

\* Entries disappear.
Clears(K) ==
    /\ entries' = [k \in Key |-> IF k \in K THEN None ELSE entries[k]]
    /\ revision' = revision
    /\ UNCHANGED <<reading, token, calls>>

LEMMA PutIfAbsentEffect ==
  ASSUME TInv, NEW k \in Key, NEW i \in Versions(k), NEW ttl \in ExplicitTtl,
         PutIfAbsent(k, i, ttl)
  PROVE  \E e : Stores(k, e)
<1>1. i \in Nat
  BY RowTyped
<1>2. ExplicitEntry(k, i, ttl) \in CacheEntry /\ ExplicitEntry(k, i, ttl).kind = "row"
      /\ ExplicitEntry(k, i, ttl).version = i /\ ExplicitEntry(k, i, ttl).revision = revision + 1
  BY <1>1, ExplicitEntryTyped
<1>3. calls' \in Nat
  BY Types DEF PutIfAbsent
<1>4. Stores(k, ExplicitEntry(k, i, ttl))
  BY <1>2, <1>3 DEF Stores, PutIfAbsent, put_if_absent
<1> QED
  BY <1>4

LEMMA CompareAndSetEffect ==
  ASSUME TInv, NEW c \in Client, NEW i \in 1..MaxVersion, NEW ttl \in ExplicitTtl,
         CompareAndSet(c, i, ttl)
  PROVE  \E k \in Key : \E e : Stores(k, e)
<1> DEFINE k == token[c].key
<1>1. token[c] \in [key : Key, entry : CacheEntry]
  BY Types DEF CompareAndSet
<1>2. i \in Nat /\ k \in Key
  BY <1>1, BoundAssumption
<1>3. ExplicitEntry(k, i, ttl) \in CacheEntry /\ ExplicitEntry(k, i, ttl).kind = "row"
      /\ ExplicitEntry(k, i, ttl).version = i /\ ExplicitEntry(k, i, ttl).revision = revision + 1
  BY <1>2, ExplicitEntryTyped
<1>4. calls' \in Nat
  BY Types DEF CompareAndSet
<1>5. Stores(k, ExplicitEntry(k, i, ttl))
  BY <1>3, <1>4 DEF Stores, CompareAndSet, compare_and_set
<1> QED
  BY <1>2, <1>5

LEMMA BadEntryEffect ==
  ASSUME TInv, NEW k \in Key, NEW kind \in {"corrupt", "foreign"}, BadEntry(k, kind)
  PROVE  \E e : Stores(k, e) /\ e.kind \in {"corrupt", "foreign"}
<1> DEFINE e == [kind |-> kind, version |-> Len(history[k]), created_at |-> clock,
                 expires_at |-> clock + DefaultTtl, revision |-> NextVersion(k)]
<1>1. clock + DefaultTtl \in Nat /\ NextVersion(k) = revision + 1 /\ NextVersion(k) \in Nat
  BY Types, TtlAssumption DEF NextVersion
<1>2. e \in CacheEntry /\ e.kind = kind /\ e.revision = revision + 1 /\ e.created_at = clock
  BY <1>1, Types DEF CacheEntry, Kind
<1>3. put(k, e)
  BY DEF BadEntry
<1>4. calls' \in Nat /\ UNCHANGED <<reading, token>>
  BY Types DEF BadEntry
<1> HIDE DEF e
<1>5. Stores(k, e)
  BY <1>2, <1>3, <1>4 DEF Stores
<1> QED
  BY <1>2, <1>5

LEMMA InvalidateEffect ==
  ASSUME TInv, invalidate_after_commit
  PROVE  Clears(Key)
  BY Types DEF invalidate_after_commit, invalidate, Clears

LEMMA DeleteEffect ==
  ASSUME TInv, NEW k \in Key, Delete(k)
  PROVE  Clears({k})
  BY Types DEF Delete, delete, Clears

Elsewhere ==
    \/ \E k \in Key, present \in BOOLEAN : Commit(k, present)
    \/ \E k \in Key : \E e : Stores(k, e)
    \/ \E K \in SUBSET Key : Clears(K)
    \/ \E c \in Client, k \in Key : Inspect(c, k)
    \/ Tick

LEMMA EnvironmentEffect ==
  ASSUME TInv, Environment
  PROVE  Elsewhere
<1>1. CASE \E k \in Key, kind \in {"corrupt", "foreign"} : BadEntry(k, kind)
  BY <1>1, BadEntryEffect DEF Elsewhere
<1>2. CASE invalidate_after_commit
  <2>1. Clears(Key) /\ Key \in SUBSET Key
    BY <1>2, InvalidateEffect
  <2> QED
    BY <2>1 DEF Elsewhere
<1>3. CASE Tick \/ \E k \in Key, present \in BOOLEAN : Commit(k, present)
  BY <1>3, Zenon DEF Elsewhere
<1> QED
  BY <1>1, <1>2, <1>3, Zenon DEF Environment

LEMMA ExplicitEffect ==
  ASSUME TInv, ExplicitNext
  PROVE  Elsewhere
<1>1. CASE \E k \in Key, ttl \in ExplicitTtl : \E i \in Versions(k) : PutIfAbsent(k, i, ttl)
  BY <1>1, PutIfAbsentEffect DEF Elsewhere
<1>2. CASE \E c \in Client, ttl \in ExplicitTtl, i \in 1..MaxVersion : CompareAndSet(c, i, ttl)
  BY <1>2, CompareAndSetEffect DEF Elsewhere
<1>3. CASE \E c \in Client, k \in Key : Inspect(c, k)
  BY <1>3 DEF Elsewhere
<1>4. ASSUME NEW k \in Key, Delete(k)
      PROVE  Elsewhere
  <2>1. Clears({k}) /\ {k} \in SUBSET Key
    BY <1>4, DeleteEffect
  <2> QED
    BY <2>1 DEF Elsewhere
<1> QED
  BY <1>1, <1>2, <1>3, <1>4 DEF ExplicitNext

LEMMA CommitEffect ==
  ASSUME TInv, NEW k \in Key, NEW present \in BOOLEAN, Commit(k, present)
  PROVE  /\ history' \in [Key -> Seq(Row)]
         /\ \A l \in Key \ {k} : history'[l] = history[l]
         /\ Len(history'[k]) = Len(history[k]) + 1
         /\ \A i \in 1..Len(history[k]) : history'[k][i] = history[k][i]
         /\ history'[k][Len(history[k]) + 1].since = clock
         /\ UNCHANGED <<policy, flights, entries, revision, pc, call, token, clock, calls, faults>>
<1> DEFINE row == [present |-> present, since |-> clock]
           h == history[k]
<1>1. row \in Row /\ row.since = clock
  BY Types DEF Row
<1>2. h \in Seq(Row)
  BY Types
<1>3. history' = [history EXCEPT ![k] = Append(h, row)]
  BY DEF Commit
<1> HIDE DEF row, h
<1>4. /\ Append(h, row) \in Seq(Row) /\ Len(Append(h, row)) = Len(h) + 1
      /\ \A i \in 1..Len(h) : Append(h, row)[i] = h[i]
      /\ Append(h, row)[Len(h) + 1] = row
  BY <1>1, <1>2
<1>5. history'[k] = Append(h, row)
  BY <1>3, Types
<1>6. history' \in [Key -> Seq(Row)] /\ \A l \in Key \ {k} : history'[l] = history[l]
  BY <1>3, <1>4, Types
<1> QED
  BY <1>1, <1>4, <1>5, <1>6 DEF Commit, backend, h

LEMMA ElsewhereTInv ==
  ASSUME TInv, Elsewhere
  PROVE  TInv'
<1>1. ASSUME NEW k \in Key, NEW present \in BOOLEAN, Commit(k, present)
      PROVE  TInv'
  <2>1. /\ history' \in [Key -> Seq(Row)]
        /\ \A l \in Key \ {k} : history'[l] = history[l]
        /\ Len(history'[k]) = Len(history[k]) + 1
        /\ UNCHANGED <<policy, flights, entries, revision, pc, call, token, clock, calls, faults>>
    BY <1>1, CommitEffect
  <2>2. ASSUME NEW l \in Key
        PROVE  history'[l] # << >> /\ \A i \in DOMAIN history'[l] : history'[l][i] \in Row
    <3>1. history'[l] \in Seq(Row) /\ Len(history'[l]) >= 1
      <4>1. CASE l = k
        BY <2>1, <4>1, Types
      <4>2. CASE l # k
        BY <2>1, <4>2, Types
      <4> QED
        BY <4>1, <4>2
    <3> QED
      BY <3>1
  <2>3. CTypeOK'
    BY <2>1, <2>2 DEF TInv, CTypeOK, Row
  <2> QED
    BY <2>1, <2>3 DEF TInv, Begun
<1>2. ASSUME NEW k \in Key, NEW e, Stores(k, e)
      PROVE  TInv'
  <2>1. entries' \in [Key -> CacheEntry \cup {None}] /\ revision' \in Nat
    BY <1>2, PutTyped DEF Stores
  <2>2. CTypeOK'
    BY <1>2, <2>1 DEF Stores, reading, TInv, CTypeOK
  <2> QED
    BY <1>2, <2>2 DEF Stores, reading, TInv, Begun
<1>3. ASSUME NEW K \in SUBSET Key, Clears(K)
      PROVE  TInv'
  <2>1. entries' \in [Key -> CacheEntry \cup {None}] /\ revision' \in Nat
    BY <1>3, Types DEF Clears
  <2>2. CTypeOK'
    BY <1>3, <2>1 DEF Clears, reading, TInv, CTypeOK
  <2> QED
    BY <1>3, <2>2 DEF Clears, reading, TInv, Begun
<1>4. ASSUME NEW c \in Client, NEW k \in Key, Inspect(c, k)
      PROVE  TInv'
  <2>1. token' \in [Client -> [key : Key, entry : CacheEntry] \cup {None}]
    BY <1>4, Types DEF Inspect
  <2>2. CTypeOK'
    BY <1>4, <2>1 DEF Inspect, reading, backend, TInv, CTypeOK
  <2> QED
    BY <1>4, <2>2 DEF Inspect, reading, TInv, Begun
<1>5. ASSUME Tick
      PROVE  TInv'
  <2>1. clock' \in Nat
    BY <1>5, Types DEF Tick
  <2> QED
    BY <1>5, <2>1 DEF Tick, TInv, CTypeOK, Begun, backend
<1> QED
  BY <1>1, <1>2, <1>3, <1>4, <1>5 DEF Elsewhere

LEMMA StutterTInv ==
  ASSUME TInv, UNCHANGED cvars
  PROVE  TInv'
  BY DEF TInv, CTypeOK, Begun, cvars

(***************************************************************************)
(* Every step of the specification is a step of a read, the start of one,  *)
(* or a step elsewhere.                                                    *)
(***************************************************************************)
ReadSteps ==
    \/ \E r \in Reader : Steps(r) /\ UNCHANGED world
    \/ \E r \in Reader, k \in Key : \E required \in Versions(k) \cup {0} :
          Begins(r, k, required) /\ calls' \in Nat

LEMMA ReadNextEffect ==
  ASSUME TInv, ReadNext
  PROVE  ReadSteps \/ Environment
<1>1. ASSUME NEW r \in Reader, ReaderStep(r)
      PROVE  ReadSteps
  BY <1>1, ReaderEffect DEF ReadSteps
<1>2. ASSUME NEW r \in Reader, NEW k \in Key, NEW required \in Versions(k) \cup {0},
             Begin(r, k, required)
      PROVE  ReadSteps
  BY <1>2, BeginEffect DEF ReadSteps
<1> QED
  BY <1>1, <1>2 DEF ReadNext

LEMMA NextEffect ==
  ASSUME TInv, Next
  PROVE  ReadSteps \/ Elsewhere
  BY ReadNextEffect, EnvironmentEffect, ExplicitEffect DEF Next

LEMMA TInvInit ==
  ASSUME CInit
  PROVE  TInv
<1>1. PICK present \in BOOLEAN : history = [k \in Key |-> <<[present |-> present, since |-> 0]>>]
  BY DEF CInit
<1>2. history \in [Key -> Seq(Row)]
  BY <1>1 DEF Row
<1>3. ASSUME NEW k \in Key
      PROVE  history[k] # << >> /\ \A i \in DOMAIN history[k] : history[k][i] \in Row
  BY <1>1 DEF Row
<1>4. NoCall \in Call
  BY DEF NoCall, Call, Kind
<1>5. CTypeOK
  BY <1>3, <1>4, BoundAssumption DEF CInit, CTypeOK, Row, Location
<1> QED
  BY <1>2, <1>5, BoundAssumption DEF CInit, TInv, Begun, NoCall

LEMMA TInvStep ==
  ASSUME TInv, [Next]_cvars
  PROVE  TInv'
<1>1. CASE ReadSteps
  BY <1>1, ReaderTInv, BeginTInv DEF ReadSteps
<1> QED
  BY <1>1, NextEffect, ElsewhereTInv, StutterTInv

--------------------------------------------------------------------------------
(***************************************************************************)
(* Flights and outages.                                                    *)
(***************************************************************************)
Role(r) ==
    /\ call[r].role = "leader" => pc[r] \in {"load", "populate", "finish"}
    /\ pc[r] = "finish" => call[r].role = "leader"
    /\ pc[r] \notin {"idle", "finish"} => call[r].outcome = "none"

Excused(r) == call[r].outcome = "raised" => ~policy.fallback \/ faults < MaxFaults

RInv == \A r \in Reader : Role(r) /\ Excused(r)

LEMMA StepRole ==
  ASSUME TInv, RInv, NEW r \in Reader, Steps(r), UNCHANGED world
  PROVE  Role(r)' /\ Excused(r)'
<1>1. Role(r) /\ call \in [Reader -> Call] /\ faults \in Nat /\ faults <= MaxFaults
      /\ policy' = policy /\ call[r].role \in {"none", "leader", "follower"}
  BY Types DEF RInv, world, TInv, Call
<1>2. CASE Raises(r)
  <2>1. Role(r)'
    BY <1>1, <1>2 DEF Raises, Returned, Role
  <2>2. CASE Fault
    <3>1. faults' < MaxFaults
      BY <1>1, <2>2, Types DEF Fault
    <3> QED
      BY <2>1, <3>1 DEF Excused
  <2>3. CASE ~policy.fallback
    BY <1>1, <2>1, <2>3 DEF Excused
  <2> QED
    BY <1>2, <2>2, <2>3 DEF Raises
<1>3. CASE Bypasses(r) \/ Hits(r) \/ Populates(r)
  <2>1. \E o \in {"hit", "negative-hit", "miss", "bypass"} : \E kind, version :
           Returned(r, o, kind, version)
    BY <1>3 DEF Bypasses, Hits, Populates
  <2> QED
    BY <2>1 DEF Returned, Role, Excused
<1>4. CASE Misses(r) \/ Rejects(r) \/ Leads(r) \/ Follows(r) \/ Wakes(r) \/ Loads(r)
  BY <1>1, <1>4 DEF Misses, Missed, Rejects, Leads, Follows, Wakes, Loads, Moves, Role, Excused
<1>5. CASE Finishes(r)
  <2>1. Excused(r) /\ faults' = faults /\ call'[r].outcome = call[r].outcome
    BY <1>5 DEF RInv, Finishes, Moves
  <2>2. Excused(r)'
    BY <1>1, <2>1 DEF Excused
  <2> QED
    BY <1>5, <2>2 DEF Finishes, Moves, Role
<1> QED
  BY <1>2, <1>3, <1>4, <1>5 DEF Steps

LEMMA OthersRole ==
  ASSUME TInv, RInv, NEW r \in Reader, OthersKept(r), faults' = faults \/ Fault,
         policy' = policy, NEW q \in Reader, q # r
  PROVE  Role(q)' /\ Excused(q)'
<1>1. Role(q) /\ Excused(q) /\ pc'[q] = pc[q] /\ call'[q] = call[q]
  BY DEF RInv, OthersKept
<1>2. faults' \in Nat /\ faults' <= faults /\ faults \in Nat /\ MaxFaults \in Nat
  BY FaultsTyped, Types
<1>3. faults < MaxFaults => faults' < MaxFaults
  BY <1>2
<1> QED
  BY <1>1, <1>3 DEF Role, Excused

LEMMA RInvStep ==
  ASSUME TInv, RInv, [Next]_cvars
  PROVE  RInv'
<1>1. ASSUME NEW r \in Reader, Steps(r), UNCHANGED world
      PROVE  RInv'
  <2>1. OthersKept(r) /\ (faults' = faults \/ Fault) /\ policy' = policy
    BY <1>1, StepBasics DEF world
  <2> QED
    BY <1>1, <2>1, StepRole, OthersRole DEF RInv
<1>2. ASSUME NEW r \in Reader, NEW k \in Key, NEW required, Begins(r, k, required)
      PROVE  RInv'
  <2>1. OthersKept(r) /\ faults' = faults /\ policy' = policy
    BY <1>2 DEF Begins
  <2>2. Role(r)' /\ Excused(r)'
    BY <1>2 DEF Begins, Role, Excused
  <2> QED
    BY <2>1, <2>2, OthersRole DEF RInv
<1>3. CASE UNCHANGED <<pc, call, policy, faults>>
  BY <1>3 DEF RInv, Role, Excused
<1>4. Elsewhere => UNCHANGED <<pc, call, policy, faults>>
  BY CommitEffect DEF Elsewhere, Stores, Clears, Inspect, Tick, reading
<1> QED
  BY <1>1, <1>2, <1>3, <1>4, NextEffect DEF ReadSteps, cvars

Leading(r, k) == call[r].key = k /\ call[r].role = "leader"

LEMMA FlightsAreLed ==
  ASSUME RInv
  PROVE  SingleFlight <=> \A r \in Reader, k \in Key : flights[k] = r <=> Leading(r, k)
  BY DEF SingleFlight, RInv, Role, Leading

LEMMA FlightsStep ==
  ASSUME TInv, RInv, SingleFlight, [Next]_cvars
  PROVE  SingleFlight'
<1> DEFINE Led(r, k) == flights[k] = r <=> Leading(r, k)
<1>1. \A r \in Reader, k \in Key : Led(r, k)
  BY FlightsAreLed
<1>2. RInv'
  BY RInvStep
<1> SUFFICES \A r \in Reader, k \in Key : Led(r, k)'
  BY <1>2 DEF SingleFlight, RInv, Role, Leading
<1>3. ASSUME NEW r \in Reader, Steps(r)
      PROVE  \A q \in Reader, k \in Key : Led(q, k)'
  <2>1. OthersKept(r) /\ SameRequest(r) /\ call[r].key \in Key
    BY <1>3, StepBasics
  <2>2. CASE flights' = flights /\ (call'[r].role = "leader" <=> call[r].role = "leader")
    BY <1>1, <2>1, <2>2 DEF Leading, OthersKept, SameRequest
  <2>3. CASE Leads(r)
    <3>1. /\ flights' = [flights EXCEPT ![call[r].key] = r] /\ flights[call[r].key] = None
          /\ call'[r].role = "leader" /\ pc[r] = "join"
      BY <2>3 DEF Leads, Moves
    <3>2. call[r].role # "leader"
      BY <3>1 DEF RInv, Role
    <3> SUFFICES ASSUME NEW q \in Reader, NEW k \in Key PROVE Led(q, k)'
      OBVIOUS
    <3>3. flights'[k] = IF k = call[r].key THEN r ELSE flights[k]
      BY <2>1, <3>1, Types
    <3>4. Led(q, k) /\ Led(r, call[r].key) /\ Led(q, call[r].key) /\ q # None
      BY <1>1, <2>1, NamesAssumption
    <3>5. CASE q = r
      BY <2>1, <3>1, <3>2, <3>3, <3>4, <3>5 DEF Leading, SameRequest
    <3>6. CASE q # r
      BY <2>1, <3>1, <3>2, <3>3, <3>4, <3>6 DEF Leading, OthersKept
    <3> QED
      BY <3>5, <3>6
  <2>4. CASE Finishes(r)
    <3>1. /\ flights' = [flights EXCEPT ![call[r].key] = None]
          /\ call'[r].role = "none" /\ pc[r] = "finish"
      BY <2>4 DEF Finishes, Moves
    <3>2. call[r].role = "leader"
      BY <3>1 DEF RInv, Role
    <3> SUFFICES ASSUME NEW q \in Reader, NEW k \in Key PROVE Led(q, k)'
      OBVIOUS
    <3>3. flights'[k] = IF k = call[r].key THEN None ELSE flights[k]
      BY <2>1, <3>1, Types
    <3>4. Led(q, k) /\ Led(r, call[r].key) /\ Led(q, call[r].key) /\ q # None
      BY <1>1, <2>1, NamesAssumption
    <3>5. CASE q = r
      BY <2>1, <3>1, <3>2, <3>3, <3>4, <3>5 DEF Leading, SameRequest
    <3>6. CASE q # r
      BY <2>1, <3>1, <3>2, <3>3, <3>4, <3>6 DEF Leading, OthersKept
    <3> QED
      BY <3>5, <3>6
  <2>5. \/ Leads(r) \/ Finishes(r)
        \/ flights' = flights /\ (call'[r].role = "leader" <=> call[r].role = "leader")
    BY <1>3 DEF Steps, Raises, Bypasses, Misses, Missed, Rejects, Hits, Follows, Wakes, Loads,
                Populates, Returned, Moves, RInv, Role
  <2> QED
    BY <2>2, <2>3, <2>4, <2>5
<1>4. ASSUME NEW r \in Reader, NEW k \in Key, NEW required, Begins(r, k, required)
      PROVE  \A q \in Reader, l \in Key : Led(q, l)'
  <2>1. /\ OthersKept(r) /\ flights' = flights /\ call'[r].role = "none"
        /\ call[r].role # "leader"
    BY <1>4 DEF Begins, RInv, Role
  <2> QED
    BY <1>1, <2>1 DEF Leading, OthersKept
<1>5. CASE UNCHANGED <<flights, call>>
  BY <1>1, <1>5 DEF Leading
<1>6. Elsewhere => UNCHANGED <<flights, call>>
  BY CommitEffect DEF Elsewhere, Stores, Clears, Inspect, Tick, reading
<1> QED
  BY <1>3, <1>4, <1>5, <1>6, NextEffect DEF ReadSteps, cvars

--------------------------------------------------------------------------------
(***************************************************************************)
(* Entry versions.                                                         *)
(***************************************************************************)
\* An entry, or one a client saw, was stored with a version given out.
GivenOut ==
    /\ \A k \in Key : entries[k] # None => entries[k].revision <= revision
    /\ \A c \in Client : token[c] # None => token[c].entry.revision <= revision

\* Whatever has the version of an entry is that entry.
Identified ==
    /\ \A k, l \in Key :
          /\ entries[k] # None /\ entries[l] # None
          /\ entries[k].revision = entries[l].revision
          => k = l
    /\ \A k \in Key, c \in Client :
          /\ entries[k] # None /\ token[c] # None
          /\ entries[k].revision = token[c].entry.revision
          => entries[k] = token[c].entry

UInv == GivenOut /\ Identified

LEMMA PutUnique ==
  ASSUME TInv, UInv, NEW k \in Key, NEW e \in CacheEntry, e.revision = revision + 1,
         put(k, e), token' = token
  PROVE  UInv'
<1>1. /\ \A l \in Key : entries'[l] = IF l = k THEN e ELSE entries[l]
      /\ revision' = revision + 1 /\ revision \in Nat
  BY Types DEF put, NextVersion
<1>2. /\ \A l \in Key : entries[l] # None => entries[l].revision \in Nat
      /\ \A c \in Client : token[c] # None => token[c].entry.revision \in Nat
  BY Types DEF CacheEntry
<1>3. GivenOut'
  BY <1>1, <1>2 DEF UInv, GivenOut
<1>4. /\ \A l \in Key : entries[l] # None => entries[l].revision # e.revision
      /\ \A c \in Client : token[c] # None => token[c].entry.revision # e.revision
  BY <1>1, <1>2 DEF UInv, GivenOut
<1>5. Identified'
  BY <1>1, <1>4 DEF UInv, Identified
<1> QED
  BY <1>3, <1>5 DEF UInv

LEMMA RemoveUnique ==
  ASSUME TInv, UInv, \A k \in Key : entries'[k] \in {entries[k], None},
         revision' = revision, token' = token
  PROVE  UInv'
  BY DEF UInv, GivenOut, Identified

LEMMA InspectUnique ==
  ASSUME TInv, UInv, NEW c \in Client, NEW k \in Key, Inspect(c, k)
  PROVE  UInv'
<1>1. /\ \A d \in Client \ {c} : token'[d] = token[d]
      /\ token'[c] = IF entries[k] = None THEN None ELSE [key |-> k, entry |-> entries[k]]
      /\ entries' = entries /\ revision' = revision
  BY Types DEF Inspect, backend
<1>2. token'[c] # None => entries[k] # None /\ token'[c].entry = entries[k]
  BY <1>1
<1>3. GivenOut'
  BY <1>1, <1>2 DEF UInv, GivenOut
<1>4. Identified'
  BY <1>1, <1>2 DEF UInv, Identified
<1> QED
  BY <1>3, <1>4 DEF UInv

LEMMA UInvStep ==
  ASSUME TInv, UInv, [Next]_cvars
  PROVE  UInv'
<1>1. CASE UNCHANGED <<entries, revision, token>>
  BY <1>1 DEF UInv, GivenOut, Identified
<1>2. ASSUME NEW r \in Reader, Steps(r), UNCHANGED world
      PROVE  UInv'
  <2>1. token' = token /\ call[r].key \in Key /\ TouchesEntry(r)
    BY <1>2, StepBasics DEF world
  <2>2. CASE delete(call[r].key)
    BY <2>1, <2>2, RemoveUnique, Types DEF delete
  <2>3. CASE pc[r] = "populate" /\ put(call[r].key, Entry(r))
    BY <2>1, <2>3, PutUnique, EntryTyped
  <2> QED
    BY <1>1, <2>1, <2>2, <2>3 DEF TouchesEntry, backend
<1>3. ASSUME NEW k \in Key, NEW e, Stores(k, e)
      PROVE  UInv'
  BY <1>3, PutUnique DEF Stores
<1>4. ASSUME NEW K \in SUBSET Key, Clears(K)
      PROVE  UInv'
  BY <1>4, RemoveUnique DEF Clears
<1>5. ASSUME NEW k \in Key, NEW present \in BOOLEAN, Commit(k, present)
      PROVE  UNCHANGED <<entries, revision, token>>
  BY <1>5, CommitEffect
<1>6. Tick => UNCHANGED <<entries, revision, token>>
  BY DEF Tick, backend
<1>7. ASSUME Elsewhere
      PROVE  UInv'
  BY <1>1, <1>3, <1>4, <1>5, <1>6, <1>7, InspectUnique DEF Elsewhere
<1>8. ASSUME ReadSteps
      PROVE  UInv'
  BY <1>1, <1>2, <1>8 DEF ReadSteps, Begins, backend
<1> QED
  BY <1>1, <1>7, <1>8, NextEffect DEF cvars

--------------------------------------------------------------------------------
(***************************************************************************)
(* Required versions.                                                      *)
(***************************************************************************)
\* The source has been as kind and version say, in version n or later.
Has(k, kind, version, n) ==
    \E i \in Versions(k) : i >= n /\ RowAt(k, i) = [kind |-> kind, version |-> version]

\* Versions of a row are added, the next one with the time of the clock.
Grows(k) ==
    /\ Len(history[k]) \in Nat /\ Len(history'[k]) \in Nat /\ Len(history[k]) <= Len(history'[k])
    /\ \A i \in Versions(k) : history'[k][i] = history[k][i]
    /\ Len(history'[k]) > Len(history[k]) => history'[k][Len(history[k]) + 1].since = clock

LEMMA HistoryGrows ==
  ASSUME TInv, [Next]_cvars
  PROVE  \A k \in Key : Grows(k)
<1>1. CASE history' = history
  BY <1>1, Types DEF Grows
<1>2. ASSUME NEW l \in Key, NEW present \in BOOLEAN, Commit(l, present), NEW k \in Key
      PROVE  Grows(k)
  <2>1. CASE k = l
    BY <1>2, <2>1, CommitEffect, Types DEF Grows, Versions
  <2>2. CASE k # l
    <3>1. history'[k] = history[k] /\ Len(history[k]) \in Nat
      BY <1>2, <2>2, CommitEffect, Types
    <3> QED
      BY <3>1 DEF Grows
  <2> QED
    BY <2>1, <2>2
<1>3. Elsewhere => history' = history \/ \E l \in Key, present \in BOOLEAN : Commit(l, present)
  BY DEF Elsewhere, Stores, Clears, Inspect, Tick, reading
<1>4. ReadSteps => history' = history
  BY DEF ReadSteps, Begins, world
<1> QED
  BY <1>1, <1>2, <1>3, <1>4, NextEffect DEF cvars

LEMMA RowKept ==
  ASSUME NEW k \in Key, Grows(k), NEW i \in Versions(k)
  PROVE  /\ i \in Nat /\ i \in Versions(k)' /\ RowAt(k, i)' = RowAt(k, i)
         /\ i < Len(history[k]) => i + 1 \in Versions(k)
<1>1. i \in 1..Len(history[k]) /\ Len(history[k]) \in Nat
  BY DEF Versions, Grows
<1>2. i \in Nat /\ i \in 1..Len(history'[k])
  BY <1>1 DEF Grows
<1> QED
  BY <1>1, <1>2 DEF Versions, Grows, RowAt

LEMMA HasKept ==
  ASSUME NEW k \in Key, NEW kind, NEW version, NEW n, Grows(k), Has(k, kind, version, n)
  PROVE  Has(k, kind, version, n)'
<1>1. PICK i \in Versions(k) : i >= n /\ RowAt(k, i) = [kind |-> kind, version |-> version]
  BY DEF Has
<1>2. i \in Versions(k)' /\ RowAt(k, i)' = [kind |-> kind, version |-> version]
  BY <1>1, RowKept
<1> QED
  BY <1>1, <1>2 DEF Has

LEMMA LatestHas ==
  ASSUME TInv, NEW k \in Key, NEW n \in Nat, n <= Len(history[k])
  PROVE  LET row == RowAt(k, Len(history[k])) IN Has(k, row.kind, row.version, n)
<1>1. Len(history[k]) \in Versions(k) /\ Len(history[k]) >= n
  BY LatestVersion, Types
<1> QED
  BY <1>1, RowTyped DEF Has

\* The answer is good enough for a caller that requires a version.
Satisfied(r) ==
    call[r].required # 0 /\ policy.strategy # "none"
        => Has(call[r].key, call[r].kind, call[r].version, call[r].required)

Meets(r) ==
    /\ Begun(r) => call[r].required <= Len(history[call[r].key])
    /\ pc[r] = "populate" => Has(call[r].key, call[r].kind, call[r].version, call[r].required)
    /\ call[r].outcome \notin {"none", "raised"} => Satisfied(r)

EntryTrue(k) ==
    entries[k] # None =>
        /\ entries[k].kind = "row" => Has(k, "row", entries[k].version, entries[k].version)
        /\ entries[k].kind = "none" => entries[k].version = 0

MInv == /\ \A k \in Key : EntryTrue(k)
        /\ \A r \in Reader : Meets(r)

\* A version of a row is in the version it says.
LEMMA RowVersion ==
  ASSUME TInv, NEW k \in Key, NEW version \in Nat, NEW n, Has(k, "row", version, n)
  PROVE  Has(k, "row", version, version)
<1>1. PICK i \in Versions(k) : RowAt(k, i) = [kind |-> "row", version |-> version]
  BY DEF Has
<1>2. i = version
  BY <1>1 DEF RowAt
<1>3. version >= version
  OBVIOUS
<1> QED
  BY <1>1, <1>2, <1>3 DEF Has

LEMMA AbsentVersion ==
  ASSUME TInv, NEW k \in Key, NEW version, NEW n, Has(k, "none", version, n)
  PROVE  version = 0
<1>1. PICK i \in Versions(k) : RowAt(k, i) = [kind |-> "none", version |-> version]
  BY DEF Has
<1> QED
  BY <1>1 DEF RowAt

LEMMA EntryStaysTrue ==
  ASSUME TInv, NEW k \in Key, EntryTrue(k), Grows(k), entries'[k] \in {entries[k], None}
  PROVE  EntryTrue(k)'
<1>1. PICK e : e = entries[k]
  OBVIOUS
<1>2. e # None /\ e.kind = "row" => Has(k, "row", e.version, e.version)'
  BY <1>1, HasKept DEF EntryTrue
<1>3. e # None /\ e.kind = "none" => e.version = 0
  BY <1>1 DEF EntryTrue
<1>4. entries'[k] = e \/ entries'[k] = None
  BY <1>1
<1> QED
  BY <1>2, <1>3, <1>4 DEF EntryTrue, Has, Versions

LEMMA StoredEntryTrue ==
  ASSUME TInv, NEW k \in Key, NEW e \in CacheEntry, entries'[k] = e, history' = history,
         e.kind = "row" => Has(k, "row", e.version, e.version),
         e.kind = "none" => e.version = 0
  PROVE  EntryTrue(k)'
  BY DEF EntryTrue, Has, Versions, RowAt

LEMMA EntriesStayTrue ==
  ASSUME TInv, MInv, [Next]_cvars
  PROVE  \A k \in Key : EntryTrue(k)'
<1>1. \A k \in Key : EntryTrue(k) /\ Grows(k)
  BY HistoryGrows DEF MInv
<1>2. CASE \A k \in Key : entries'[k] \in {entries[k], None}
  BY <1>1, <1>2, EntryStaysTrue
<1>3. ASSUME NEW k \in Key, NEW e \in CacheEntry, put(k, e), history' = history,
             e.kind = "row" => Has(k, "row", e.version, e.version),
             e.kind = "none" => e.version = 0
      PROVE  \A l \in Key : EntryTrue(l)'
  <2>1. entries'[k] = e /\ \A l \in Key \ {k} : entries'[l] = entries[l]
    BY <1>3, Types DEF put
  <2>2. EntryTrue(k)'
    BY <1>3, <2>1, StoredEntryTrue
  <2> QED
    BY <1>1, <2>1, <2>2, EntryStaysTrue
<1>4. ASSUME NEW r \in Reader, Steps(r), UNCHANGED world
      PROVE  \A k \in Key : EntryTrue(k)'
  <2>1. call[r].key \in Key /\ TouchesEntry(r) /\ history' = history
    BY <1>4, StepBasics DEF world
  <2>2. CASE delete(call[r].key) \/ UNCHANGED backend
    BY <1>2, <2>1, <2>2, Types DEF delete, backend
  <2>3. CASE pc[r] = "populate" /\ put(call[r].key, Entry(r))
    <3>1. Has(call[r].key, call[r].kind, call[r].version, call[r].required)
      BY <2>3 DEF MInv, Meets
    <3>2. /\ call[r].kind = "row" => Has(call[r].key, "row", call[r].version, call[r].version)
          /\ call[r].kind = "none" => call[r].version = 0
      BY <2>1, <3>1, RowVersion, AbsentVersion, Types
    <3>3. /\ Entry(r) \in CacheEntry
          /\ Entry(r).kind = call[r].kind /\ Entry(r).version = call[r].version
      BY <2>3, EntryTyped
    <3> QED
      BY <1>3, <2>1, <2>3, <3>2, <3>3
  <2> QED
    BY <2>1, <2>2, <2>3 DEF TouchesEntry
<1>5. ASSUME NEW k \in Key, NEW e, Stores(k, e)
      PROVE  \A l \in Key : EntryTrue(l)'
  <2>1. e \in CacheEntry /\ put(k, e) /\ history' = history
    BY <1>5 DEF Stores, reading
  <2>2. ASSUME e.kind = "row"
        PROVE  Has(k, "row", e.version, e.version)
    <3>1. e.version \in Versions(k) /\ history[k][e.version].present
      BY <1>5, <2>2 DEF Stores
    <3>2. RowAt(k, e.version) = [kind |-> "row", version |-> e.version]
      BY <3>1 DEF RowAt
    <3>3. e.version >= e.version
      BY <2>1 DEF CacheEntry
    <3> QED
      BY <3>1, <3>2, <3>3 DEF Has
  <2>3. e.kind # "none"
    BY <1>5 DEF Stores
  <2> QED
    BY <1>3, <2>1, <2>2, <2>3
<1>6. ASSUME Elsewhere, ~ \E k \in Key : \E e : Stores(k, e)
      PROVE  \A k \in Key : entries'[k] \in {entries[k], None}
  <2>1. ASSUME NEW k \in Key, NEW present \in BOOLEAN, Commit(k, present)
        PROVE  entries' = entries
    BY <2>1, CommitEffect
  <2>2. ASSUME NEW K \in SUBSET Key, Clears(K)
        PROVE  \A k \in Key : entries'[k] \in {entries[k], None}
    BY <2>2 DEF Clears
  <2> QED
    BY <1>6, <2>1, <2>2 DEF Elsewhere, Inspect, Tick, backend
<1>7. ASSUME NEW r \in Reader, NEW k \in Key, NEW required, Begins(r, k, required)
      PROVE  entries' = entries
  BY <1>7 DEF Begins, backend
<1>8. CASE ReadSteps
  BY <1>2, <1>4, <1>7, <1>8 DEF ReadSteps
<1>9. CASE Elsewhere
  BY <1>2, <1>5, <1>6, <1>9
<1> QED
  BY <1>2, <1>8, <1>9, NextEffect DEF cvars

LEMMA MeetsFrom ==
  ASSUME NEW r \in Reader, NEW k \in Key, NEW kind, NEW version, NEW n \in Nat,
         call'[r].key = k, call'[r].required = n, call'[r].kind = kind,
         call'[r].version = version, n <= Len(history'[k]),
         pc'[r] = "populate" => Has(k, kind, version, n)',
         /\ call'[r].outcome \notin {"none", "raised"} /\ n # 0 /\ policy'.strategy # "none"
         => Has(k, kind, version, n)'
  PROVE  Meets(r)'
  BY DEF Meets, Satisfied, Has, Versions, RowAt

LEMMA MeetsKept ==
  ASSUME TInv, NEW r \in Reader, Meets(r), \A k \in Key : Grows(k), policy' = policy,
         pc'[r] = pc[r], call'[r] = call[r]
  PROVE  Meets(r)'
<1>1. CASE Begun(r)
  <2>0. PICK kind, version : kind = call[r].kind /\ version = call[r].version
    OBVIOUS
  <2>1. PICK k \in Key, n \in Nat :
           /\ k = call[r].key /\ n = call[r].required
           /\ kind = call[r].kind /\ version = call[r].version
    BY <1>1, <2>0, Types DEF TInv
  <2>2. Len(history[k]) \in Nat /\ Len(history'[k]) \in Nat /\ Len(history[k]) <= Len(history'[k])
    BY DEF Grows
  <2>3. n <= Len(history'[k])
    BY <1>1, <2>1, <2>2 DEF Meets
  <2>4. Has(k, kind, version, n) => Has(k, kind, version, n)'
    BY HasKept
  <2> QED
    BY <2>1, <2>3, <2>4, MeetsFrom DEF Meets, Satisfied
<1>2. CASE ~Begun(r)
  BY <1>2 DEF Meets, Begun
<1> QED
  BY <1>1, <1>2

\* A valid entry is in the version the caller requires.
LEMMA ValidEntryMeets ==
  ASSUME TInv, NEW k \in Key, EntryTrue(k), entries[k] # None, NEW n \in Nat, NEW now,
         ValidEntry(entries[k], n, now), n # 0, policy.strategy # "none"
  PROVE  /\ entries[k].kind # "none"
         /\ entries[k].kind = "row" => Has(k, "row", entries[k].version, n)
<1>1. entries[k] \in CacheEntry
  BY Types
<1>2. entries[k].version \in Nat /\ entries[k].version # 0 /\ entries[k].version >= n
  BY <1>1 DEF ValidEntry, VersionValid, CacheEntry
<1>3. ASSUME entries[k].kind = "row"
      PROVE  Has(k, "row", entries[k].version, n)
  <2>1. PICK i \in Versions(k) :
           /\ i >= entries[k].version
           /\ RowAt(k, i) = [kind |-> "row", version |-> entries[k].version]
    BY <1>3 DEF EntryTrue, Has
  <2>2. i >= n
    BY <1>2, <2>1, RowTyped
  <2> QED
    BY <2>1, <2>2 DEF Has
<1> QED
  BY <1>2, <1>3 DEF EntryTrue

LEMMA StepMeets ==
  ASSUME TInv, RInv, MInv, NEW r \in Reader, Steps(r), UNCHANGED world
  PROVE  Meets(r)'
<1>1. PICK k \in Key, n \in Nat : k = call[r].key /\ n = call[r].required
  BY StepBasics, Types
<1>2. Meets(r) /\ Role(r) /\ Begun(r) /\ EntryTrue(k)
  BY StepBasics DEF MInv, RInv, Begun
<1>3. /\ history' = history /\ policy' = policy /\ n <= Len(history[k])
      /\ call'[r].key = k /\ call'[r].required = n
  BY <1>1, <1>2, StepBasics DEF world, Meets, SameRequest
<1>4. ASSUME NEW kind, NEW version, Has(k, kind, version, n)
      PROVE  Has(k, kind, version, n)'
  BY <1>3, <1>4 DEF Has, Versions, RowAt
<1>5. Has(k, RowAt(k, Len(history[k])).kind, RowAt(k, Len(history[k])).version, n)
  BY <1>3, LatestHas
<1>6. CASE pc'[r] # "populate" /\ call'[r].outcome \in {"none", "raised"}
  BY <1>3, <1>6, MeetsFrom
<1>7. ASSUME NEW kind, NEW version, call'[r].kind = kind, call'[r].version = version,
             Has(k, kind, version, n)
      PROVE  Meets(r)'
  BY <1>3, <1>4, <1>7, MeetsFrom
<1>8. CASE Raises(r) \/ Misses(r) \/ Rejects(r) \/ Leads(r) \/ Follows(r) \/ Wakes(r)
  <2>1. pc'[r] # "populate" /\ call'[r].outcome \in {"none", "raised"}
    BY <1>2, <1>8 DEF Raises, Misses, Missed, Rejects, Leads, Follows, Wakes, Moves, Returned, Role
  <2> QED
    BY <1>6, <2>1
<1>9. CASE Bypasses(r)
  BY <1>1, <1>5, <1>7, <1>9 DEF Bypasses, Returned
<1>10. CASE Loads(r)
  BY <1>1, <1>5, <1>7, <1>10 DEF Loads
<1>11. CASE Populates(r)
  BY <1>1, <1>2, <1>7, <1>11 DEF Populates, Returned, Meets
<1>12. CASE Hits(r)
  <2>1. PICK kind, version : kind = call'[r].kind /\ version = call'[r].version
    OBVIOUS
  <2>2. /\ entries[k] # None /\ ValidEntry(entries[k], n, call[r].now)
        /\ pc'[r] # "populate"
        /\ \/ entries[k].kind = "none"
           \/ entries[k].kind = "row" /\ kind = "row" /\ version = entries[k].version
    BY <1>1, <1>12, <2>1 DEF Hits, Returned
  <2>3. n # 0 /\ policy.strategy # "none" => Has(k, kind, version, n)
    BY <1>2, <2>2, ValidEntryMeets
  <2> QED
    BY <1>3, <1>4, <2>1, <2>2, <2>3, MeetsFrom
<1>13. CASE Finishes(r)
  <2>1. PICK kind, version : kind = call'[r].kind /\ version = call'[r].version
    OBVIOUS
  <2>2. /\ kind = call[r].kind /\ version = call[r].version /\ pc'[r] # "populate"
        /\ call'[r].outcome = call[r].outcome
    BY <1>13, <2>1 DEF Finishes, Moves
  <2>3. call'[r].outcome \notin {"none", "raised"} /\ n # 0 /\ policy.strategy # "none"
        => Has(k, kind, version, n)
    BY <1>1, <1>2, <2>2 DEF Meets, Satisfied
  <2> QED
    BY <1>3, <1>4, <2>1, <2>2, <2>3, MeetsFrom
<1> QED
  BY <1>8, <1>9, <1>10, <1>11, <1>12, <1>13 DEF Steps

LEMMA MInvStep ==
  ASSUME TInv, RInv, MInv, [Next]_cvars
  PROVE  MInv'
<1>1. \A k \in Key : EntryTrue(k)'
  BY EntriesStayTrue
<1>2. \A k \in Key : Grows(k)
  BY HistoryGrows
<1>3. \A r \in Reader : Meets(r)
  BY DEF MInv
<1> SUFFICES ASSUME NEW q \in Reader PROVE Meets(q)'
  BY <1>1 DEF MInv
<1>4. ASSUME pc'[q] = pc[q], call'[q] = call[q], policy' = policy
      PROVE  Meets(q)'
  BY <1>2, <1>3, <1>4, MeetsKept
<1>5. ASSUME NEW r \in Reader, Steps(r), UNCHANGED world
      PROVE  Meets(q)'
  <2>1. policy' = policy /\ OthersKept(r)
    BY <1>5, StepBasics DEF world
  <2> QED
    BY <1>4, <1>5, <2>1, StepMeets DEF OthersKept
<1>6. ASSUME NEW r \in Reader, NEW k \in Key, NEW required \in Versions(k) \cup {0},
             Begins(r, k, required)
      PROVE  Meets(q)'
  <2>1. policy' = policy /\ OthersKept(r) /\ history' = history
    BY <1>6 DEF Begins
  <2>2. CASE q = r
    <3>1. required \in Nat /\ required <= Len(history'[k])
      BY <2>1, Types DEF Versions
    <3>2. /\ call'[r].key = k /\ call'[r].required = required
          /\ pc'[r] # "populate" /\ call'[r].outcome = "none"
      BY <1>6 DEF Begins
    <3>3. PICK kind, version : kind = call'[r].kind /\ version = call'[r].version
      OBVIOUS
    <3> QED
      BY <2>2, <3>1, <3>2, <3>3, MeetsFrom
  <2>3. CASE q # r
    BY <1>4, <2>1, <2>3 DEF OthersKept
  <2> QED
    BY <2>2, <2>3
<1>7. Elsewhere => UNCHANGED <<pc, call, policy>>
  BY CommitEffect DEF Elsewhere, Stores, Clears, Inspect, Tick, reading
<1> QED
  BY <1>4, <1>5, <1>6, <1>7, NextEffect DEF ReadSteps, cvars

--------------------------------------------------------------------------------
(***************************************************************************)
(* Staleness, where entries come from reads only.                          *)
(***************************************************************************)
\* The row was as kind and version say at time t or later.
Current(k, kind, version, t) ==
    \E i \in Versions(k) :
        /\ RowAt(k, i) = [kind |-> kind, version |-> version]
        /\ \/ i = Len(history[k])
           \/ history[k][i + 1].since >= t

LEMMA CurrentKept ==
  ASSUME TInv, NEW k \in Key, NEW kind, NEW version, NEW t \in Int, t <= clock,
         Grows(k), Current(k, kind, version, t)
  PROVE  Current(k, kind, version, t)'
<1>1. PICK i \in Versions(k) :
         /\ RowAt(k, i) = [kind |-> kind, version |-> version]
         /\ \/ i = Len(history[k])
            \/ history[k][i + 1].since >= t
  BY DEF Current
<1>2. i \in Nat /\ i \in Versions(k)' /\ RowAt(k, i)' = [kind |-> kind, version |-> version]
  BY <1>1, RowKept
<1>3. i = Len(history'[k]) \/ history'[k][i + 1].since >= t
  <2>1. CASE i = Len(history[k])
    BY <2>1, Types DEF Grows
  <2>2. CASE i # Len(history[k])
    <3>1. i + 1 \in Versions(k)
      BY <2>2, Types DEF Versions
    <3> QED
      BY <1>1, <2>2, <3>1 DEF Grows
  <2> QED
    BY <2>1, <2>2
<1> QED
  BY <1>2, <1>3 DEF Current

LEMMA CurrentBefore ==
  ASSUME TInv, NEW k \in Key, NEW kind, NEW version, NEW t \in Int, NEW u \in Int, u <= t,
         Current(k, kind, version, t)
  PROVE  Current(k, kind, version, u)
<1>1. PICK i \in Versions(k) :
         /\ RowAt(k, i) = [kind |-> kind, version |-> version]
         /\ \/ i = Len(history[k])
            \/ history[k][i + 1].since >= t
  BY DEF Current
<1>2. i = Len(history[k]) \/ history[k][i + 1].since >= u
  <2>1. CASE i # Len(history[k])
    <3>1. i + 1 \in Versions(k)
      BY <2>1, Types DEF Versions
    <3>2. history[k][i + 1].since \in Nat
      BY <3>1, RowTyped DEF Row
    <3> QED
      BY <1>1, <2>1, <3>2
  <2> QED
    BY <2>1
<1> QED
  BY <1>1, <1>2 DEF Current

LEMMA LatestCurrent ==
  ASSUME TInv, NEW k \in Key, NEW t
  PROVE  LET row == RowAt(k, Len(history[k])) IN Current(k, row.kind, row.version, t)
  BY LatestVersion, RowTyped DEF Current

Running == {"get", "drop", "purge", "join", "wait", "load", "populate"}

\* A read dates what it loads by a clock reading taken before.
Fresh(r) ==
    /\ call[r].started <= clock /\ call[r].now <= clock
    /\ pc[r] \in Running => call[r].started <= call[r].now
    /\ pc[r] = "populate" => Current(call[r].key, call[r].kind, call[r].version, call[r].now)
    /\ call[r].outcome \notin {"none", "raised"} =>
          Current(call[r].key, call[r].kind, call[r].version, call[r].started - MaxStaleness)

EntryFresh(k) ==
    entries[k] # None =>
        /\ entries[k].created_at <= clock
        /\ entries[k].kind \in {"row", "none"} =>
              Current(k, entries[k].kind, entries[k].version, entries[k].created_at)

SInv == /\ \A k \in Key : EntryFresh(k)
        /\ \A r \in Reader : Fresh(r)

ReadElsewhere ==
    \/ \E k \in Key, present \in BOOLEAN : Commit(k, present)
    \/ \E k \in Key : \E e : Stores(k, e) /\ e.kind \in {"corrupt", "foreign"}
    \/ Clears(Key)
    \/ Tick

LEMMA ReadElsewhereEffect ==
  ASSUME TInv, ReadNext
  PROVE  ReadSteps \/ ReadElsewhere
<1>1. CASE \E k \in Key, kind \in {"corrupt", "foreign"} : BadEntry(k, kind)
  BY <1>1, BadEntryEffect DEF ReadElsewhere
<1>2. CASE invalidate_after_commit
  BY <1>2, InvalidateEffect DEF ReadElsewhere
<1> QED
  BY <1>1, <1>2, ReadNextEffect DEF Environment, ReadElsewhere

LEMMA ClockGrows ==
  ASSUME TInv, ReadSteps \/ ReadElsewhere \/ UNCHANGED cvars
  PROVE  clock' \in Nat /\ clock <= clock'
<1>1. clock' = clock \/ clock' = clock + 1
  BY CommitEffect DEF ReadSteps, Begins, ReadElsewhere, Stores, Clears, Tick, reading, world, cvars
<1> QED
  BY <1>1, Types

LEMMA EntryStaysFresh ==
  ASSUME TInv, NEW k \in Key, EntryFresh(k), Grows(k), clock <= clock', clock' \in Nat,
         entries'[k] \in {entries[k], None}
  PROVE  EntryFresh(k)'
<1>1. CASE entries'[k] = None
  BY <1>1 DEF EntryFresh
<1>2. CASE entries[k] # None /\ entries'[k] = entries[k]
  <2>1. PICK e \in CacheEntry : e = entries[k]
    BY <1>2, Types
  <2>2. e.created_at \in Int /\ e.created_at <= clock /\ e.created_at <= clock'
    BY <1>2, <2>1, Types DEF EntryFresh, CacheEntry
  <2>3. e.kind \in {"row", "none"} => Current(k, e.kind, e.version, e.created_at)'
    BY <1>2, <2>1, <2>2, CurrentKept DEF EntryFresh
  <2> QED
    BY <1>2, <2>1, <2>2, <2>3 DEF EntryFresh, Current, Versions
<1> QED
  BY <1>1, <1>2

LEMMA EntriesStayFresh ==
  ASSUME TInv, SInv, [ReadNext]_cvars
  PROVE  \A k \in Key : EntryFresh(k)'
<1>1. \A k \in Key : EntryFresh(k) /\ Grows(k)
  BY HistoryGrows DEF SInv, Next
<1>2. clock' \in Nat /\ clock <= clock'
  BY ReadElsewhereEffect, ClockGrows
<1>3. CASE \A k \in Key : entries'[k] \in {entries[k], None}
  BY <1>1, <1>2, <1>3, EntryStaysFresh
<1>4. ASSUME NEW k \in Key, NEW e \in CacheEntry, put(k, e), history' = history,
             e.created_at <= clock,
             e.kind \in {"row", "none"} => Current(k, e.kind, e.version, e.created_at)
      PROVE  \A l \in Key : EntryFresh(l)'
  <2>1. entries'[k] = e /\ \A l \in Key \ {k} : entries'[l] = entries[l]
    BY <1>4, Types DEF put
  <2>2. e.created_at <= clock'
    BY <1>2, <1>4, Types DEF CacheEntry
  <2>3. EntryFresh(k)'
    BY <1>4, <2>1, <2>2 DEF EntryFresh, Current, Versions, RowAt
  <2> QED
    BY <1>1, <1>2, <2>1, <2>3, EntryStaysFresh
<1>5. ASSUME NEW r \in Reader, Steps(r), UNCHANGED world
      PROVE  \A k \in Key : EntryFresh(k)'
  <2>1. call[r].key \in Key /\ TouchesEntry(r) /\ history' = history
    BY <1>5, StepBasics DEF world
  <2>2. CASE delete(call[r].key) \/ UNCHANGED backend
    BY <1>3, <2>1, <2>2, Types DEF delete, backend
  <2>3. CASE pc[r] = "populate" /\ put(call[r].key, Entry(r))
    <3>1. /\ Current(call[r].key, call[r].kind, call[r].version, call[r].now)
          /\ call[r].now <= clock
      BY <2>3 DEF SInv, Fresh
    <3>2. /\ Entry(r) \in CacheEntry
          /\ Entry(r).kind = call[r].kind /\ Entry(r).version = call[r].version
          /\ Entry(r).created_at = call[r].now
      BY <2>3, EntryTyped
    <3> QED
      BY <1>4, <2>1, <2>3, <3>1, <3>2
  <2> QED
    BY <2>1, <2>2, <2>3 DEF TouchesEntry
<1>6. ASSUME NEW k \in Key, NEW e, Stores(k, e), e.kind \in {"corrupt", "foreign"}
      PROVE  \A l \in Key : EntryFresh(l)'
  <2>1. e \in CacheEntry /\ put(k, e) /\ history' = history /\ e.created_at = clock
    BY <1>6 DEF Stores, reading
  <2>2. e.created_at <= clock
    BY <2>1, Types
  <2> QED
    BY <1>4, <1>6, <2>1, <2>2
<1>7. ASSUME NEW k \in Key, NEW present \in BOOLEAN, Commit(k, present)
      PROVE  entries' = entries
  BY <1>7, CommitEffect
<1>8. Clears(Key) => \A k \in Key : entries'[k] \in {entries[k], None}
  BY DEF Clears
<1>9. CASE ReadElsewhere
  BY <1>3, <1>6, <1>7, <1>8, <1>9 DEF ReadElsewhere, Tick, backend
<1>10. ASSUME NEW r \in Reader, NEW k \in Key, NEW required, Begins(r, k, required)
       PROVE  entries' = entries
  BY <1>10 DEF Begins, backend
<1>11. CASE ReadSteps
  BY <1>3, <1>5, <1>10, <1>11 DEF ReadSteps
<1> QED
  BY <1>3, <1>9, <1>11, ReadElsewhereEffect DEF cvars

LEMMA FreshFrom ==
  ASSUME NEW r \in Reader, NEW k \in Key, NEW kind, NEW version, NEW start, NEW now,
         call'[r].key = k, call'[r].kind = kind, call'[r].version = version,
         call'[r].started = start, call'[r].now = now,
         start <= clock', now <= clock', pc'[r] \in Running => start <= now,
         pc'[r] = "populate" => Current(k, kind, version, now)',
         call'[r].outcome \notin {"none", "raised"}
             => Current(k, kind, version, start - MaxStaleness)'
  PROVE  Fresh(r)'
  BY DEF Fresh, Current, Versions, RowAt

LEMMA FreshKept ==
  ASSUME TInv, NEW r \in Reader, Fresh(r), \A k \in Key : Grows(k),
         clock' \in Nat, clock <= clock', pc'[r] = pc[r], call'[r] = call[r]
  PROVE  Fresh(r)'
<1>0. PICK kind, version : kind = call[r].kind /\ version = call[r].version
  OBVIOUS
<1>1. PICK start \in Nat, now \in Nat :
         /\ start = call[r].started /\ now = call[r].now
         /\ kind = call[r].kind /\ version = call[r].version
  BY <1>0, Types
<1>2. /\ start <= clock /\ now <= clock /\ start <= clock' /\ now <= clock'
      /\ start - MaxStaleness \in Int /\ start - MaxStaleness <= clock
      /\ pc'[r] \in Running => start <= now
  BY <1>1, Types, TtlAssumption DEF Fresh
<1>3. CASE Begun(r)
  <2>1. PICK k \in Key : k = call[r].key
    BY <1>3 DEF TInv
  <2>2. Current(k, kind, version, now) => Current(k, kind, version, now)'
    BY <1>2, CurrentKept
  <2>3. Current(k, kind, version, start - MaxStaleness)
        => Current(k, kind, version, start - MaxStaleness)'
    BY <1>2, CurrentKept
  <2> QED
    BY <1>1, <1>2, <2>1, <2>2, <2>3, FreshFrom DEF Fresh
<1>4. CASE ~Begun(r)
  BY <1>1, <1>2, <1>4 DEF Fresh, Begun, Running
<1> QED
  BY <1>3, <1>4

\* A valid entry is not older than the policy allows.
LEMMA ValidEntryFresh ==
  ASSUME TInv, NEW k \in Key, EntryFresh(k), entries[k] # None, entries[k].kind \in {"row", "none"},
         NEW n, NEW start \in Nat, NEW now \in Nat, start <= now, ValidEntry(entries[k], n, now)
  PROVE  Current(k, entries[k].kind, entries[k].version, start - MaxStaleness)
<1>1. entries[k].created_at \in Nat
  BY Types DEF CacheEntry
<1>2. start - MaxStaleness \in Int /\ start - MaxStaleness <= entries[k].created_at
  BY <1>1, TtlAssumption DEF ValidEntry
<1>3. Current(k, entries[k].kind, entries[k].version, entries[k].created_at)
  BY DEF EntryFresh
<1> QED
  BY <1>1, <1>2, <1>3, CurrentBefore

LEMMA StepFresh ==
  ASSUME TInv, RInv, MInv, SInv, NEW r \in Reader, Steps(r), UNCHANGED world
  PROVE  Fresh(r)'
<1>1. PICK k \in Key, start \in Nat : k = call[r].key /\ start = call[r].started
  BY StepBasics, Types
<1>2. PICK now : now = call'[r].now
  OBVIOUS
<1>3. PICK kind, version : kind = call'[r].kind /\ version = call'[r].version
  OBVIOUS
<1> DEFINE t == start - MaxStaleness
<1>4. Fresh(r) /\ Role(r) /\ EntryFresh(k) /\ EntryTrue(k)
  BY DEF SInv, RInv, MInv
<1>5. /\ history' = history /\ clock' = clock /\ clock \in Nat
      /\ call'[r].key = k /\ call'[r].started = start
      /\ start <= clock /\ t \in Int /\ t <= start
  BY <1>1, <1>4, StepBasics, Types, TtlAssumption DEF world, SameRequest, Fresh
<1>6. ASSUME NEW u, Current(k, kind, version, u)
      PROVE  Current(k, kind, version, u)'
  BY <1>5, <1>6 DEF Current, Versions, RowAt
<1> HIDE DEF t
<1>7. ASSUME now <= clock, pc'[r] \in Running => start <= now,
             pc'[r] = "populate" => Current(k, kind, version, now),
             call'[r].outcome \notin {"none", "raised"} => Current(k, kind, version, t)
      PROVE  Fresh(r)'
  BY <1>2, <1>3, <1>5, <1>6, <1>7, FreshFrom DEF t
<1>8. ASSUME call'[r].now = 0, pc'[r] \in {"idle", "finish"},
             call'[r].outcome # "raised" => Current(k, kind, version, t)
      PROVE  Fresh(r)'
  <2>1. now <= clock
    BY <1>2, <1>5, <1>8
  <2> QED
    BY <1>7, <1>8, <2>1 DEF Running
<1>9. CASE Raises(r)
  BY <1>8, <1>9 DEF Raises, Returned
<1>10. CASE Bypasses(r)
  <2>1. Current(k, kind, version, t)
    BY <1>1, <1>3, <1>10, LatestCurrent DEF Bypasses, Returned
  <2> QED
    BY <1>8, <1>10, <2>1 DEF Bypasses, Returned
<1>11. CASE Hits(r)
  <2>1. /\ entries[k] # None /\ ValidEntry(entries[k], call[r].required, call[r].now)
        /\ entries[k].kind \in {"row", "none"} /\ kind = entries[k].kind
        /\ entries[k].kind = "row" => version = entries[k].version
        /\ entries[k].kind = "none" => version = 0
    BY <1>1, <1>3, <1>11 DEF Hits, Returned
  <2>2. version = entries[k].version
    BY <1>4, <2>1 DEF EntryTrue
  <2>3. start <= call[r].now /\ call[r].now \in Nat
    BY <1>1, <1>4, <1>11, Types DEF Hits, Fresh, Running
  <2>4. Current(k, kind, version, t)
    BY <1>4, <2>1, <2>2, <2>3, ValidEntryFresh DEF t
  <2> QED
    BY <1>8, <1>11, <2>4 DEF Hits, Returned
<1>12. CASE Populates(r)
  <2>1. /\ kind = call[r].kind /\ version = call[r].version
        /\ Current(k, kind, version, call[r].now) /\ start <= call[r].now
    BY <1>1, <1>3, <1>4, <1>12 DEF Populates, Returned, Fresh, Running
  <2>2. call[r].now \in Int /\ t <= call[r].now
    BY <1>5, <2>1, Types
  <2>3. Current(k, kind, version, t)
    BY <1>5, <2>1, <2>2, CurrentBefore
  <2> QED
    BY <1>8, <1>12, <2>3 DEF Populates, Returned
<1>13. CASE Loads(r)
  <2>1. /\ Current(k, kind, version, now) /\ now = call[r].now /\ call'[r].outcome = "none"
        /\ now <= clock /\ start <= now
    BY <1>1, <1>2, <1>3, <1>4, <1>13, LatestCurrent DEF Loads, Moves, Fresh, Running, Role
  <2> QED
    BY <1>7, <2>1
<1>14. CASE Misses(r) \/ Rejects(r) \/ Leads(r) \/ Follows(r) \/ Wakes(r)
  <2>1. /\ now = call[r].now \/ now = clock
        /\ pc[r] \in Running /\ pc'[r] # "populate" /\ call'[r].outcome = "none"
    BY <1>2, <1>4, <1>14 DEF Misses, Missed, Rejects, Leads, Follows, Wakes, Moves, Running, Role
  <2>2. now <= clock /\ start <= now
    BY <1>1, <1>4, <1>5, <2>1 DEF Fresh
  <2> QED
    BY <1>7, <2>1, <2>2
<1>15. CASE Finishes(r)
  <2>1. /\ now = call[r].now /\ kind = call[r].kind /\ version = call[r].version
        /\ pc'[r] = "idle" /\ call'[r].outcome = call[r].outcome
    BY <1>2, <1>3, <1>15 DEF Finishes, Moves
  <2>2. /\ now <= clock
        /\ call'[r].outcome \notin {"none", "raised"} => Current(k, kind, version, t)
    BY <1>1, <1>4, <2>1 DEF Fresh, t
  <2> QED
    BY <1>7, <2>1, <2>2 DEF Running
<1> QED
  BY <1>9, <1>10, <1>11, <1>12, <1>13, <1>14, <1>15 DEF Steps

LEMMA SInvStep ==
  ASSUME TInv, RInv, MInv, SInv, [ReadNext]_cvars
  PROVE  SInv'
<1>1. \A k \in Key : EntryFresh(k)'
  BY EntriesStayFresh
<1>2. \A k \in Key : Grows(k)
  BY HistoryGrows DEF Next
<1>3. clock' \in Nat /\ clock <= clock' /\ \A r \in Reader : Fresh(r)
  BY ReadElsewhereEffect, ClockGrows DEF SInv
<1> SUFFICES ASSUME NEW q \in Reader PROVE Fresh(q)'
  BY <1>1 DEF SInv
<1>4. ASSUME pc'[q] = pc[q], call'[q] = call[q]
      PROVE  Fresh(q)'
  BY <1>2, <1>3, <1>4, FreshKept
<1>5. ASSUME NEW r \in Reader, Steps(r), UNCHANGED world
      PROVE  Fresh(q)'
  <2>1. OthersKept(r)
    BY <1>5, StepBasics
  <2> QED
    BY <1>4, <1>5, <2>1, StepFresh DEF OthersKept
<1>6. ASSUME NEW r \in Reader, NEW k \in Key, NEW required, Begins(r, k, required)
      PROVE  Fresh(q)'
  <2>1. /\ OthersKept(r) /\ call'[r].started = clock /\ call'[r].now = clock
        /\ clock' = clock /\ pc'[r] # "populate" /\ call'[r].outcome = "none"
    BY <1>6 DEF Begins
  <2>2. CASE q = r
    <3>1. clock <= clock
      BY Types
    <3> QED
      BY <2>1, <2>2, <3>1 DEF Fresh
  <2>3. CASE q # r
    BY <1>4, <2>1, <2>3 DEF OthersKept
  <2> QED
    BY <2>2, <2>3
<1>7. ReadElsewhere => UNCHANGED <<pc, call>>
  BY CommitEffect DEF ReadElsewhere, Stores, Clears, Tick, reading
<1> QED
  BY <1>4, <1>5, <1>6, <1>7, ReadElsewhereEffect DEF ReadSteps, cvars

--------------------------------------------------------------------------------
LEMMA InitInv ==
  ASSUME CInit
  PROVE  RInv /\ SingleFlight /\ UInv /\ MInv /\ SInv
<1>1. RInv
  BY DEF CInit, RInv, Role, Excused, NoCall
<1>2. SingleFlight
  BY NamesAssumption DEF CInit, SingleFlight
<1>3. UInv
  BY DEF CInit, UInv, GivenOut, Identified
<1>4. MInv
  BY DEF CInit, MInv, EntryTrue, Meets, Begun, NoCall
<1>5. SInv
  BY DEF CInit, SInv, EntryFresh, Fresh, Running, NoCall
<1> QED
  BY <1>1, <1>2, <1>3, <1>4, <1>5

CInv == TInv /\ RInv /\ SingleFlight /\ UInv /\ MInv

LEMMA CInvHolds == CacheSpec => []CInv
<1>1. CInit => CInv
  BY TInvInit, InitInv DEF CInv
<1>2. CInv /\ [ReadNext \/ ExplicitNext]_cvars => CInv'
  BY TInvStep, RInvStep, FlightsStep, UInvStep, MInvStep DEF CInv, Next
<1> QED
  BY <1>1, <1>2, PTL DEF CacheSpec

(***************************************************************************)
(* The state keeps its types whatever readers, clients, the source and a   *)
(* failing backend do.                                                     *)
(***************************************************************************)
THEOREM CacheTypes == CacheSpec => []CTypeOK
<1>1. CInv => CTypeOK
  BY DEF CInv, TInv
<1> QED
  BY <1>1, CInvHolds, PTL

(***************************************************************************)
(* A key never has two leaders and no flight stays open: the finally       *)
(* clause of read closes it however the call ends.                         *)
(***************************************************************************)
THEOREM FlightsSound == CacheSpec => []SingleFlight
<1>1. CInv => SingleFlight
  BY DEF CInv
<1> QED
  BY <1>1, CInvHolds, PTL

(***************************************************************************)
(* With fallback_on_error, a read never raises because the cache does.     *)
(***************************************************************************)
THEOREM OutagesHidden == CacheSpec => []OutageTransparent
<1>1. CInv => OutageTransparent
  BY DEF CInv, RInv, Excused, OutageTransparent
<1> QED
  BY <1>1, CInvHolds, PTL

(***************************************************************************)
(* compare_and_set replaces the entry its caller inspected or nothing.     *)
(***************************************************************************)
THEOREM VersionsIdentify == CacheSpec => []EntryVersionUnique
<1>1. ASSUME CInv PROVE EntryVersionUnique
  <2>1. \A c \in Client : token[c] # None => token[c].key \in Key
    BY <1>1, Types DEF CInv
  <2> QED
    BY <1>1, <2>1 DEF CInv, UInv, Identified, EntryVersionUnique
<1> QED
  BY <1>1, CInvHolds, PTL

(***************************************************************************)
(* A read that requires a version never answers with an older row, from    *)
(* whatever entry it answers.                                              *)
(***************************************************************************)
THEOREM RequiredMet == CacheSpec => []RequiredVersionMet
<1>1. CInv => RequiredVersionMet
  BY DEF CInv, MInv, Meets, Satisfied, Has, RequiredVersionMet, Answered
<1> QED
  BY <1>1, CInvHolds, PTL

(***************************************************************************)
(* Where entries are made by reads, no answer is older than                *)
(* maximum_staleness, although any invalidation may get lost.              *)
(***************************************************************************)
THEOREM StalenessBounded == ReadSpec => []BoundedStaleness
<1> DEFINE Inv == CInv /\ SInv
<1>1. CInit => Inv
  BY TInvInit, InitInv DEF CInv
<1>2. Inv /\ [ReadNext]_cvars => Inv'
  BY TInvStep, RInvStep, FlightsStep, UInvStep, MInvStep, SInvStep DEF CInv, Next
<1>3. Inv => BoundedStaleness
  BY DEF SInv, Fresh, Current, BoundedStaleness, Answered
<1> QED
  BY <1>1, <1>2, <1>3, PTL DEF ReadSpec
================================================================================
