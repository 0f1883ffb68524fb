--------------------------- MODULE ProtectedCache ---------------------------
(***************************************************************************)
(* shared/db/redis.go: GetCacheWithProtection and what else touches its    *)
(* key.  Processes share a Redis key that caches one row; the calls of a   *)
(* process for the key run as one flight (singleflight), which looks into  *)
(* Redis, asks the data source and fills the key.  Whoever changes the row *)
(* then removes the key or sets it; nobody in the repository calls these   *)
(* yet, so that the callers are external.                                  *)
(***************************************************************************)
EXTENDS Naturals

CONSTANTS
  Processes,  \* that have an EasyRedis
  Readers, Writers,  \* goroutines that read, and that change the row
  Deleted,    \* versions at which there is no row
  Unencodable, \* versions that are no JSON
  MaxWrites,  \* bound on the changes of the row
  Nothing,    \* the value of a row that is not there
  Placeholder, \* what the cache has for it
  Empty       \* what the cache has for a value that is no JSON

ASSUME CacheAssumption ==
  /\ MaxWrites \in Nat /\ Deleted \subseteq 0 .. MaxWrites /\ Nothing \notin Nat
  /\ Placeholder \notin Nat \union {Nothing} /\ Empty \notin Nat \union {Nothing, Placeholder}

VARIABLES
  version,  \* of the row
  cache,    \* the key: a value, who set it, whether it expires
  flight,   \* flight[p]: the call in flight in process p
  reader,   \* reader[r]: a call of GetCacheWithProtection
  writer    \* writer[w]: a change that has not been told to Redis

cacheVars == <<version, cache, flight, reader, writer>>

Versions == 0 .. MaxWrites
Value(v) == IF v \in Deleted THEN Nothing ELSE v
Values == Versions \union {Nothing}
Cached(v) == IF v = Nothing THEN Placeholder
             ELSE IF v \in Unencodable THEN Empty ELSE v
CachedValues == Versions \union {Placeholder, Empty}
Key(v, by, expires) == [set |-> TRUE, val |-> v, by |-> by, expires |-> expires]
NoKey == [set |-> FALSE, val |-> Placeholder, by |-> "fill", expires |-> TRUE]
NoFlight == [pc |-> "none", val |-> Nothing]

(* For the properties: the values the row has had since the call, and      *)
(* whether nobody held an older one when it was made.                      *)
Returned == [pc |-> "idle", at |-> Nothing, got |-> Nothing, seen |-> {}, settled |-> FALSE]

CacheInit ==
  /\ version = 0
  /\ cache = NoKey
  /\ flight = [p \in Processes |-> NoFlight]
  /\ reader = [r \in Readers |-> Returned]
  /\ writer = [w \in Writers |-> Nothing]

(* Nobody holds a value that the row no longer has. *)
Settled ==
  /\ cache.set => cache.val = Cached(Value(version))
  /\ \A p \in Processes : flight[p].pc = "fill" => flight[p].val = Value(version)
  /\ \A w \in Writers : writer[w] \in {Nothing, version}

-----------------------------------------------------------------------------
(* GetCacheWithProtection                                                  *)

(* The call joins the flight of its process, or is one. *)
Call(r, p) ==
  /\ reader[r].pc \in {"idle", "answered"}
  /\ reader' = [reader EXCEPT ![r] =
       [pc |-> "waits", at |-> p, got |-> Nothing, seen |-> {Value(version)},
        settled |-> Settled]]
  /\ flight' = [flight EXCEPT ![p] =
       IF @.pc = "none" THEN [pc |-> "get", val |-> Nothing] ELSE @]
  /\ UNCHANGED <<version, cache, writer>>

(* The flight ends, and everybody in it gets what it got. *)
Answer(p, v) ==
  /\ flight' = [flight EXCEPT ![p] = NoFlight]
  /\ reader' = [r \in Readers |->
       IF reader[r].pc = "waits" /\ reader[r].at = p
       THEN [reader[r] EXCEPT !.pc = "answered", !.got = v] ELSE reader[r]]

NoAnswer(p) ==
  /\ flight' = [flight EXCEPT ![p] = NoFlight]
  /\ reader' = [r \in Readers |->
       IF reader[r].pc = "waits" /\ reader[r].at = p THEN Returned ELSE reader[r]]

(* An error, or the process dies: nobody gets a value. *)
Fails(p) ==
  /\ flight[p].pc # "none"
  /\ NoAnswer(p)
  /\ UNCHANGED <<version, cache, writer>>

(* A hit, the placeholder for a row that is not there included; a miss or  *)
(* any error of Redis.  An empty string is an error for the whole flight.  *)
GetCache(p) ==
  /\ flight[p].pc = "get"
  /\ \/ /\ cache.set
        /\ IF cache.val = Empty THEN NoAnswer(p)
           ELSE Answer(p, IF cache.val = Placeholder THEN Nothing ELSE cache.val)
     \/ flight' = [flight EXCEPT ![p].pc = "fallback"] /\ UNCHANGED reader
  /\ UNCHANGED <<version, cache, writer>>

(* Mutant: a data source that fails is taken for a row that is not there.  *)
FallbackUnchecked(p) ==
  /\ flight[p].pc = "fallback"
  /\ \E v \in {Value(version), Nothing} :
       flight' = [flight EXCEPT ![p] = [pc |-> "fill", val |-> v]]
  /\ UNCHANGED <<version, cache, reader, writer>>

Fallback(p) ==
  /\ flight[p].pc = "fallback"
  /\ flight' = [flight EXCEPT ![p] = [pc |-> "fill", val |-> Value(version)]]
  /\ UNCHANGED <<version, cache, reader, writer>>

(* Mutant: the key is set without an expiry.                               *)
FillForGood(p) ==
  /\ flight[p].pc = "fill"
  /\ cache' \in {cache, Key(Cached(flight[p].val), "fill", FALSE)}
  /\ Answer(p, flight[p].val)
  /\ UNCHANGED <<version, writer>>

(* The caller says when the placeholder expires, and none is said with a   *)
(* number that is not positive; a value expires.  Neither an error of Set  *)
(* nor one of Marshal is looked at.                                        *)
Fill(p) ==
  LET v == flight[p].val IN
  /\ flight[p].pc = "fill"
  /\ cache' \in {cache} \union
       {Key(Cached(v), "fill", expires) : expires \in IF v = Nothing THEN BOOLEAN ELSE {TRUE}}
  /\ Answer(p, v)
  /\ UNCHANGED <<version, writer>>

-----------------------------------------------------------------------------
(* The other side.                                                         *)

Write(w) ==
  /\ writer[w] = Nothing /\ version < MaxWrites
  /\ version' = version + 1
  /\ writer' = [writer EXCEPT ![w] = version + 1]
  /\ reader' = [r \in Readers |->
       IF reader[r].pc = "waits"
       THEN [reader[r] EXCEPT !.seen = @ \union {Value(version + 1)}] ELSE reader[r]]
  /\ UNCHANGED <<cache, flight>>

Done(w) == writer' = [writer EXCEPT ![w] = Nothing]

(* RemoveKeyCache, RemoveParentKeyCache; or it (or SetCache) fails, or the *)
(* writer dies.                                                            *)
RemoveKeyCache(w) ==
  /\ writer[w] # Nothing /\ Done(w)
  /\ cache' \in {cache, NoKey}
  /\ UNCHANGED <<version, flight, reader>>

(* SetCache: without an expiry, and an error for what is no JSON. *)
SetCache(w) ==
  /\ writer[w] # Nothing /\ Done(w)
  /\ Value(writer[w]) \notin Unencodable \union {Nothing}
  /\ cache' = Key(Value(writer[w]), "SetCache", FALSE)
  /\ UNCHANGED <<version, flight, reader>>

KeyExpires ==
  /\ cache.set /\ cache.expires
  /\ cache' = NoKey
  /\ UNCHANGED <<version, flight, reader, writer>>

Flight(p) == GetCache(p) \/ Fallback(p) \/ Fill(p)

CacheNext ==
  \/ \E r \in Readers, p \in Processes : Call(r, p)
  \/ \E p \in Processes : Flight(p) \/ Fails(p)
  \/ \E w \in Writers : Write(w) \/ RemoveKeyCache(w) \/ SetCache(w)
  \/ KeyExpires

(* Goroutines run, Redis answers or times out, keys expire. *)
CacheFairness ==
  /\ \A p \in Processes : WF_cacheVars(Flight(p))
  /\ \A w \in Writers : WF_cacheVars(RemoveKeyCache(w) \/ SetCache(w))
  /\ WF_cacheVars(KeyExpires)

CacheSpec == CacheInit /\ [][CacheNext]_cacheVars /\ CacheFairness

-----------------------------------------------------------------------------
(* Every variable has its type.                                            *)
CacheTypeOK ==
  /\ version \in Versions
  /\ cache \in [set : BOOLEAN, val : CachedValues,
             by : {"fill", "SetCache"}, expires : BOOLEAN]
  /\ flight \in [Processes -> [pc : {"none", "get", "fallback", "fill"}, val : Values]]
  /\ reader \in [Readers ->
       [pc : {"idle", "waits", "answered"}, at : Processes \union {Nothing},
        got : Values, seen : SUBSET Values, settled : BOOLEAN]]
  /\ writer \in [Writers -> Versions \union {Nothing}]

(* redis.go:297-343: when nobody holds an outdated value, a call gets a    *)
(* value that the row has while the call lasts: outdated ones come from    *)
(* what is under way when the row changes, never from a failed look-up.    *)
AnswerIsRecent ==
  \A r \in Readers :
    reader[r].pc = "answered" /\ reader[r].settled => reader[r].got \in reader[r].seen

(* redis.go:326-340: a value that the row no longer has leaves the cache   *)
(* again, whichever of fill, change and removal came last, if it was not   *)
(* put there with SetCache, which sets no expiry, and is no placeholder    *)
(* that a caller wanted without one.                                       *)
CacheGetsCurrent ==
  <>[](cache.set /\ cache.by = "fill" /\ (cache.val # Placeholder \/ cache.expires)
         => cache.val = Cached(Value(version)))

(* redis.go:331: the placeholder is cached for a short time.  It does not  *)
(* hold: the caller's 0 is no expiry.                                      *)
PlaceholderIsShort ==
  <>[](cache.set /\ cache.val = Placeholder => Value(version) = Nothing)

(* redis.go:75-86: the same of a key that SetCache has set.  It does not   *)
(* hold: two writers may set theirs in the other order, and nothing        *)
(* removes it.                                                             *)
SetCacheGetsCurrent ==
  <>[](cache.set => cache.val = Cached(Value(version)))
=============================================================================
