------------------------------ MODULE Discovery ------------------------------
(***************************************************************************)
(* Discovery of sources behind a cache of locators                         *)
(* (retrieval/discovery.py, discovery_cache.py): a search is captured and  *)
(* interpreted, its receipt and capture are artifacts, and a shared cache  *)
(* remembers where the receipt of a request is.  Nothing is believed of    *)
(* the cache: it may be unreachable, lose or keep values past their time,  *)
(* or hold any value; the clocks of its users differ.                      *)
(***************************************************************************)
EXTENDS Integers, Sequences, FiniteSets

CONSTANTS
  Queries,
  Inventories,   \* the identities that a provider may list, in its order
  Limit,         \* of the candidates of a request
  Searchers,     \* workers that share the cache
  Skew,          \* searcher -> how far its clock is ahead
  CacheAge,      \* the age a cached receipt may have (24 h)
  SearchTime,    \* a search may take this long (30 s)
  Missing,
  MaxHour, MaxSearches   \* bounds: ticks and searches begun

ASSUME DiscoveryAssumption ==
  /\ {Limit, CacheAge, SearchTime, MaxHour, MaxSearches} \subseteq Nat
  /\ Missing \notin Queries
  /\ Skew \in [Searchers -> Int]
  /\ \A items \in Inventories : items = [i \in 1 .. Len(items) |-> items[i]] /\ Len(items) \in Nat

VARIABLES
  hour,
  receipts,    \* the receipts published, in order
  captures,    \* those whose capture can still be read
  locators,    \* query -> the position of the receipt that was remembered
  search,      \* the search of each worker
  searches

discoveryVars == <<hour, receipts, captures, locators, search, searches>>

NoSearch == [pc |-> "idle", query |-> Missing, read |-> "miss", at |-> 0, until |-> 0,
             delivered |-> Missing]

InitDiscovery ==
  /\ hour = 0
  /\ receipts = <<>> /\ captures = {}
  /\ locators = [q \in Queries |-> Missing]
  /\ search = [w \in Searchers |-> NoSearch]
  /\ searches = 0

\* The candidates in the order of the provider, each identity once; its rank is its position.
CandidatesOf(items) ==
  {<<i, items[i]>> : i \in {j \in DOMAIN items : \A k \in 1 .. j - 1 : items[k] # items[j]}}

\* _interpret(): a failure of the capture counts before anything it contains.
Interpret(capture) ==
  IF capture.failure # "none" THEN <<capture.failure, {}>>
  ELSE IF capture.http # 200 THEN <<"http_error", {}>>
  ELSE IF ~capture.readable \/ Len(capture.items) > Limit THEN <<"invalid_response", {}>>
  ELSE <<"success", CandidatesOf(capture.items)>>

\* What a search may bring: an answer, or its prefix.
CapturesOf ==
  [http : {200}, failure : {"none"}, readable : {TRUE}, items : Inventories]
  \cup [http : {200}, failure : {"none"}, readable : {FALSE}, items : {<<>>}]
  \cup [http : {503}, failure : {"none", "transport_error"}, readable : {TRUE}, items : {<<>>}]
  \cup [http : {200}, failure : {"response_too_large"}, readable : {TRUE}, items : {<<>>}]

Receipt(w, query, at, capture) ==
  [query |-> query, at |-> at, capture |-> capture,
   status |-> Interpret(capture)[1], candidates |-> Interpret(capture)[2]]

Clock(w) == hour + Skew[w]

\* The slip of not asking whose receipt a locator names.
UsableForAny(w, query, receipt) ==
  /\ receipt.status = "success"
  /\ receipt.at \in Clock(w) - CacheAge .. Clock(w)

\* A replayed success of the same request, at most a day old by one's own clock.
Usable(w, query, receipt) ==
  /\ receipt.query = query
  /\ receipt.status = "success"
  /\ receipt.at \in Clock(w) - CacheAge .. Clock(w)

\* External: what the cache says of a key.  It may have dropped the value, or hold one that was meant
\* for another key, or is no locator.
Served(query) == {locators[query], Missing} \cup 0 .. Len(receipts)

\* cached_discover() up to its search: what the cache names is replayed; without it the search is
\* made.
LookUp(w, query) ==
  /\ search[w].pc = "idle" /\ searches < MaxSearches
  /\ searches' = searches + 1
  /\ \E read \in {"hit", "miss", "invalid", "unavailable"}, named \in Served(query) :
       LET fetching == [NoSearch EXCEPT !.pc = "searching", !.query = query, !.read = read,
                                        !.at = Clock(w), !.until = hour + SearchTime]
           good == named \in captures /\ Usable(w, query, receipts[named])
       IN /\ read = "miss" => named = Missing
          /\ read = "invalid" => named # Missing /\ ~good
          /\ read = "hit" => named # Missing /\ good
          /\ search' = [search EXCEPT ![w] =
               IF read = "hit"
               THEN [NoSearch EXCEPT !.pc = "delivered", !.query = query, !.read = read,
                                     !.at = Clock(w), !.delivered = named]
               ELSE fetching]
  /\ UNCHANGED <<hour, receipts, captures, locators>>

\* discover(): the receipt of the capture is published; its time is that of the start.
Search(w) ==
  /\ search[w].pc = "searching"
  /\ \E capture \in CapturesOf :
       receipts' = Append(receipts, Receipt(w, search[w].query, search[w].at, capture))
  /\ captures' = captures \cup {Len(receipts) + 1}
  /\ search' = [search EXCEPT ![w].pc = "caching", ![w].delivered = Len(receipts) + 1]
  /\ UNCHANGED <<hour, locators, searches>>

\* Only a success is remembered, if the cache can be reached.
Remember(w) ==
  LET named == search[w].delivered IN
  /\ search[w].pc = "caching"
  /\ \/ UNCHANGED locators
     \/ /\ receipts[named].status = "success"
        /\ locators' = [locators EXCEPT ![search[w].query] = named]
  /\ search' = [search EXCEPT ![w].pc = "delivered", ![w].at = Clock(w)]
  /\ UNCHANGED <<hour, receipts, captures, searches>>

\* The caller has its answer, or the worker stopped before it had one.
EndSearch(w) ==
  /\ search[w].pc # "idle"
  /\ search' = [search EXCEPT ![w] = NoSearch]
  /\ UNCHANGED <<hour, receipts, captures, locators, searches>>

LoseCapture(i) ==
  /\ i \in captures /\ captures = DOMAIN receipts   \* bound: one capture
  /\ captures' = captures \ {i}
  /\ UNCHANGED <<hour, receipts, locators, search, searches>>

PassHour ==
  /\ hour < MaxHour
  /\ \A w \in Searchers : /\ search[w].pc \in {"searching", "caching"} => hour < search[w].until
                          /\ search[w].pc # "delivered"
  /\ hour' = hour + 1
  /\ UNCHANGED <<receipts, captures, locators, search, searches>>

NextDiscovery ==
  \/ \E w \in Searchers :
       Search(w) \/ Remember(w) \/ EndSearch(w) \/ \E query \in Queries : LookUp(w, query)
  \/ \E i \in captures : LoseCapture(i)
  \/ PassHour

-----------------------------------------------------------------------------

\* Whatever the cache holds, what is delivered answers the request: it was retrieved for it, by this
\* call or as a success within a day by the clock of the worker, and its candidates are those of the
\* capture, in order and each once (retrieval/discovery_cache.py:40-87, discovery.py:66-170).
DiscoveryAnswersRequest ==
  \A w \in Searchers :
    search[w].pc = "delivered" =>
      LET r == receipts[search[w].delivered] IN
      /\ r.query = search[w].query
      /\ search[w].read = "hit" =>
           /\ search[w].at - r.at \in 0 .. CacheAge
           /\ r.capture.failure = "none" /\ r.capture.http = 200
      /\ search[w].read # "hit" => search[w].at - r.at <= SearchTime
      /\ r.candidates # {} =>
           /\ Cardinality(r.candidates) = Cardinality({c[2] : c \in r.candidates})
           /\ {c[2] : c \in r.candidates} = {r.capture.items[i] : i \in DOMAIN r.capture.items}
=============================================================================
