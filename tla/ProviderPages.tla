---------------------------- MODULE ProviderPages ----------------------------
(***************************************************************************)
(* How the token transfers a wallet sent are collected from an explorer    *)
(* (ethereum.py EvmScanClient, tron.py TronGridClient) and how much of the *)
(* wallet's history a collection claims to hold (adapters.py _coverage).   *)
(* Collectors are coroutines that share one client: its cache and, for the *)
(* EVM chains, the lock that spaces the requests.  The explorer pages its  *)
(* newest records first; it may answer late, refuse, or fail, and it       *)
(* learns of new records while a collection is under way.                  *)
(***************************************************************************)
EXTENDS Amounts, SequencesExt

CONSTANTS
  Address,
  Caller,        \* the coroutines that collect, one collection at a time
  NoCaller,      \* the lock is free
  Scenes,        \* the worlds considered: a client, a ledger, what the callers ask
  PageCap,       \* the most records on a page (100)
  MaxAttempts,   \* settings.provider_retry_attempts
  MinInterval,   \* settings.etherscan_min_interval_seconds, in ticks
  CacheLife      \* settings.provider_cache_seconds, in ticks

Record == [tx : Nat, source : Address, destination : Address, amount : Nat, token : BOOLEAN]

ASSUME PagesAssumption ==
  /\ PageCap \in Nat \ {0} /\ MaxAttempts \in Nat \ {0}
  /\ MinInterval \in Nat /\ CacheLife \in Nat
  /\ NoCaller \notin Caller
  /\ \A s \in Scenes : /\ s.client \in {"evm", "tron", "unavailable"}
                      /\ s.ledger \in Seq(Record) /\ s.known \in 0 .. Len(s.ledger)
                      /\ s.pages \in Nat \ {0}

VARIABLES
  scene,     \* the world: never changes; scene.pages is settings.max_provider_pages
  known,     \* how many records of the ledger the explorer has, oldest first
  holder,    \* who holds the client's request lock
  idle,      \* ticks since the client's last request ended, up to MinInterval
  cache,     \* by wallet and limit: age, records, coverage, records known then
  fetch      \* the collection of each caller

pageVars == <<scene, known, holder, idle, cache, fetch>>

Rec(i) == scene.ledger[i]

\* The members of a finite set in an order, given by those that come before each of them.
Listing(before) ==
  [k \in 1 .. Cardinality(DOMAIN before) |-> CHOOSE i \in DOMAIN before : Cardinality(before[i]) = k - 1]

NewestFirst(S) == Listing([i \in S |-> {j \in S : j > i}])

\* The elements of s at the places S.
At(s, S) == LET places == Listing([i \in S |-> {j \in S : j < i}]) IN [k \in DOMAIN places |-> s[places[k]]]

\* The records the explorer lists for a wallet, newest first: an EVM explorer lists
\* what the wallet received too, TronGrid is asked for what it sent (only_from).
Listed(w) == {i \in 1 .. known : Rec(i).source = w \/ (scene.client = "evm" /\ Rec(i).destination = w)}

History(w) == NewestFirst(Listed(w))

\* The records of another token, or of money received, are dropped.
Accepted(w, i) == Rec(i).token /\ Rec(i).source = w
AcceptedOf(w, page) == At(page, {k \in DOMAIN page : Accepted(w, page[k])})

NoFetch == [at |-> "idle"]

Begin(w, limit) ==
  [at |-> "ask", wallet |-> w, limit |-> limit, pages |-> 0, attempt |-> 1,
   got |-> << >>, cursor |-> Len(scene.ledger) + 1, asof |-> known]

\* misread: its last answer was an error that was taken for an empty page.
Result(w, got, coverage, asof, pages, misread) ==
  [at |-> "done", wallet |-> w, got |-> got, coverage |-> coverage, asof |-> asof, pages |-> pages, misread |-> misread]

PagesInit ==
  /\ scene \in Scenes
  /\ known = scene.known /\ holder = NoCaller /\ idle = MinInterval
  /\ cache = << >>
  /\ fetch = [c \in Caller |-> NoFetch]

----------------------------------------------------------------------------
\* outgoing_erc20_transfers, outgoing_trc20_transfers: a cached answer that is not too
\* old, or the first page.  A client without a key, or of a chain that has no adapter,
\* raises.
Retrieve(c, w, limit) ==
  LET key == <<w, limit>> IN
  /\ fetch' = [fetch EXCEPT ![c] =
       IF scene.client = "unavailable" THEN [at |-> "raised"]
       ELSE IF key \in DOMAIN cache /\ cache[key].age <= CacheLife
       THEN Result(w, cache[key].got, cache[key].coverage, cache[key].asof, cache[key].pages, cache[key].misread)
       ELSE Begin(w, limit)]
  /\ UNCHANGED <<scene, known, holder, idle, cache>>

\* The page's size shrinks with the transfers accepted so far.
Offset(f) == Least(PageCap, f.limit - Len(f.got))

\* Slip: the cursor is not sent on.
PageSlip(f) ==
  LET skip == IF scene.client = "evm" THEN f.pages * Offset(f) ELSE 0
  IN  SubSeq(History(f.wallet), skip + 1, Least(Len(History(f.wallet)), skip + Offset(f)))

\* TronGrid resumes at a cursor.
Paged(f) == {i \in Listed(f.wallet) : scene.client = "evm" \/ i < f.cursor}

\* An EVM explorer counts pages of the size asked for.
Page(f) ==
  LET all == NewestFirst(Paged(f))
      skip == IF scene.client = "evm" THEN f.pages * Offset(f) ELSE 0
  IN  SubSeq(all, skip + 1, Least(Len(all), skip + Offset(f)))

\* The cursor of an answer: TronGrid names one if there are more records, and may name one
\* after a full page.
Cursors(f, page) ==
  {more \in BOOLEAN :
     IF scene.client = "evm" THEN ~more
     ELSE IF more THEN Cardinality(Paged(f)) > Len(page) \/ Len(page) = Offset(f)
     ELSE Cardinality(Paged(f)) <= Len(page)}

\* The loop goes on after a page.
GoesOn(f, page, cursor) ==
  /\ IF scene.client = "evm" THEN Len(page) = Offset(f) ELSE cursor /\ page # << >>
  /\ f.pages + 1 < scene.pages
  /\ Len(f.got \o AcceptedOf(f.wallet, page)) < f.limit

\* Slip: an incomplete acquisition is bounded only if the limit was reached.
CoverageSlip(f, page, cursor, count) ==
  IF count >= f.limit THEN "BOUNDED" ELSE "COMPLETE"

\* _coverage, from the truncation flags the two clients set.
Coverage(f, page, cursor, count) ==
  LET truncated == IF scene.client = "evm" THEN f.pages + 1 >= scene.pages /\ count >= f.limit ELSE cursor
      has_more  == IF scene.client = "evm" THEN Len(page) = Offset(f) ELSE cursor
  IN  CASE truncated -> "PROVIDER_TRUNCATED"
        [] ~truncated /\ (has_more \/ count >= f.limit) -> "BOUNDED"
        [] OTHER -> "COMPLETE"

\* The loop ends with the transfers got, and the collection is cached.
Finish(c, got, coverage, misread) ==
  LET f == fetch[c]
      key == <<f.wallet, f.limit>>
      entry == [age |-> 0, got |-> got, coverage |-> coverage, asof |-> f.asof, pages |-> f.pages + 1, misread |-> misread]
  IN  /\ fetch' = [fetch EXCEPT ![c] = Result(f.wallet, got, coverage, f.asof, f.pages + 1, misread)]
      /\ cache' = [k \in DOMAIN cache \cup {key} |-> IF k = key THEN entry ELSE cache[k]]

\* A page has come: its transfers are kept, and the loop goes on or ends.
Receive(c, page, cursor) ==
  LET f == fetch[c]
      got == f.got \o AcceptedOf(f.wallet, page)
  IN  IF GoesOn(f, page, cursor)
      THEN /\ fetch' = [fetch EXCEPT ![c] =
                [f EXCEPT !.at = "ask", !.pages = @ + 1, !.attempt = 1, !.got = got,
                          !.cursor = IF page = << >> THEN @ ELSE Last(page)]]
           /\ UNCHANGED cache
      ELSE Finish(c, got, Coverage(f, page, cursor, Len(got)), FALSE)

----------------------------------------------------------------------------
\* Slip: the lock is let go before the request.
TakeLockSlip(c) ==
  /\ fetch[c].at = "ask" /\ scene.client = "evm"
  /\ fetch' = [fetch EXCEPT ![c].at = "pacing"]
  /\ UNCHANGED <<scene, known, holder, idle, cache>>

\* EvmScanClient._get_page: the lock is held through the pause and the request.
TakeLock(c) ==
  /\ fetch[c].at = "ask" /\ scene.client = "evm"
  /\ holder = NoCaller
  /\ holder' = c
  /\ fetch' = [fetch EXCEPT ![c].at = "pacing"]
  /\ UNCHANGED <<scene, known, idle, cache>>

Send(c) ==
  /\ IF scene.client = "evm" THEN fetch[c].at = "pacing" /\ idle >= MinInterval ELSE fetch[c].at = "ask"
  /\ fetch' = [fetch EXCEPT ![c].at = "sent"]
  /\ UNCHANGED <<scene, known, holder, idle, cache>>

\* The request has ended, well or not: the moment is noted and the lock is let go.
EndRequest ==
  IF scene.client = "evm" THEN holder' = NoCaller /\ idle' = 0 ELSE UNCHANGED <<holder, idle>>

AnswerPage(c) ==
  /\ fetch[c].at = "sent"
  /\ \E page \in {Page(fetch[c])} : \E cursor \in Cursors(fetch[c], page) : Receive(c, page, cursor)
  /\ EndRequest
  /\ UNCHANGED <<scene, known>>

\* An error in a body that neither client takes for one: TronGrid's, whose body is not
\* looked at, or one of an EVM explorer whose status is not "0".  It is read as an empty
\* page without a cursor, and the loop ends.
AnswerMisread(c) ==
  LET f == fetch[c] IN
  /\ f.at = "sent"
  /\ Finish(c, f.got, Coverage(f, << >>, FALSE, Len(f.got)), TRUE)
  /\ EndRequest
  /\ UNCHANGED <<scene, known>>

\* Slip: the attempts are not counted.
RefusedSlip(f) == [f EXCEPT !.at = "backoff", !.attempt = 0]

\* No connection, HTTP 429 or 5xx, or a rate limit named in the body: another attempt
\* after a pause, as long as there are attempts left.
Refused(f) == IF f.attempt < MaxAttempts THEN [f EXCEPT !.at = "backoff"] ELSE [at |-> "raised"]

AnswerRefused(c) ==
  /\ fetch[c].at = "sent"
  /\ fetch' = [fetch EXCEPT ![c] = Refused(@)]
  /\ EndRequest
  /\ UNCHANGED <<scene, known, cache>>

\* Another HTTP error, a body that is no JSON, a body of an EVM explorer with status "0":
\* no retry.
AnswerInvalid(c) ==
  /\ fetch[c].at = "sent"
  /\ fetch' = [fetch EXCEPT ![c] = [at |-> "raised"]]
  /\ EndRequest
  /\ UNCHANGED <<scene, known, cache>>

BackoffEnds(c) ==
  /\ fetch[c].at = "backoff"
  /\ fetch' = [fetch EXCEPT ![c].at = "ask", ![c].attempt = @ + 1]
  /\ UNCHANGED <<scene, known, holder, idle, cache>>

\* Time passes: idle counts up to MinInterval, a cached answer ages past CacheLife.
Tick ==
  /\ idle < MinInterval \/ \E k \in DOMAIN cache : cache[k].age <= CacheLife
  /\ idle' = Least(MinInterval, idle + 1)
  /\ cache' = [k \in DOMAIN cache |-> [cache[k] EXCEPT !.age = Least(CacheLife + 1, @ + 1)]]
  /\ UNCHANGED <<scene, known, holder, fetch>>

\* The explorer comes to know the ledger's next record.
Confirm ==
  /\ known < Len(scene.ledger)
  /\ known' = known + 1
  /\ UNCHANGED <<scene, holder, idle, cache, fetch>>

FetchStep(c) ==
  \/ TakeLock(c) \/ Send(c) \/ AnswerPage(c) \/ AnswerMisread(c) \/ AnswerRefused(c) \/ AnswerInvalid(c) \/ BackoffEnds(c)

----------------------------------------------------------------------------
\* An answer that claims to be complete holds every transfer of the token the wallet had
\* sent when the collection began, whatever pages shrank, answers were repeated and
\* records arrived in between, from the cache or not, unless an error was taken for its
\* last page: then it claims as much and may hold anything (adapters.py, _coverage).
CompleteMeansAll ==
  \A c \in Caller : fetch[c].at = "done" /\ fetch[c].coverage = "COMPLETE" /\ ~fetch[c].misread =>
    \A i \in 1 .. fetch[c].asof : Accepted(fetch[c].wallet, i) => \E k \in DOMAIN fetch[c].got : fetch[c].got[k] = i

\* The requests of an EVM client are at least MinInterval apart, from the end of one to
\* the start of the next, whoever sends them and however the last one ended
\* (ethereum.py, _get_page).
Paced ==
  \A c \in Caller : scene.client = "evm" /\ fetch[c].at = "sent" =>
    idle >= MinInterval /\ \A d \in Caller \ {c} : fetch[d].at # "sent"
=============================================================================
