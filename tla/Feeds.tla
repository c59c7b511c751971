--------------------------------- MODULE Feeds ---------------------------------
(***************************************************************************)
(* One feed: who claims it, the fetches made of it, and what a fetch       *)
(* stores (backend/app/feeds/service.py, ingestion.py and routes.py, the   *)
(* step of backend/app/scheduler.py and the actor of jobs/ingestion.py).   *)
(*                                                                         *)
(* The address serves a sequence of entries, and answers "not modified" to *)
(* a validator that is not older than what it serves: a Last-Modified is   *)
(* the time the answer it came with was published, an ETag stands for that *)
(* answer of that address alone.                                           *)
(*                                                                         *)
(* A fetch is known by its claim token.  Its message may be lost, held up  *)
(* for as long as the lease, or delivered twice; its worker may die.       *)
(***************************************************************************)
EXTENDS Naturals, Sequences, Leasing

CONSTANTS
  FetchTokens,      \* bounds the fetches remembered at one time
  Addresses,        \* the feed's addresses, the first one among them
  FirstAddress,
  LastEdition,      \* bounds the times an address publishes something new
  ETags,            \* the addresses give ETags, no Last-Modified
  Editions,         \* what an address serves: [Addresses -> [0..LastEdition -> Seq(Entries)]]
  Entries,
  GuidOf,           \* the guid of each entry
  ArticleOf         \* its normalized URL; None when that URL cannot be read

Settled == {"success", "failed"}
Statuses == {"queued"} \cup Settled

ASSUME FeedConstants ==
  /\ None \notin FetchTokens \cup Statuses \cup Entries
  /\ FirstAddress \in Addresses
  /\ LastEdition \in Nat /\ ETags \in BOOLEAN
  /\ Editions \in [Addresses -> [0..LastEdition -> Seq(Entries)]]

VARIABLES
  feed,             \* Feed
  fetch,            \* the FeedFetch rows: the status of each token's
  sender,           \* who claimed a fetch and has not come back from sending its message
  letters,          \* the messages under way
  fetcher,          \* the worker of each fetch
  edition,          \* what the addresses serve now
  archive           \* the articles' titles, the FeedArticle rows, what was requested

feedVars == <<feed, fetch, sender, letters, fetcher, edition, archive>>

FeedArticles == {ArticleOf[e] : e \in Entries} \ {None}
Attempts == 3

\* etag and last_modified are one validator.  next_poll_at is left out: who claims a feed
\* does not ask for it.
FeedRows ==
  [enabled : BOOLEAN, retired : BOOLEAN, leased : BOOLEAN, fullText : BOOLEAN,
   token : FetchTokens \cup {None}, address : Addresses,
   validator : [of : Addresses, edition : 0..LastEdition] \cup {None}]

\* The scheduler, or a user's request (fetch_now); the queue has taken the message, or not.
Senders == [by : {"scheduler", "poll"}, sent : BOOLEAN]

NoFetcher == [pc |-> "idle", attempt |-> 0, address |-> FirstAddress,
              answer |-> [kind |-> None, edition |-> 0]]

FeedTypeOK ==
  /\ feed \in FeedRows
  /\ fetch \in [FetchTokens -> Statuses \cup {None}]
  /\ sender \in [FetchTokens -> Senders \cup {None}]
  /\ letters \subseteq FetchTokens
  /\ \A t \in FetchTokens : fetcher[t].attempt \in 0..Attempts
  /\ edition \in [Addresses -> 0..LastEdition]
  /\ \A d \in archive.discoveries : archive.title[d.article] # None

FeedInit ==
  /\ feed \in [enabled : {TRUE}, retired : {FALSE}, leased : {FALSE},
               fullText : BOOLEAN, token : {None}, address : {FirstAddress}, validator : {None}]
  /\ fetch = [t \in FetchTokens |-> None]
  /\ sender = [t \in FetchTokens |-> None]
  /\ letters = {}
  /\ fetcher = [t \in FetchTokens |-> NoFetcher]
  /\ edition = [u \in Addresses |-> 0]
  /\ archive = [title |-> [a \in FeedArticles |-> None], discoveries |-> {},
                requested |-> [a \in FeedArticles |-> None], pages |-> {}]

-----------------------------------------------------------------------------
(* The site, the clock, and the user's requests. *)

OnlyFeed == UNCHANGED <<fetch, sender, letters, fetcher, edition, archive>>

PublishEdition(u) ==
  /\ edition[u] < LastEdition
  /\ edition' = [edition EXCEPT ![u] = @ + 1]
  /\ UNCHANGED <<feed, fetch, sender, letters, fetcher, archive>>

FeedLeaseExpires == feed.leased /\ feed' = [feed EXCEPT !.leased = FALSE] /\ OnlyFeed

\* update_feed: any column but the claim.
SwitchFeed == ~feed.retired /\ feed' = [feed EXCEPT !.enabled = ~@] /\ OnlyFeed

Readdress(u) ==
  ~feed.retired /\ u # feed.address /\ feed' = [feed EXCEPT !.address = u] /\ OnlyFeed

FeedReleased(row) == [row EXCEPT !.token = None, !.leased = FALSE]

\* retire_feed.
Retire ==
  /\ ~feed.retired
  /\ feed' = [FeedReleased(feed) EXCEPT !.retired = TRUE, !.enabled = FALSE]
  /\ OnlyFeed

-----------------------------------------------------------------------------
(* The claim of a fetch and its message. *)

Collecting == feed.enabled /\ ~feed.retired

Forgettable(t) ==
  /\ fetch[t] # "queued"
  /\ feed.token # t
  /\ sender[t] = None
  /\ t \notin letters
  /\ fetcher[t].pc = "idle"

\* claim_feed ends the fetch it replaces, unless it has finished.
Ended(statuses, replaced) ==
  [t \in FetchTokens |-> IF t = replaced /\ statuses[t] = "queued" THEN "failed" ELSE statuses[t]]

\* claim_feed, for a user or for the scheduler, which found the feed due in an earlier
\* transaction: the claim does not ask for that again, so it may come at any time.  With
\* a lease that runs, the fetch in hand is answered and nothing changes.
ClaimFeed(t, by) ==
  /\ Collecting
  /\ ~feed.leased
  /\ Forgettable(t)
  /\ fetch' = [Ended(fetch, feed.token) EXCEPT ![t] = "queued"]
  /\ feed' = [feed EXCEPT !.token = t, !.leased = TRUE]
  /\ sender' = [sender EXCEPT ![t] = [by |-> by, sent |-> FALSE]]
  /\ UNCHANGED <<letters, fetcher, edition, archive>>

SendFetch(t) ==
  /\ sender[t] # None
  /\ ~sender[t].sent
  /\ letters' = letters \cup {t}
  /\ sender' = [sender EXCEPT ![t].sent = TRUE]
  /\ UNCHANGED <<feed, fetch, fetcher, edition, archive>>

\* send raises: the queue refused the message, or took it and did not answer, and the
\* message may have been delivered by now.  fetch_now ends the fetch whatever has become
\* of it and of the claim, the scheduler only while the claim holds.
SendFails(t) ==
  /\ sender[t] # None
  /\ fetch' = IF sender[t].by = "poll" \/ feed.token = t
              THEN [fetch EXCEPT ![t] = "failed"] ELSE fetch
  /\ feed' = IF feed.token = t THEN FeedReleased(feed) ELSE feed
  /\ sender' = [sender EXCEPT ![t] = None]
  /\ UNCHANGED <<letters, fetcher, edition, archive>>

\* send returns, or the process that claimed the fetch dies, before or after it sends.
SenderLeaves(t) ==
  /\ sender[t] # None
  /\ sender' = [sender EXCEPT ![t] = None]
  /\ UNCHANGED <<feed, fetch, letters, fetcher, edition, archive>>

\* Lost with the queue, or its worker waited for the host's lock in vain.
LoseLetter(t) ==
  /\ t \in letters
  /\ letters' = letters \ {t}
  /\ UNCHANGED <<feed, fetch, sender, fetcher, edition, archive>>

\* ingest_feed starts; the message may come again.
StartFetcher(t) ==
  /\ t \in letters
  /\ fetcher[t].pc = "idle"
  /\ letters' \in {letters, letters \ {t}}
  /\ fetcher' = [fetcher EXCEPT ![t] = [NoFetcher EXCEPT !.pc = "starts", !.attempt = 1]]
  /\ UNCHANGED <<feed, fetch, sender, edition, archive>>

-----------------------------------------------------------------------------
(* The worker. *)

EndFetcher(t) == fetcher' = [fetcher EXCEPT ![t] = NoFetcher]

FetcherDies(t) ==
  /\ fetcher[t].pc # "idle"
  /\ EndFetcher(t)
  /\ UNCHANGED <<feed, fetch, sender, letters, edition, archive>>

\* Mutant: a finished fetch is ended again.
AbandonedAlways(statuses, t) == [statuses EXCEPT ![t] = "failed"]

\* _abandon.
Abandoned(statuses, t) ==
  [statuses EXCEPT ![t] = IF @ \in Settled THEN @ ELSE "failed"]

HoldsFeed(t) == Collecting /\ feed.token = t

\* What fetch_feed_http may bring: the edition, "not modified", or an error that is
\* worth another attempt or not (_category).
Unmodified(address, validator) ==
  /\ validator # None /\ validator.edition >= edition[address]
  /\ ETags => validator.of = address

AnswersTo(address, validator) ==
  [kind : {"transient", "permanent", IF Unmodified(address, validator) THEN "unchanged" ELSE "read"},
   edition : {edition[address]}]

\* ingest_claim, an attempt up to the answer.
AskAddress(t) ==
  /\ fetcher[t].pc = "starts"
  /\ HoldsFeed(t)
  /\ \E answer \in AnswersTo(feed.address, feed.validator) :
       fetcher' = [fetcher EXCEPT ![t].pc = "answered", ![t].answer = answer,
                                  ![t].address = feed.address]
  /\ UNCHANGED <<feed, fetch, sender, letters, edition, archive>>

GiveUp(t) ==
  /\ fetcher[t].pc = "starts"
  /\ ~HoldsFeed(t)
  /\ fetch' = Abandoned(fetch, t)
  /\ EndFetcher(t)
  /\ UNCHANGED <<feed, sender, letters, edition, archive>>

\* Mutant: a title that another entry changed is not taken to the index.
StoredQuietly(kept, entry, pages) ==
  LET article   == ArticleOf[entry]
      isNew     == article # None /\ kept.title[article] = None
      conflicts == \E d \in kept.discoveries : d.article = article \/ d.guid = GuidOf[entry]
  IN IF article = None THEN kept ELSE
     [title       |-> [kept.title EXCEPT ![article] = entry],
      discoveries |-> IF conflicts THEN kept.discoveries
                      ELSE kept.discoveries \cup {[article |-> article, guid |-> GuidOf[entry]]},
      requested   |-> IF conflicts /\ ~isNew THEN kept.requested
                      ELSE [kept.requested EXCEPT ![article] = entry],
      pages       |-> IF pages /\ ~conflicts THEN kept.pages \cup {article} ELSE kept.pages]

\* One entry of _persist_success: the article, its discovery in this feed (a feed has
\* an article once and a guid once), and what is asked for: its page when the feed
\* reads pages, and its processing and its document when something changed.  An
\* article's title is the entry it came from.
Stored(kept, entry, pages) ==
  LET article   == ArticleOf[entry]
      changed   == article # None /\ kept.title[article] # entry
      conflicts == \E d \in kept.discoveries : d.article = article \/ d.guid = GuidOf[entry]
  IN IF article = None THEN kept ELSE
     [title       |-> [kept.title EXCEPT ![article] = entry],
      discoveries |-> IF conflicts THEN kept.discoveries
                      ELSE kept.discoveries \cup {[article |-> article, guid |-> GuidOf[entry]]},
      requested   |-> IF conflicts /\ ~changed THEN kept.requested
                      ELSE [kept.requested EXCEPT ![article] = entry],
      pages       |-> IF pages /\ ~conflicts THEN kept.pages \cup {article} ELSE kept.pages]

\* _persist_success over the entries of an answer, in their order.
StoredInTurn(kept, entries, pages) ==
  LET after[i \in 0..Len(entries)] ==
        IF i = 0 THEN kept ELSE Stored(after[i - 1], entries[i], pages)
  IN after[Len(entries)]

\* _persist_success: everything in one transaction; _finish_unchanged has no entries.
Persist(t) ==
  LET answer == fetcher[t].answer
  IN /\ fetcher[t].pc = "answered"
     /\ answer.kind \in {"read", "unchanged"}
     /\ EndFetcher(t)
     /\ IF HoldsFeed(t) /\ feed.leased
        THEN /\ archive' = IF answer.kind = "unchanged" THEN archive
               ELSE StoredInTurn(archive, Editions[fetcher[t].address][answer.edition], feed.fullText)
             /\ fetch' = [fetch EXCEPT ![t] = "success"]
             /\ feed' = [FeedReleased(feed) EXCEPT
                  !.validator = IF answer.kind = "unchanged" THEN @
                                ELSE [of |-> fetcher[t].address, edition |-> answer.edition]]
        ELSE fetch' = Abandoned(fetch, t) /\ UNCHANGED <<feed, archive>>
     /\ UNCHANGED <<sender, letters, edition>>

\* A transient error before the last attempt.
TryAgain(t) ==
  /\ fetcher[t].pc = "answered"
  /\ fetcher[t].answer.kind = "transient"
  /\ fetcher[t].attempt < Attempts
  /\ fetcher' = [fetcher EXCEPT ![t].pc = "starts", ![t].attempt = @ + 1, ![t].answer = NoFetcher.answer]
  /\ UNCHANGED <<feed, fetch, sender, letters, edition, archive>>

\* _finish_failure; a lease that ran out and was not taken is as good.
FetchFails(t) ==
  /\ fetcher[t].pc = "answered"
  /\ \/ fetcher[t].answer.kind = "permanent"
     \/ fetcher[t].answer.kind = "transient" /\ fetcher[t].attempt = Attempts
  /\ EndFetcher(t)
  /\ IF feed.token = t
     THEN /\ fetch' = [fetch EXCEPT ![t] = "failed"]
          /\ feed' = FeedReleased(feed)
     ELSE UNCHANGED <<feed, fetch>>
  /\ UNCHANGED <<sender, letters, edition, archive>>

FeedNext ==
  \/ \E u \in Addresses : PublishEdition(u) \/ Readdress(u)
  \/ FeedLeaseExpires \/ SwitchFeed \/ Retire
  \/ \E t \in FetchTokens :
       \/ \E by \in {"scheduler", "poll"} : ClaimFeed(t, by)
       \/ SendFetch(t) \/ SendFails(t) \/ SenderLeaves(t) \/ LoseLetter(t)
       \/ StartFetcher(t) \/ AskAddress(t) \/ GiveUp(t)
       \/ Persist(t) \/ TryAgain(t) \/ FetchFails(t) \/ FetcherDies(t)

-----------------------------------------------------------------------------
(* What should hold. *)

\* "A fetch in any other status is still owed an outcome" (feeds/models.py:60): whoever
\* died and whatever was lost, a fetch without one is the one the feed's claim names,
\* which the next claim ends; only a retired feed has no next claim.
OwedFetchIsClaimed ==
  \A t \in FetchTokens : fetch[t] = "queued" => feed.token = t \/ feed.retired

AwaitedByUser(t) == sender[t] # None /\ sender[t].by = "poll"

\* A success stays one, unless the user's request that asked for the fetch is still on its
\* way back: neither a redelivered message, nor a worker whose claim was replaced, nor a
\* send of the scheduler's that fails late records it as a failure (_abandon,
\* scheduler.py:87).  The request itself does, when its send fails late (fetch_now).  A
\* failure may still become a success: a feed switched off and on keeps its claim.
SuccessIsFinal ==
  [][\A t \in FetchTokens :
       fetch[t] = "success" /\ ~AwaitedByUser(t) => fetch'[t] # "failed"]_feedVars

\* No success is ever recorded as a failure, the user's requests included: a fetch fails
\* with "queue" when "its message could not be queued" (feeds/service.py:65), and a fetch
\* that succeeded had its message.  Feeds_overwritten.cfg shows that this does not hold.
EverySuccessIsFinal ==
  [][\A t \in FetchTokens : fetch[t] = "success" => fetch'[t] # "failed"]_feedVars

\* Both: a fetch without an outcome is one the next claim ends, and a success is the last
\* word on a fetch that no user's request still awaits.
FetchesEndOnce == []OwedFetchIsClaimed /\ SuccessIsFinal

\* The entries the address need not serve again are stored: while it answers "not
\* modified", the last entry it serves of an article gave the article its title, and
\* processing and document were asked for with that title (_persist_success).
SkippedWasRead ==
  Unmodified(feed.address, feed.validator) =>
    LET entries == Editions[feed.address][edition[feed.address]]
    IN \A i \in DOMAIN entries :
         LET article == ArticleOf[entries[i]]
         IN /\ article # None
            /\ \A j \in DOMAIN entries : j > i => ArticleOf[entries[j]] # article
            => archive.title[article] = entries[i] /\ archive.requested[article] = entries[i]
=============================================================================
