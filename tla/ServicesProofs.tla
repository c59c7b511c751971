---------------------------- MODULE ServicesProofs -----------------------------
(***************************************************************************)
(* Proofs about the services beside the pipeline, each for itself and then *)
(* together: the fetches of Feeds and what they let the feed skip, for any *)
(* number of fetches remembered, any addresses, entries and editions; the  *)
(* counts of Watches, for any finite set of articles, any criteria,        *)
(* evaluators and bounds, as long as the index keeps up with the archive;  *)
(* the history of a process of Processes, for any things, rows and hours;  *)
(* the runs of Wikidata, for any roots, items, claims and batches; the     *)
(* lists and numbers of Readings, for any archive, requests and sizes.     *)
(***************************************************************************)
EXTENDS MCServices, FiniteSetTheorems, SequenceTheorems,
        WellFoundedInduction, TLAPS

-----------------------------------------------------------------------------
(* Induction over a loop: a set of numbers that has 0 and each next one has all. *)

LEMMA MinimalNumber ==
  ASSUME NEW R, \A k, m \in Nat : k < m => <<k, m>> \in R, IsWellFoundedOn(R, Nat),
         NEW T, T \subseteq Nat, T # {}
  PROVE  \E m \in T : \A k \in T : m <= k
<1>1. \E m \in T : \A k \in T : ~(<<k, m>> \in R)
  BY ONLY WFMin, IsWellFoundedOn(R, Nat), T \subseteq Nat, T # {}
<1>2. \E m \in T : \A k \in T : ~(k < m)  BY <1>1, Zenon
<1>. QED  BY ONLY <1>2, T \subseteq Nat

LEMMA LeastNumber ==
  ASSUME NEW T, T \subseteq Nat, T # {}
  PROVE  \E m \in T : \A k \in T : m <= k
<1>1. \E R : IsWellFoundedOn(R, Nat) /\ \A k, m \in Nat : k < m => <<k, m>> \in R
  BY NatLessThanWellFounded DEF OpToRel
<1>. QED  BY <1>1, MinimalNumber

LEMMA AllNumbers ==
  ASSUME NEW S, 0 \in S, \A n \in Nat : n \in S => n + 1 \in S
  PROVE  Nat \subseteq S
<1>1. SUFFICES ASSUME Nat \ S # {}
               PROVE  FALSE
  OBVIOUS
<1>2. PICK m \in Nat \ S : \A k \in Nat \ S : m <= k  BY <1>1, LeastNumber
<1>3. m - 1 \in Nat  BY <1>2
<1>4. m - 1 \in S  BY <1>2, <1>3
<1>. QED  BY <1>3, <1>4, <1>2

-----------------------------------------------------------------------------
(* Fetches. *)

FeedSpec == FeedInit /\ [][FeedNext]_feedVars

Answers == [kind : {"transient", "permanent", "unchanged", "read", None}, edition : 0..LastEdition]

Fetchers ==
  [pc : {"idle", "starts", "answered"}, attempt : 0..Attempts, address : Addresses, answer : Answers]

\* FeedTypeOK but for what is stored, and with what the workers hold.
ClaimsTypeOK ==
  /\ feed \in FeedRows
  /\ fetch \in [FetchTokens -> Statuses \cup {None}]
  /\ sender \in [FetchTokens -> Senders \cup {None}]
  /\ letters \subseteq FetchTokens
  /\ fetcher \in [FetchTokens -> Fetchers]
  /\ edition \in [Addresses -> 0..LastEdition]

\* A claim is given up with its fetch's success, by the same transaction.
ClaimIsOfAnOpenFetch == \A t \in FetchTokens : feed.token = t => fetch[t] # "success"

FetchesAreAccounted ==
  ClaimsTypeOK /\ OwedFetchIsClaimed /\ ClaimIsOfAnOpenFetch

\* A success stays one in this step, unless a user's request still awaits the fetch.
KeepsSuccesses ==
  \A t \in FetchTokens : fetch[t] = "success" /\ ~AwaitedByUser(t) => fetch'[t] # "failed"

-----------------------------------------------------------------------------
LEMMA FetcherUpdates ==
  ASSUME NEW row \in Fetchers
  PROVE  /\ [row EXCEPT !.pc = "starts", !.attempt = 1] \in Fetchers
         /\ \A address \in Addresses, answer \in Answers :
              [row EXCEPT !.pc = "answered", !.answer = answer, !.address = address] \in Fetchers
         /\ \A attempt \in 0..Attempts, answer \in Answers :
              [row EXCEPT !.pc = "starts", !.attempt = attempt, !.answer = answer] \in Fetchers
<1>1. [row EXCEPT !.pc = "starts", !.attempt = 1] \in Fetchers
  <2>1. 1 \in 0..Attempts
    BY DEF Attempts
  <2> QED
    BY <2>1 DEF Fetchers
<1>2. ASSUME NEW address \in Addresses, NEW answer \in Answers
      PROVE  [row EXCEPT !.pc = "answered", !.answer = answer, !.address = address] \in Fetchers
  BY DEF Fetchers
<1>3. ASSUME NEW attempt \in 0..Attempts, NEW answer \in Answers
      PROVE  [row EXCEPT !.pc = "starts", !.attempt = attempt, !.answer = answer] \in Fetchers
  BY DEF Fetchers
<1> QED
  BY <1>1, <1>2, <1>3

LEMMA FetcherTypes ==
  ASSUME ClaimsTypeOK, NEW t \in FetchTokens
  PROVE  /\ NoFetcher \in Fetchers /\ NoFetcher.pc = "idle"
         /\ [NoFetcher EXCEPT !.pc = "starts", !.attempt = 1] \in Fetchers
         /\ \A address \in Addresses, answer \in Answers :
              [fetcher[t] EXCEPT !.pc = "answered", !.answer = answer, !.address = address]
                \in Fetchers
         /\ fetcher[t].attempt < Attempts =>
              [fetcher[t] EXCEPT !.pc = "starts", !.attempt = @ + 1, !.answer = NoFetcher.answer]
                \in Fetchers
<1>1. fetcher[t] \in Fetchers
  BY DEF ClaimsTypeOK
<1>2. NoFetcher.answer \in Answers
  BY FeedConstants DEF NoFetcher, Answers
<1>3. NoFetcher \in Fetchers /\ NoFetcher.pc = "idle"
  BY FeedConstants DEF NoFetcher, Fetchers, Answers, Attempts
<1> HIDE DEF NoFetcher
<1>4. fetcher[t].attempt < Attempts => fetcher[t].attempt + 1 \in 0..Attempts
  BY <1>1 DEF Fetchers, Attempts
<1> QED
  BY <1>1, <1>2, <1>3, <1>4, FetcherUpdates

\* The feed's row changes in its schedule and settings, not in its claim.
LEMMA SettingsStep ==
  ASSUME FetchesAreAccounted,
         FeedLeaseExpires \/ SwitchFeed \/ Retire
           \/ \E u \in Addresses : Readdress(u)
  PROVE  FetchesAreAccounted' /\ KeepsSuccesses
<1>1. UNCHANGED <<fetch, sender, letters, fetcher, edition>>
  BY DEF FeedLeaseExpires, SwitchFeed, Retire, Readdress, OnlyFeed
<1>2. feed \in FeedRows
  BY DEF FetchesAreAccounted, ClaimsTypeOK
<1>3. /\ feed' \in FeedRows
      /\ \/ feed'.token = feed.token /\ feed'.retired = feed.retired
         \/ feed'.token = None /\ feed'.retired = TRUE
  <2>2. ASSUME NEW leased \in BOOLEAN, feed' = [feed EXCEPT !.leased = leased]
        PROVE  feed' \in FeedRows /\ feed'.token = feed.token /\ feed'.retired = feed.retired
    BY <1>2, <2>2 DEF FeedRows
  <2>3. ASSUME feed' = [feed EXCEPT !.enabled = ~@]
        PROVE  feed' \in FeedRows /\ feed'.token = feed.token /\ feed'.retired = feed.retired
    BY <1>2, <2>3 DEF FeedRows
  <2>4. ASSUME NEW u \in Addresses, feed' = [feed EXCEPT !.address = u]
        PROVE  feed' \in FeedRows /\ feed'.token = feed.token /\ feed'.retired = feed.retired
    BY <1>2, <2>4 DEF FeedRows
  <2>5. ASSUME feed' = [FeedReleased(feed) EXCEPT !.retired = TRUE, !.enabled = FALSE]
        PROVE  feed' \in FeedRows /\ feed'.token = None /\ feed'.retired = TRUE
    BY <1>2, <2>5 DEF FeedRows, FeedReleased
  <2> QED
    BY <2>2, <2>3, <2>4, <2>5 DEF FeedLeaseExpires, SwitchFeed, Retire, Readdress
<1>4. ClaimIsOfAnOpenFetch'
  BY <1>1, <1>3, FeedConstants DEF FetchesAreAccounted, ClaimIsOfAnOpenFetch
<1> QED
  BY <1>1, <1>3, <1>4 DEF FetchesAreAccounted, ClaimsTypeOK, OwedFetchIsClaimed, KeepsSuccesses

\* _abandon writes one fetch, and no success.
LEMMA AbandonedIs ==
  ASSUME ClaimsTypeOK, NEW t \in FetchTokens
  PROVE  /\ Abandoned(fetch, t) \in [FetchTokens -> Statuses \cup {None}]
         /\ Abandoned(fetch, t)[t] \in Settled
         /\ fetch[t] = "success" <=> Abandoned(fetch, t)[t] = "success"
         /\ \A u \in FetchTokens : u # t => Abandoned(fetch, t)[u] = fetch[u]
<1>1. fetch \in [FetchTokens -> Statuses \cup {None}]
  BY DEF ClaimsTypeOK
<1>2. /\ Abandoned(fetch, t) \in [FetchTokens -> Statuses \cup {None}]
      /\ Abandoned(fetch, t)[t] = IF fetch[t] \in Settled THEN fetch[t] ELSE "failed"
      /\ \A u \in FetchTokens : u # t => Abandoned(fetch, t)[u] = fetch[u]
  BY <1>1 DEF Abandoned, Statuses, Settled
<1> QED
  BY <1>2 DEF Settled

LEMMA ReleasedIs ==
  ASSUME feed \in FeedRows
  PROVE  /\ FeedReleased(feed) \in FeedRows /\ FeedReleased(feed).token = None
         /\ FeedReleased(feed).retired = feed.retired
         /\ \A v \in [of : Addresses, edition : 0..LastEdition] \cup {None} :
              LET row == [FeedReleased(feed) EXCEPT !.validator = v]
              IN row \in FeedRows /\ row.token = None /\ row.retired = feed.retired
<1>1. /\ FeedReleased(feed) \in FeedRows /\ FeedReleased(feed).token = None
      /\ FeedReleased(feed).retired = feed.retired
  BY DEF FeedReleased, FeedRows
<1>2. ASSUME NEW v \in [of : Addresses, edition : 0..LastEdition] \cup {None}, NEW row \in FeedRows
      PROVE  LET new == [row EXCEPT !.validator = v]
             IN new \in FeedRows /\ new.token = row.token /\ new.retired = row.retired
  BY DEF FeedRows
<1> QED
  BY <1>1, <1>2

LEMMA ClaimStep ==
  ASSUME FetchesAreAccounted, NEW t \in FetchTokens, NEW by \in {"scheduler", "poll"},
         ClaimFeed(t, by)
  PROVE  FetchesAreAccounted' /\ KeepsSuccesses
<1>1. /\ feed \in FeedRows /\ fetch \in [FetchTokens -> Statuses \cup {None}]
      /\ sender \in [FetchTokens -> Senders \cup {None}]
  BY DEF FetchesAreAccounted, ClaimsTypeOK
<1>2. /\ feed.token # t /\ ~feed.retired /\ t \notin letters /\ fetcher[t].pc = "idle"
      /\ UNCHANGED <<letters, fetcher, edition>>
      /\ fetch' = [Ended(fetch, feed.token) EXCEPT ![t] = "queued"]
      /\ feed' = [feed EXCEPT !.token = t, !.leased = TRUE]
      /\ sender' = [sender EXCEPT ![t] = [by |-> by, sent |-> FALSE]]
  BY DEF ClaimFeed, Collecting, Forgettable
<1>3. /\ feed' \in FeedRows /\ feed'.token = t /\ feed'.retired = feed.retired
  BY <1>1, <1>2 DEF FeedRows
<1>4. sender' \in [FetchTokens -> Senders \cup {None}]
  <2>1. [by |-> by, sent |-> FALSE] \in Senders  BY DEF Senders
  <2> QED
    BY <1>1, <1>2, <2>1
<1>5. /\ fetch' \in [FetchTokens -> Statuses \cup {None}] /\ fetch'[t] = "queued"
      /\ \A u \in FetchTokens : u # t =>
           fetch'[u] = IF u = feed.token /\ fetch[u] = "queued" THEN "failed" ELSE fetch[u]
  BY <1>1, <1>2 DEF Ended, Statuses, Settled
<1>6. ClaimsTypeOK'
  BY <1>2, <1>3, <1>4, <1>5 DEF FetchesAreAccounted, ClaimsTypeOK
<1>7. OwedFetchIsClaimed'
  <2>1. \A u \in FetchTokens : fetch'[u] = "queued" => u = t
    BY <1>2, <1>5 DEF FetchesAreAccounted, OwedFetchIsClaimed
  <2> QED
    BY <1>3, <2>1 DEF OwedFetchIsClaimed
<1>8. ClaimIsOfAnOpenFetch'
  BY <1>3, <1>5 DEF ClaimIsOfAnOpenFetch
<1>9. KeepsSuccesses
  BY <1>5 DEF KeepsSuccesses
<1> QED
  BY <1>6, <1>7, <1>8, <1>9 DEF FetchesAreAccounted

\* What becomes of a message; only a send that fails ends its fetch.
LEMMA MessageStep ==
  ASSUME FetchesAreAccounted, NEW t \in FetchTokens,
         SendFetch(t) \/ SenderLeaves(t) \/ LoseLetter(t)
  PROVE  FetchesAreAccounted' /\ KeepsSuccesses
<1>1. /\ UNCHANGED <<feed, fetch, fetcher, edition>>
      /\ letters' \subseteq letters \cup {t}
  BY DEF SendFetch, SenderLeaves, LoseLetter
<1>2. sender \in [FetchTokens -> Senders \cup {None}] /\ letters \subseteq FetchTokens
  BY DEF FetchesAreAccounted, ClaimsTypeOK
<1>3. sender' \in [FetchTokens -> Senders \cup {None}]
  <2>1. ASSUME NEW w \in Senders
        PROVE  [w EXCEPT !.sent = TRUE] \in Senders
    BY DEF Senders
  <2>2. CASE SendFetch(t)
    <3>1. sender[t] \in Senders /\ sender' = [sender EXCEPT ![t] = [sender[t] EXCEPT !.sent = TRUE]]
      BY <1>2, <2>2 DEF SendFetch
    <3> QED
      BY <1>2, <2>1, <3>1
  <2>3. CASE SenderLeaves(t) \/ LoseLetter(t)
    BY <1>2, <2>3 DEF SenderLeaves, LoseLetter
  <2> QED
    BY <2>2, <2>3
<1> QED
  BY <1>1, <1>2, <1>3 DEF FetchesAreAccounted, ClaimsTypeOK, OwedFetchIsClaimed, ClaimIsOfAnOpenFetch,
     KeepsSuccesses

LEMMA SendFailsStep ==
  ASSUME FetchesAreAccounted, NEW t \in FetchTokens, SendFails(t)
  PROVE  FetchesAreAccounted' /\ KeepsSuccesses
<1>1. /\ feed \in FeedRows /\ fetch \in [FetchTokens -> Statuses \cup {None}]
      /\ sender \in [FetchTokens -> Senders \cup {None}]
  BY DEF FetchesAreAccounted, ClaimsTypeOK
<1>2. /\ UNCHANGED <<letters, fetcher, edition>>
      /\ fetch' = IF AwaitedByUser(t) \/ feed.token = t
                  THEN [fetch EXCEPT ![t] = "failed"] ELSE fetch
      /\ feed' = IF feed.token = t THEN FeedReleased(feed) ELSE feed
      /\ sender' = [sender EXCEPT ![t] = None]
  BY DEF SendFails, AwaitedByUser
<1>3. feed.token = t => fetch[t] # "success"
  BY DEF FetchesAreAccounted, ClaimIsOfAnOpenFetch
<1>4. /\ fetch' \in [FetchTokens -> Statuses \cup {None}]
      /\ fetch[t] = "success" /\ ~AwaitedByUser(t) => fetch'[t] = "success"
      /\ feed.token = t => fetch'[t] = "failed"
      /\ fetch'[t] \in {fetch[t], "failed"}
      /\ \A u \in FetchTokens : u # t => fetch'[u] = fetch[u]
  BY <1>1, <1>2, <1>3 DEF Statuses, Settled
<1>5. /\ feed' \in FeedRows /\ feed'.retired = feed.retired
      /\ feed.token = t => feed'.token = None
      /\ feed.token # t => feed'.token = feed.token
  BY <1>1, <1>2, ReleasedIs
<1>6. sender' \in [FetchTokens -> Senders \cup {None}]
  BY <1>1, <1>2
<1>7. ClaimsTypeOK'
  BY <1>2, <1>4, <1>5, <1>6 DEF FetchesAreAccounted, ClaimsTypeOK
<1>8. OwedFetchIsClaimed'
  BY <1>4, <1>5 DEF FetchesAreAccounted, OwedFetchIsClaimed
<1>9. ClaimIsOfAnOpenFetch'
  BY <1>4, <1>5, FeedConstants DEF FetchesAreAccounted, ClaimIsOfAnOpenFetch
<1>10. KeepsSuccesses
  BY <1>4 DEF KeepsSuccesses
<1> QED
  BY <1>7, <1>8, <1>9, <1>10 DEF FetchesAreAccounted

-----------------------------------------------------------------------------
\* What a worker does before it writes anything.
LEMMA WorkerStep ==
  ASSUME FetchesAreAccounted, NEW t \in FetchTokens,
         StartFetcher(t) \/ AskAddress(t) \/ TryAgain(t) \/ FetcherDies(t)
  PROVE  FetchesAreAccounted' /\ KeepsSuccesses
<1>1. ClaimsTypeOK
  BY DEF FetchesAreAccounted
<1>2. UNCHANGED <<feed, fetch, sender, edition>> /\ letters' \subseteq letters
  BY DEF StartFetcher, AskAddress, TryAgain, FetcherDies
<1>3. \E row \in Fetchers : fetcher' = [fetcher EXCEPT ![t] = row]
  <2>1. CASE StartFetcher(t)
    BY <1>1, <2>1, FetcherTypes DEF StartFetcher
  <2>2. CASE AskAddress(t)
    <3>1. PICK answer \in AnswersTo(feed.address, feed.validator) :
            fetcher' = [fetcher EXCEPT ![t].pc = "answered", ![t].answer = answer,
                                       ![t].address = feed.address]
      BY <2>2 DEF AskAddress
    <3>2. feed.address \in Addresses /\ edition[feed.address] \in 0..LastEdition
      BY <1>1 DEF ClaimsTypeOK, FeedRows
    <3>3. answer \in Answers
      BY <3>2 DEF AnswersTo, Answers
    <3>4. fetcher' = [fetcher EXCEPT ![t] = [fetcher[t] EXCEPT !.pc = "answered",
                                               !.answer = answer, !.address = feed.address]]
      BY <1>1, <3>1 DEF ClaimsTypeOK
    <3> QED
      BY <1>1, <3>2, <3>3, <3>4, FetcherTypes
  <2>3. CASE TryAgain(t)
    <3>1. /\ fetcher[t].attempt < Attempts
          /\ fetcher' = [fetcher EXCEPT ![t] = [fetcher[t] EXCEPT !.pc = "starts",
                           !.attempt = @ + 1, !.answer = NoFetcher.answer]]
      BY <1>1, <2>3 DEF TryAgain, ClaimsTypeOK
    <3> QED
      BY <1>1, <3>1, FetcherTypes
  <2>4. CASE FetcherDies(t)
    BY <1>1, <2>4, FetcherTypes DEF FetcherDies, EndFetcher
  <2> QED
    BY <2>1, <2>2, <2>3, <2>4
<1>4. fetcher' \in [FetchTokens -> Fetchers]
  BY <1>1, <1>3 DEF ClaimsTypeOK
<1> QED
  BY <1>2, <1>4 DEF FetchesAreAccounted, ClaimsTypeOK, OwedFetchIsClaimed,
     ClaimIsOfAnOpenFetch, KeepsSuccesses

\* A worker that ends writes its fetch's outcome, and gives the claim up with a success.
Settles(t) ==
  /\ fetch' \in [FetchTokens -> Statuses \cup {None}]
  /\ fetch'[t] \in Settled
  /\ \A u \in FetchTokens : u # t => fetch'[u] = fetch[u]

LEMMA EndStep ==
  ASSUME FetchesAreAccounted, NEW t \in FetchTokens, EndFetcher(t), fetcher[t].pc # "idle",
         UNCHANGED <<sender, letters, edition>>,
         feed' \in FeedRows, feed'.retired = feed.retired,
         \/ fetch' = fetch /\ feed' = feed
         \/ /\ Settles(t) /\ (fetch[t] = "success" => fetch'[t] = "success")
            /\ \/ feed.token = t /\ feed'.token = None
               \/ feed'.token = feed.token /\ (feed.token = t => fetch'[t] # "success")
  PROVE  FetchesAreAccounted' /\ KeepsSuccesses
<1>1. fetcher' \in [FetchTokens -> Fetchers]
  BY FetcherTypes DEF FetchesAreAccounted, ClaimsTypeOK, EndFetcher
<1>2. fetch' \in [FetchTokens -> Statuses \cup {None}]
  BY DEF FetchesAreAccounted, ClaimsTypeOK, Settles
<1>3. ClaimsTypeOK'
  BY <1>1, <1>2 DEF FetchesAreAccounted, ClaimsTypeOK
<1>4. OwedFetchIsClaimed'
  BY FeedConstants DEF FetchesAreAccounted, OwedFetchIsClaimed, Settles, Settled
<1>5. ClaimIsOfAnOpenFetch'
  BY FeedConstants DEF FetchesAreAccounted, ClaimIsOfAnOpenFetch, Settles, Settled
<1>6. KeepsSuccesses
  BY DEF KeepsSuccesses, Settles
<1> QED
  BY <1>3, <1>4, <1>5, <1>6 DEF FetchesAreAccounted

LEMMA GiveUpStep ==
  ASSUME FetchesAreAccounted, NEW t \in FetchTokens, GiveUp(t)
  PROVE  FetchesAreAccounted' /\ KeepsSuccesses
<1>1. /\ fetcher[t].pc # "idle" /\ EndFetcher(t) /\ fetch' = Abandoned(fetch, t)
      /\ UNCHANGED <<feed, sender, letters, edition>>
  BY DEF GiveUp
<1>2. ClaimsTypeOK /\ feed \in FeedRows
  BY DEF FetchesAreAccounted, ClaimsTypeOK
<1>3. Settles(t) /\ (fetch[t] = "success" <=> fetch'[t] = "success")
  BY <1>1, <1>2, AbandonedIs DEF Settles
<1>4. feed.token = t => fetch[t] # "success"
  BY DEF FetchesAreAccounted, ClaimIsOfAnOpenFetch
<1> QED
  BY <1>1, <1>2, <1>3, <1>4, EndStep

LEMMA PersistStep ==
  ASSUME FetchesAreAccounted, NEW t \in FetchTokens, Persist(t)
  PROVE  FetchesAreAccounted' /\ KeepsSuccesses
<1> DEFINE answer == fetcher[t].answer
           validator == IF answer.kind = "unchanged" THEN feed.validator
                        ELSE [of |-> fetcher[t].address, edition |-> answer.edition]
<1>1. /\ fetcher[t].pc # "idle" /\ EndFetcher(t) /\ UNCHANGED <<sender, letters, edition>>
  BY DEF Persist
<1>2. ClaimsTypeOK /\ feed \in FeedRows /\ fetch \in [FetchTokens -> Statuses \cup {None}]
  BY DEF FetchesAreAccounted, ClaimsTypeOK
<1>3. validator \in [of : Addresses, edition : 0..LastEdition] \cup {None}
  BY <1>2 DEF ClaimsTypeOK, Fetchers, Answers, FeedRows
<1>4. CASE HoldsFeed(t) /\ feed.leased
  <2>1. /\ feed.token = t /\ fetch' = [fetch EXCEPT ![t] = "success"]
        /\ feed' = [FeedReleased(feed) EXCEPT !.validator = validator]
    <3>1. FeedReleased(feed).validator = feed.validator
      BY <1>2 DEF FeedReleased, FeedRows
    <3> QED
      BY <1>4, <3>1 DEF Persist, HoldsFeed
  <2> HIDE DEF validator
  <2>2. feed' \in FeedRows /\ feed'.token = None /\ feed'.retired = feed.retired
    BY <1>2, <1>3, <2>1, ReleasedIs
  <2>3. Settles(t) /\ fetch'[t] = "success"
    BY <1>2, <2>1 DEF Settles, Statuses, Settled
  <2> QED
    BY <1>1, <2>1, <2>2, <2>3, EndStep
<1>5. CASE ~(HoldsFeed(t) /\ feed.leased)
  <2>1. fetch' = Abandoned(fetch, t) /\ feed' = feed
    BY <1>5 DEF Persist
  <2>2. Settles(t) /\ (fetch[t] = "success" <=> fetch'[t] = "success")
    BY <1>2, <2>1, AbandonedIs DEF Settles
  <2>3. feed.token = t => fetch[t] # "success"
    BY DEF FetchesAreAccounted, ClaimIsOfAnOpenFetch
  <2> QED
    BY <1>1, <1>2, <2>1, <2>2, <2>3, EndStep
<1> QED
  BY <1>4, <1>5

LEMMA FetchFailsStep ==
  ASSUME FetchesAreAccounted, NEW t \in FetchTokens, FetchFails(t)
  PROVE  FetchesAreAccounted' /\ KeepsSuccesses
<1>1. /\ fetcher[t].pc # "idle" /\ EndFetcher(t) /\ UNCHANGED <<sender, letters, edition>>
  BY DEF FetchFails
<1>2. feed \in FeedRows /\ fetch \in [FetchTokens -> Statuses \cup {None}]
  BY DEF FetchesAreAccounted, ClaimsTypeOK
<1>3. CASE feed.token = t
  <2>1. /\ fetch' = [fetch EXCEPT ![t] = "failed"]
        /\ feed' = FeedReleased(feed)
    BY <1>3 DEF FetchFails
  <2>2. feed' \in FeedRows /\ feed'.token = None /\ feed'.retired = feed.retired
    BY <1>2, <2>1, ReleasedIs
  <2>3. Settles(t) /\ fetch'[t] = "failed"
    BY <1>2, <2>1 DEF Settles, Statuses, Settled
  <2>4. fetch[t] # "success"
    BY <1>3 DEF FetchesAreAccounted, ClaimIsOfAnOpenFetch
  <2> QED
    BY <1>1, <1>3, <2>2, <2>3, <2>4, EndStep
<1>4. CASE feed.token # t
  <2>1. UNCHANGED <<feed, fetch>>
    BY <1>4 DEF FetchFails
  <2> QED
    BY <1>1, <1>2, <2>1, EndStep
<1> QED
  BY <1>3, <1>4

-----------------------------------------------------------------------------
LEMMA AccountedInit == FeedInit => FetchesAreAccounted
<1> SUFFICES ASSUME FeedInit PROVE FetchesAreAccounted
  OBVIOUS
<1>1. /\ feed \in FeedRows /\ feed.token = None
      /\ fetch = [t \in FetchTokens |-> None] /\ sender = [t \in FetchTokens |-> None]
      /\ letters = {} /\ fetcher = [t \in FetchTokens |-> NoFetcher]
      /\ edition = [u \in Addresses |-> 0]
  BY FeedConstants DEF FeedInit, FeedRows
<1>2. NoFetcher \in Fetchers
  BY FeedConstants DEF NoFetcher, Fetchers, Answers, Attempts
<1>3. ClaimsTypeOK
  BY <1>1, <1>2, FeedConstants DEF ClaimsTypeOK
<1> QED
  BY <1>1, <1>3, FeedConstants DEF FetchesAreAccounted, OwedFetchIsClaimed, ClaimIsOfAnOpenFetch,
     Statuses, Settled

LEMMA AccountedStep ==
  ASSUME FetchesAreAccounted, [FeedNext]_feedVars
  PROVE  FetchesAreAccounted' /\ KeepsSuccesses
<1>1. ASSUME NEW u \in Addresses, PublishEdition(u)
      PROVE  FetchesAreAccounted' /\ KeepsSuccesses
  <2>1. /\ UNCHANGED <<feed, fetch, sender, letters, fetcher>>
        /\ edition[u] < LastEdition /\ edition' = [edition EXCEPT ![u] = @ + 1]
    BY <1>1 DEF PublishEdition
  <2>2. edition \in [Addresses -> 0..LastEdition]
    BY DEF FetchesAreAccounted, ClaimsTypeOK
  <2>3. edition[u] + 1 \in 0..LastEdition
    <3>1. LastEdition \in Nat /\ edition[u] \in 0..LastEdition
      BY <2>2, FeedConstants
    <3> QED
      BY <2>1, <3>1
  <2>4. edition' \in [Addresses -> 0..LastEdition]
    BY <2>1, <2>2, <2>3
  <2> QED
    BY <2>1, <2>4 DEF FetchesAreAccounted, ClaimsTypeOK, OwedFetchIsClaimed,
       ClaimIsOfAnOpenFetch, KeepsSuccesses
<1>2. CASE UNCHANGED feedVars
  BY <1>2 DEF feedVars, FetchesAreAccounted, ClaimsTypeOK, OwedFetchIsClaimed,
     ClaimIsOfAnOpenFetch, KeepsSuccesses
<1> QED
  BY <1>1, <1>2, SettingsStep, ClaimStep, MessageStep, SendFailsStep, WorkerStep, GiveUpStep,
     PersistStep, FetchFailsStep DEF FeedNext

\* Whatever dies, is lost, comes twice or was taken by a queue that did not answer, a fetch
\* without an outcome is the one the feed's claim names, which the next claim ends, and a
\* success is never recorded as a failure once the user's request that asked for the fetch
\* has come back (claim_feed, fetch_now, _abandon, _persist_success and _finish_failure of
\* feeds/service.py and ingestion.py, schedule_due_feeds).
THEOREM FetchesEndOnceHolds == FeedSpec => FetchesEndOnce
<1>1. FeedInit => FetchesAreAccounted
  BY AccountedInit
<1>2. FetchesAreAccounted /\ [FeedNext]_feedVars => FetchesAreAccounted'
  BY AccountedStep
<1>3. FetchesAreAccounted /\ [FeedNext]_feedVars =>
        [\A t \in FetchTokens :
           fetch[t] = "success" /\ ~AwaitedByUser(t) => fetch'[t] # "failed"]_feedVars
  BY AccountedStep DEF KeepsSuccesses
<1>4. FetchesAreAccounted => OwedFetchIsClaimed
  BY DEF FetchesAreAccounted
<1> QED
  BY <1>1, <1>2, <1>3, <1>4, PTL DEF FeedSpec, FetchesEndOnce, SuccessIsFinal

-----------------------------------------------------------------------------
(* What a fetch stores. *)

Guids == {GuidOf[e] : e \in Entries}

Archives ==
  [title : [FeedArticles -> Entries \cup {None}],
   discoveries : SUBSET [article : FeedArticles, guid : Guids],
   requested : [FeedArticles -> Entries \cup {None}],
   pages : SUBSET FeedArticles]

\* Processing and document were last asked for with the title an article has, and what a
\* feed discovered is an article.
ArchiveIsWhole(kept) ==
  /\ kept \in Archives
  /\ kept.requested = kept.title
  /\ \A d \in kept.discoveries : kept.title[d.article] # None

\* An article has the title an entry gave it.
HasTitle(kept, entry) == ArticleOf[entry] # None => kept.title[ArticleOf[entry]] = entry

\* The other articles keep theirs.
OthersKeepTitles(kept, next, entry) ==
  \A a \in FeedArticles : a # ArticleOf[entry] => next.title[a] = kept.title[a]

\* No later one of the first k entries is of the same article.
IsLastOf(entries, k, i) == \A j \in 1..k : j > i => ArticleOf[entries[j]] # ArticleOf[entries[i]]

HasEntries(kept, entries, k) ==
  \A i \in 1..k : IsLastOf(entries, k, i) => HasTitle(kept, entries[i])

HasEdition(kept, u, n) == HasEntries(kept, Editions[u][n], Len(Editions[u][n]))

LEMMA StoredIsWhole ==
  ASSUME NEW kept, ArchiveIsWhole(kept), NEW entry \in Entries, NEW pages \in BOOLEAN,
         NEW next, next = Stored(kept, entry, pages)
  PROVE  ArchiveIsWhole(next) /\ OthersKeepTitles(kept, next, entry) /\ HasTitle(next, entry)
<1>1. CASE ArticleOf[entry] = None
  <2>1. next = kept  BY <1>1 DEF Stored
  <2>. QED  BY <1>1, <2>1 DEF OthersKeepTitles, HasTitle
<1>2. CASE ArticleOf[entry] # None
  <2>1. PICK article \in FeedArticles : article = ArticleOf[entry]  BY <1>2 DEF FeedArticles
  <2>2. PICK conflicts : conflicts = \E d \in kept.discoveries : d.article = article \/ d.guid = GuidOf[entry]
    OBVIOUS
  <2>3. PICK title : title = [kept.title EXCEPT ![article] = entry]  OBVIOUS
  <2>4. PICK discoveries : discoveries = IF conflicts THEN kept.discoveries
          ELSE kept.discoveries \cup {[article |-> article, guid |-> GuidOf[entry]]}
    OBVIOUS
  <2>5. PICK requested : requested = IF conflicts /\ ~(kept.title[article] # entry) THEN kept.requested
          ELSE [kept.requested EXCEPT ![article] = entry]
    OBVIOUS
  <2>6. PICK read : read = IF pages /\ ~conflicts THEN kept.pages \cup {article} ELSE kept.pages  OBVIOUS
  <2>7. next = [title |-> title, discoveries |-> discoveries, requested |-> requested, pages |-> read]
    BY <1>2, <2>1, <2>2, <2>3, <2>4, <2>5, <2>6 DEF Stored
  <2>8. /\ kept.title \in [FeedArticles -> Entries \cup {None}] /\ kept.requested = kept.title
        /\ kept.discoveries \subseteq [article : FeedArticles, guid : Guids]
        /\ kept.pages \subseteq FeedArticles
        /\ \A d \in kept.discoveries : kept.title[d.article] # None
    BY DEF ArchiveIsWhole, Archives
  <2>9. entry # None /\ GuidOf[entry] \in Guids  BY FeedConstants DEF Guids
  <2>10. title \in [FeedArticles -> Entries \cup {None}] /\ title[article] = entry
    BY <2>3, <2>8
  <2>11. \A a \in FeedArticles : kept.title[a] # None => title[a] # None  BY <2>3, <2>8, <2>9
  <2>12. requested = title  BY <2>3, <2>5, <2>8
  <2>13. PICK found : found = [article |-> article, guid |-> GuidOf[entry]]  OBVIOUS
  <2>14. found \in [article : FeedArticles, guid : Guids] /\ found.article = article  BY <2>9, <2>13
  <2>15. discoveries \subseteq kept.discoveries \cup {found}  BY <2>4, <2>13
  <2>16. discoveries \in SUBSET [article : FeedArticles, guid : Guids]  BY <2>8, <2>14, <2>15
  <2>17. \A d \in discoveries : title[d.article] # None
    BY <2>8, <2>9, <2>10, <2>11, <2>14, <2>15
  <2>18. read \in SUBSET FeedArticles  BY <2>6, <2>8
  <2>19. /\ next \in Archives /\ next.title = title /\ next.requested = requested
         /\ next.discoveries = discoveries
    BY <2>7, <2>10, <2>12, <2>16, <2>18 DEF Archives
  <2>20. ArchiveIsWhole(next)  BY <2>12, <2>17, <2>19 DEF ArchiveIsWhole
  <2>21. OthersKeepTitles(kept, next, entry)
    <3>1. \A a \in FeedArticles : a # article => title[a] = kept.title[a]  BY <2>3, <2>8
    <3>. QED  BY <2>1, <2>19, <3>1 DEF OthersKeepTitles
  <2>22. HasTitle(next, entry)  BY <2>1, <2>10, <2>19 DEF HasTitle
  <2>. QED  BY <2>20, <2>21, <2>22
<1>. QED  BY <1>1, <1>2

\* What the first entries of an answer leave.
Stores(after, kept, entries, pages, k) ==
  /\ after \in [0..k -> Archives]
  /\ \A i \in 0..k : /\ ArchiveIsWhole(after[i])
                     /\ after[i] = IF i = 0 THEN kept ELSE Stored(after[i - 1], entries[i], pages)

LEMMA StoringEnds ==
  ASSUME NEW kept, ArchiveIsWhole(kept), NEW entries \in Seq(Entries), NEW pages \in BOOLEAN
  PROVE  \E after : Stores(after, kept, entries, pages, Len(entries))
<1>. DEFINE Done == {k \in Nat : k <= Len(entries) => \E after : Stores(after, kept, entries, pages, k)}
<1>1. 0 \in Done
  <2>1. Stores([i \in 0..0 |-> kept], kept, entries, pages, 0)  BY DEF Stores, ArchiveIsWhole
  <2>. QED  BY <2>1
<1>2. ASSUME NEW k \in Nat, k \in Done
      PROVE  k + 1 \in Done
  <2>1. SUFFICES ASSUME k + 1 <= Len(entries)
                 PROVE  \E after : Stores(after, kept, entries, pages, k + 1)
    OBVIOUS
  <2>2. Len(entries) \in Nat  OBVIOUS
  <2>3. PICK before : Stores(before, kept, entries, pages, k)  BY <1>2, <2>1, <2>2
  <2>4. before \in [0..k -> Archives] /\ ArchiveIsWhole(before[k])  BY <2>3 DEF Stores
  <2>5. entries[k + 1] \in Entries  BY <2>1
  <2>6. PICK last : last = Stored(before[k], entries[k + 1], pages)  OBVIOUS
  <2>7. ArchiveIsWhole(last)  BY <2>4, <2>5, <2>6, StoredIsWhole
  <2>8. last \in Archives  BY <2>7 DEF ArchiveIsWhole
  <2>9. PICK after : after = [i \in 0..(k + 1) |-> IF i = k + 1 THEN last ELSE before[i]]  OBVIOUS
  <2>10. after \in [0..(k + 1) -> Archives]  BY <2>4, <2>8, <2>9
  <2>11. ASSUME NEW i \in 0..(k + 1)
         PROVE  /\ ArchiveIsWhole(after[i])
                /\ after[i] = IF i = 0 THEN kept ELSE Stored(after[i - 1], entries[i], pages)
    <3>1. \A m \in 0..k : /\ ArchiveIsWhole(before[m])
                          /\ before[m] = IF m = 0 THEN kept ELSE Stored(before[m - 1], entries[m], pages)
      BY <2>3 DEF Stores
    <3>2. CASE i = k + 1  BY <2>6, <2>7, <2>9, <3>2
    <3>3. CASE i # k + 1  BY <2>9, <3>1, <3>3
    <3>. QED  BY <3>2, <3>3
  <2>12. Stores(after, kept, entries, pages, k + 1)  BY <2>10, <2>11 DEF Stores
  <2>. QED  BY <2>12
<1>. HIDE DEF Done
<1>3. Nat \subseteq Done  BY <1>1, <1>2, AllNumbers
<1>4. Len(entries) \in Nat  OBVIOUS
<1>. QED  BY <1>3, <1>4 DEF Done

\* The loop over the entries of an answer leaves each article with its last entry's title.
LEMMA StoredInTurnIsWhole ==
  ASSUME NEW kept, ArchiveIsWhole(kept), NEW entries \in Seq(Entries), NEW pages \in BOOLEAN,
         NEW next, next = StoredInTurn(kept, entries, pages)
  PROVE  ArchiveIsWhole(next) /\ HasEntries(next, entries, Len(entries))
<1>. DEFINE loop == CHOOSE after : after = [i \in 0..Len(entries) |->
                      IF i = 0 THEN kept ELSE Stored(after[i - 1], entries[i], pages)]
<1>1. PICK after : Stores(after, kept, entries, pages, Len(entries))  BY StoringEnds
<1>2. after = [i \in 0..Len(entries) |-> IF i = 0 THEN kept ELSE Stored(after[i - 1], entries[i], pages)]
  BY <1>1 DEF Stores
<1>3. loop = [i \in 0..Len(entries) |-> IF i = 0 THEN kept ELSE Stored(loop[i - 1], entries[i], pages)]
  BY <1>2
<1>4. next = loop[Len(entries)]  BY DEF StoredInTurn
<1>. HIDE DEF loop
<1>5. Len(entries) \in Nat  OBVIOUS
<1>6. \A i \in 0..Len(entries) : loop[i] = IF i = 0 THEN kept ELSE Stored(loop[i - 1], entries[i], pages)
  BY <1>3
<1>. DEFINE Good(k) == ArchiveIsWhole(loop[k]) /\ HasEntries(loop[k], entries, k)
            Done == {k \in Nat : k <= Len(entries) => Good(k)}
<1>7. 0 \in Done
  <2>1. loop[0] = kept  BY <1>5, <1>6
  <2>. QED  BY <2>1 DEF HasEntries
<1>8. ASSUME NEW k \in Nat, k \in Done
      PROVE  k + 1 \in Done
  <2>1. SUFFICES ASSUME k + 1 <= Len(entries)
                 PROVE  Good(k + 1)
    OBVIOUS
  <2>2. Good(k)  BY <1>5, <1>8, <2>1
  <2>3. entries[k + 1] \in Entries  BY <2>1
  <2>4. loop[k + 1] = Stored(loop[k], entries[k + 1], pages)  BY <1>5, <1>6, <2>1
  <2>5. /\ ArchiveIsWhole(loop[k + 1]) /\ OthersKeepTitles(loop[k], loop[k + 1], entries[k + 1])
        /\ HasTitle(loop[k + 1], entries[k + 1])
    BY <2>2, <2>3, <2>4, StoredIsWhole
  <2>6. ASSUME NEW i \in 1..(k + 1), IsLastOf(entries, k + 1, i)
        PROVE  HasTitle(loop[k + 1], entries[i])
    <3>1. CASE i = k + 1  BY <2>5, <3>1
    <3>2. CASE i # k + 1
      <4>1. i \in 1..k  BY <3>2
      <4>2. /\ IsLastOf(entries, k, i)
            /\ ArticleOf[entries[k + 1]] # ArticleOf[entries[i]]
        BY <2>6, <4>1 DEF IsLastOf
      <4>3. HasTitle(loop[k], entries[i])  BY <2>2, <4>1, <4>2 DEF HasEntries
      <4>4. entries[i] \in Entries  BY <2>1, <4>1
      <4>5. ArticleOf[entries[i]] # None => ArticleOf[entries[i]] \in FeedArticles
        BY <4>4 DEF FeedArticles
      <4>. QED  BY <2>5, <4>2, <4>3, <4>5 DEF HasTitle, OthersKeepTitles
    <3>. QED  BY <3>1, <3>2
  <2>7. HasEntries(loop[k + 1], entries, k + 1)  BY <2>6 DEF HasEntries
  <2>. QED  BY <2>5, <2>7
<1>. HIDE DEF Done, Good
<1>9. Nat \subseteq Done  BY <1>7, <1>8, AllNumbers
<1>10. Good(Len(entries))  BY <1>5, <1>9 DEF Done
<1>. QED  BY <1>4, <1>10 DEF Good

-----------------------------------------------------------------------------
(* What the validator lets the feed skip. *)

FeedStores ==
  /\ ArchiveIsWhole(archive)
  /\ feed.validator # None =>
       /\ feed.validator.edition <= edition[feed.validator.of]
       /\ HasEdition(archive, feed.validator.of, feed.validator.edition)
  /\ \A t \in FetchTokens : fetcher[t].pc = "answered" =>
       fetcher[t].answer.edition <= edition[fetcher[t].address]

EditionsGrow == \A u \in Addresses : edition[u] <= edition'[u]

\* A worker goes on with the answer it has, or has just got one.
AnswersAreServed ==
  \A t \in FetchTokens : fetcher'[t].pc = "answered" =>
    \/ fetcher[t].pc = "answered" /\ fetcher'[t].answer = fetcher[t].answer /\ fetcher'[t].address = fetcher[t].address
    \/ fetcher'[t].address \in Addresses /\ fetcher'[t].answer.edition = edition[fetcher'[t].address]

LEMMA ServedIsKnown ==
  ASSUME ClaimsTypeOK, ClaimsTypeOK', FeedStores, EditionsGrow, AnswersAreServed
  PROVE  \A t \in FetchTokens : fetcher'[t].pc = "answered" =>
           fetcher'[t].answer.edition <= edition'[fetcher'[t].address]
<1>1. SUFFICES ASSUME NEW t \in FetchTokens, fetcher'[t].pc = "answered"
               PROVE  fetcher'[t].answer.edition <= edition'[fetcher'[t].address]
  OBVIOUS
<1>2. PICK w \in Fetchers : w = fetcher'[t]  BY DEF ClaimsTypeOK
<1>3. w.address \in Addresses /\ w.answer.edition \in 0..LastEdition  BY DEF Fetchers, Answers
<1>4. /\ edition[w.address] \in 0..LastEdition /\ edition'[w.address] \in 0..LastEdition
      /\ edition[w.address] <= edition'[w.address]
  BY <1>3 DEF ClaimsTypeOK, EditionsGrow
<1>5. w.pc = "answered"  BY <1>1, <1>2
<1>6. LastEdition \in Nat  BY FeedConstants
<1>7. w.answer.edition <= edition[w.address]
  <2>1. CASE w.answer.edition = edition[w.address]
    BY <2>1, <1>3, <1>4, <1>6
  <2>2. CASE fetcher[t].pc = "answered" /\ w.answer = fetcher[t].answer /\ w.address = fetcher[t].address
    <3>1. fetcher[t].answer.edition <= edition[fetcher[t].address]  BY <2>2 DEF FeedStores
    <3>. QED  BY <2>2, <3>1
  <2>. QED  BY <1>1, <1>2, <2>1, <2>2 DEF AnswersAreServed
<1>. QED  BY <1>2, <1>3, <1>4, <1>6, <1>7

LEMMA QuietFeedStep ==
  ASSUME ClaimsTypeOK, ClaimsTypeOK', FeedStores, EditionsGrow, AnswersAreServed,
         archive' = archive, feed'.validator = feed.validator
  PROVE  FeedStores'
<1>1. ASSUME feed'.validator # None
      PROVE  /\ feed'.validator.edition <= edition'[feed'.validator.of]
             /\ HasEdition(archive', feed'.validator.of, feed'.validator.edition)
  <2>1. PICK v : v = feed.validator  OBVIOUS
  <2>2. v.of \in Addresses /\ v.edition \in 0..LastEdition
    BY <1>1, <2>1 DEF ClaimsTypeOK, FeedRows
  <2>3. /\ edition[v.of] \in 0..LastEdition /\ edition'[v.of] \in 0..LastEdition
        /\ edition[v.of] <= edition'[v.of]
    BY <2>2 DEF ClaimsTypeOK, EditionsGrow
  <2>4. v.edition <= edition[v.of] /\ HasEdition(archive, v.of, v.edition)
    BY <1>1, <2>1 DEF FeedStores
  <2>5. LastEdition \in Nat  BY FeedConstants
  <2>6. v.edition <= edition'[v.of]  BY <2>2, <2>3, <2>4, <2>5
  <2>. QED  BY <2>1, <2>4, <2>6
<1>2. ArchiveIsWhole(archive')  BY DEF FeedStores
<1>. QED  BY <1>1, <1>2, ServedIsKnown DEF FeedStores

LEMMA EditionsStay == ASSUME ClaimsTypeOK, edition' = edition
                      PROVE  EditionsGrow
<1>1. \A u \in Addresses : edition[u] \in 0..LastEdition  BY DEF ClaimsTypeOK
<1>2. LastEdition \in Nat  BY FeedConstants
<1>. QED  BY <1>1, <1>2 DEF EditionsGrow

\* A worker that stops, or goes on without an answer.
LEMMA WorkersStay ==
  ASSUME ClaimsTypeOK,
         \/ fetcher' = fetcher
         \/ \E t \in FetchTokens : \E w : fetcher' = [fetcher EXCEPT ![t] = w] /\ w.pc # "answered"
  PROVE  AnswersAreServed
BY DEF AnswersAreServed, ClaimsTypeOK

LEMMA PersistStores ==
  ASSUME ClaimsTypeOK, ClaimsTypeOK', FeedStores, NEW t \in FetchTokens, Persist(t)
  PROVE  FeedStores'
<1>1. PICK w \in Fetchers : w = fetcher[t]  BY DEF ClaimsTypeOK
<1>2. /\ w.pc = "answered" /\ EndFetcher(t) /\ edition' = edition
      /\ w.answer.kind \in {"read", "unchanged"}
  BY <1>1 DEF Persist
<1>3. EditionsGrow  BY <1>2, EditionsStay
<1>4. AnswersAreServed
  <2>1. NoFetcher.pc # "answered"  BY DEF NoFetcher
  <2>. QED  BY <1>2, <2>1, WorkersStay DEF EndFetcher
<1>5. feed \in FeedRows  BY DEF ClaimsTypeOK
<1>6. CASE ~(HoldsFeed(t) /\ feed.leased)
  <2>1. UNCHANGED <<feed, archive>>  BY <1>6 DEF Persist
  <2>. QED  BY <1>3, <1>4, <2>1, QuietFeedStep
<1>7. CASE HoldsFeed(t) /\ feed.leased /\ w.answer.kind = "unchanged"
  <2>1. /\ archive' = archive
        /\ feed' = [FeedReleased(feed) EXCEPT !.validator = @]
    BY <1>1, <1>7 DEF Persist
  <2>2. feed'.validator = feed.validator  BY <1>5, <2>1 DEF FeedReleased, FeedRows
  <2>. QED  BY <1>3, <1>4, <2>1, <2>2, QuietFeedStep
<1>8. CASE HoldsFeed(t) /\ feed.leased /\ w.answer.kind # "unchanged"
  <2>1. PICK v : v = [of |-> w.address, edition |-> w.answer.edition]  OBVIOUS
  <2>2. /\ v.of \in Addresses /\ v.edition \in 0..LastEdition
        /\ v.of = w.address /\ v.edition = w.answer.edition
    BY <2>1 DEF Fetchers, Answers
  <2>3. /\ archive' = StoredInTurn(archive, Editions[v.of][v.edition], feed.fullText)
        /\ feed' = [FeedReleased(feed) EXCEPT !.validator = v]
    BY <1>1, <1>8, <2>1, <2>2 DEF Persist
  <2>4. feed'.validator = v  BY <1>5, <2>3 DEF FeedReleased, FeedRows
  <2>5. Editions[v.of][v.edition] \in Seq(Entries)  BY <2>2, FeedConstants
  <2>6. feed.fullText \in BOOLEAN  BY <1>5 DEF FeedRows
  <2>7. ArchiveIsWhole(archive') /\ HasEdition(archive', v.of, v.edition)
    <3>1. PICK kept, entries, pages, next :
            /\ kept = archive /\ entries = Editions[v.of][v.edition] /\ pages = feed.fullText
            /\ next = archive'
      OBVIOUS
    <3>2. /\ ArchiveIsWhole(kept) /\ entries \in Seq(Entries) /\ pages \in BOOLEAN
          /\ next = StoredInTurn(kept, entries, pages)
      BY <2>3, <2>5, <2>6, <3>1 DEF FeedStores
    <3>3. ArchiveIsWhole(next) /\ HasEntries(next, entries, Len(entries))
      BY ONLY <3>2, StoredInTurnIsWhole
    <3>. QED  BY <3>1, <3>3 DEF HasEdition
  <2>8. v.edition <= edition[v.of]  BY <1>1, <1>2, <2>2 DEF FeedStores
  <2>. QED  BY <1>2, <1>3, <1>4, <2>4, <2>7, <2>8, ServedIsKnown DEF FeedStores
<1>. QED  BY <1>6, <1>7, <1>8

LEMMA FeedStoresStep ==
  ASSUME ClaimsTypeOK, ClaimsTypeOK', FeedStores, [FeedNext]_feedVars
  PROVE  FeedStores'
<1>1. feed \in FeedRows  BY DEF ClaimsTypeOK
<1>2. CASE UNCHANGED feedVars
  <2>1. UNCHANGED <<feed, fetcher, edition, archive>>  BY <1>2 DEF feedVars
  <2>. QED  BY <2>1, EditionsStay, WorkersStay, QuietFeedStep
<1>3. ASSUME NEW u \in Addresses, PublishEdition(u)
      PROVE  FeedStores'
  <2>1. UNCHANGED <<feed, fetcher, archive>> /\ edition' = [edition EXCEPT ![u] = @ + 1]
    BY <1>3 DEF PublishEdition
  <2>2. EditionsGrow
    <3>1. \A a \in Addresses : edition[a] \in 0..LastEdition  BY DEF ClaimsTypeOK
    <3>2. DOMAIN edition = Addresses  BY DEF ClaimsTypeOK
    <3>3. LastEdition \in Nat  BY FeedConstants
    <3>4. \A a \in Addresses : edition'[a] = IF a = u THEN edition[a] + 1 ELSE edition[a]
      BY <2>1, <3>2
    <3>. QED  BY <3>1, <3>3, <3>4 DEF EditionsGrow
  <2>. QED  BY <2>1, <2>2, WorkersStay, QuietFeedStep
<1>4. ASSUME UNCHANGED <<fetcher, edition, archive>>, feed'.validator = feed.validator
      PROVE  FeedStores'
  BY <1>4, EditionsStay, WorkersStay, QuietFeedStep
<1>5. ASSUME FeedLeaseExpires \/ SwitchFeed \/ Retire \/ \E u \in Addresses : Readdress(u)
      PROVE  FeedStores'
  <2>1. feed'.validator = feed.validator
    BY <1>1, <1>5 DEF FeedLeaseExpires, SwitchFeed, Retire, Readdress, FeedReleased, FeedRows
  <2>2. UNCHANGED <<fetcher, edition, archive>>
    BY <1>5 DEF FeedLeaseExpires, SwitchFeed, Retire, Readdress, OnlyFeed
  <2>. QED  BY <1>4, <2>1, <2>2
<1>6. ASSUME NEW t \in FetchTokens,
             (\E by \in {"scheduler", "poll"} : ClaimFeed(t, by)) \/ SendFetch(t) \/ SendFails(t)
               \/ SenderLeaves(t) \/ LoseLetter(t)
      PROVE  FeedStores'
  <2>1. feed'.validator = feed.validator
    BY <1>1, <1>6 DEF ClaimFeed, SendFetch, SendFails, SenderLeaves, LoseLetter, FeedReleased, FeedRows
  <2>2. UNCHANGED <<fetcher, edition, archive>>
    BY <1>6 DEF ClaimFeed, SendFetch, SendFails, SenderLeaves, LoseLetter
  <2>. QED  BY <1>4, <2>1, <2>2
<1>7. ASSUME NEW t \in FetchTokens, StartFetcher(t) \/ GiveUp(t) \/ TryAgain(t) \/ FetcherDies(t) \/ FetchFails(t)
      PROVE  FeedStores'
  <2>1. UNCHANGED <<edition, archive>> /\ feed'.validator = feed.validator
    BY <1>1, <1>7 DEF StartFetcher, GiveUp, TryAgain, FetcherDies, FetchFails, FeedReleased, FeedRows
  <2>2. \E w : fetcher' = [fetcher EXCEPT ![t] = w] /\ w.pc # "answered"
    <3>1. NoFetcher.pc # "answered"  BY DEF NoFetcher
    <3>2. PICK starting : starting = [NoFetcher EXCEPT !.pc = "starts", !.attempt = 1]  OBVIOUS
    <3>3. starting.pc # "answered"  BY <3>2 DEF NoFetcher
    <3>4. PICK w \in Fetchers : w = fetcher[t]  BY DEF ClaimsTypeOK
    <3>5. PICK again : again = [w EXCEPT !.pc = "starts", !.attempt = @ + 1, !.answer = NoFetcher.answer]
      OBVIOUS
    <3>6. again.pc # "answered"  BY <3>5 DEF Fetchers
    <3>7. CASE TryAgain(t)
      <4>1. fetcher' = [fetcher EXCEPT ![t] = again]  BY <3>4, <3>5, <3>7 DEF TryAgain
      <4>. QED  BY <3>6, <4>1
    <3>8. CASE StartFetcher(t)  BY <3>2, <3>3, <3>8 DEF StartFetcher
    <3>9. CASE GiveUp(t) \/ FetcherDies(t) \/ FetchFails(t)
      BY <3>1, <3>9 DEF GiveUp, FetcherDies, FetchFails, EndFetcher
    <3>. QED  BY <1>7, <3>7, <3>8, <3>9
  <2>3. EditionsGrow /\ AnswersAreServed  BY <2>1, <2>2, EditionsStay, WorkersStay
  <2>. QED  BY <2>1, <2>3, QuietFeedStep
<1>8. ASSUME NEW t \in FetchTokens, AskAddress(t)
      PROVE  FeedStores'
  <2>1. PICK answer \in AnswersTo(feed.address, feed.validator) :
          fetcher' = [fetcher EXCEPT ![t].pc = "answered", ![t].answer = answer, ![t].address = feed.address]
    BY <1>8 DEF AskAddress
  <2>2. answer.edition = edition[feed.address]  BY DEF AnswersTo
  <2>3. feed.address \in Addresses  BY <1>1 DEF FeedRows
  <2>4. PICK w \in Fetchers : w = fetcher[t]  BY DEF ClaimsTypeOK
  <2>5. PICK asked : asked = [w EXCEPT !.pc = "answered", !.answer = answer, !.address = feed.address]
    OBVIOUS
  <2>6. asked.answer = answer /\ asked.address = feed.address  BY <2>5 DEF Fetchers
  <2>7. fetcher' = [fetcher EXCEPT ![t] = asked]  BY <2>1, <2>4, <2>5
  <2>8. AnswersAreServed  BY <2>2, <2>3, <2>6, <2>7 DEF AnswersAreServed, ClaimsTypeOK
  <2>9. UNCHANGED <<feed, edition, archive>>  BY <1>8 DEF AskAddress
  <2>. QED  BY <2>8, <2>9, EditionsStay, QuietFeedStep
<1>9. ASSUME NEW t \in FetchTokens, Persist(t)
      PROVE  FeedStores'
  BY <1>9, PersistStores
<1>. QED
  BY <1>2, <1>3, <1>5, <1>6, <1>7, <1>8, <1>9 DEF FeedNext

LEMMA FeedStoresInit == FeedInit => FeedStores
<1>. SUFFICES ASSUME FeedInit
              PROVE  FeedStores
  OBVIOUS
<1>1. PICK kept : kept = [title |-> [a \in FeedArticles |-> None], discoveries |-> {},
                          requested |-> [a \in FeedArticles |-> None], pages |-> {}]
  OBVIOUS
<1>2. ArchiveIsWhole(kept)  BY <1>1 DEF ArchiveIsWhole, Archives
<1>3. archive = kept  BY <1>1 DEF FeedInit
<1>4. feed.validator = None  BY DEF FeedInit
<1>5. \A t \in FetchTokens : fetcher[t].pc # "answered"  BY DEF FeedInit, NoFetcher
<1>. QED  BY <1>2, <1>3, <1>4, <1>5 DEF FeedStores

\* While the address answers with ETags, whatever it lets the feed skip has been read: each
\* article of the answer the validator stands for has the title its last entry gave it, and
\* was processed and indexed with that title.  (With Last-Modified alone, a feed that moves
\* may skip what it never read.)
THEOREM SkippedWasReadHolds == ASSUME ETags
                               PROVE  FeedSpec => []SkippedWasRead
<1>1. FeedInit => FetchesAreAccounted /\ FeedStores  BY AccountedInit, FeedStoresInit
<1>2. FetchesAreAccounted /\ FeedStores /\ [FeedNext]_feedVars => FetchesAreAccounted' /\ FeedStores'
  BY AccountedStep, FeedStoresStep DEF FetchesAreAccounted
<1>3. FetchesAreAccounted /\ FeedStores => SkippedWasRead
  <2>1. SUFFICES ASSUME FetchesAreAccounted, FeedStores, Unmodified(feed.address, feed.validator),
                        NEW entries, entries = Editions[feed.address][edition[feed.address]],
                        NEW i \in DOMAIN entries, NEW article, article = ArticleOf[entries[i]],
                        article # None,
                        \A j \in DOMAIN entries : j > i => ArticleOf[entries[j]] # article
                 PROVE  /\ archive.title[article] = entries[i]
                        /\ archive.requested[article] = entries[i]
    BY DEF SkippedWasRead
  <2>2. PICK v : v = feed.validator  OBVIOUS
  <2>3. v # None /\ v.edition >= edition[feed.address] /\ v.of = feed.address
    BY <2>1, <2>2 DEF Unmodified
  <2>4. v.of \in Addresses /\ v.edition \in 0..LastEdition /\ edition[v.of] \in 0..LastEdition
    BY <2>1, <2>2, <2>3 DEF FetchesAreAccounted, ClaimsTypeOK, FeedRows
  <2>5. v.edition <= edition[v.of] /\ HasEdition(archive, v.of, v.edition)
    BY <2>1, <2>2, <2>3 DEF FeedStores
  <2>6. LastEdition \in Nat  BY FeedConstants
  <2>7. v.edition = edition[feed.address]  BY <2>3, <2>4, <2>5, <2>6
  <2>8. HasEntries(archive, entries, Len(entries))  BY <2>1, <2>3, <2>5, <2>7 DEF HasEdition
  <2>9. DOMAIN entries = 1..Len(entries)
    <3>1. entries \in Seq(Entries)  BY <2>1, <2>3, <2>4, FeedConstants
    <3>. QED  BY <3>1
  <2>10. archive.title[article] = entries[i]
    BY <2>1, <2>8, <2>9 DEF HasEntries, IsLastOf, HasTitle
  <2>11. archive.requested = archive.title  BY <2>1 DEF FeedStores, ArchiveIsWhole
  <2>. QED  BY <2>10, <2>11
<1>. QED  BY <1>1, <1>2, <1>3, PTL DEF FeedSpec

-----------------------------------------------------------------------------
(* The counts of a watch. *)

WatchSpec == WatchInit /\ [][WatchNext]_watchVars

\* An article of a moment becomes searchable within monitor_settle_seconds, and those are
\* not none.
KeepsUp == IndexKeepsUp /\ Settle >= 1

Windows ==
  [cursor : Moments, viewed : Moments \cup {None}, unseen : Nat \cup {None},
   new : SUBSET WatchArticles]

Evaluations ==
  [token : WatchTokens \cup {None}, viewed : Moments \cup {None}, window : Windows]

Deliveries ==
  [pc : {"idle", "read", "sent", "failed", "done"}, token : WatchTokens \cup {None},
   summary : BOOLEAN, covered : Nat, about : SUBSET WatchArticles]

WatchTypes ==
  /\ moment \in Moments
  /\ completed \in [WatchArticles -> Moments \cup {None}]
  /\ searchable \subseteq {a \in WatchArticles : completed[a] # None}
  /\ watch \in WatchRows \cup {None}
  /\ evaluator \in [Evaluators -> {NoEvaluation} \cup Evaluations]
  /\ settings \in SettingsRows
  /\ delivery \in Deliveries
  /\ counted \in [WatchArticles -> Nat]
  /\ owed \subseteq {a \in WatchArticles : counted[a] > 0}

\* The matches completed in between, whether or not the index has them.
Between(criteria, after, upto) ==
  {a \in WatchArticles :
    /\ completed[a] # None
    /\ criteria \in MatchedBy[a]
    /\ after < completed[a] /\ completed[a] <= upto}

HasCursor == watch # None /\ watch.cursor # None

SettledIsSearchable ==
  \A a \in WatchArticles : completed[a] # None /\ completed[a] + Settle <= moment => a \in searchable

\* Nothing completes any more behind a cursor, and what a view rewinds has been announced.
CursorsAreBehind ==
  HasCursor =>
    /\ watch.viewed # None /\ watch.cursor + Settle <= moment
    /\ watch.notified # None /\ watch.cursor <= watch.notified

CountedWasAnnounced ==
  \A a \in WatchArticles : counted[a] > 0 =>
    /\ completed[a] # None /\ completed[a] + Settle <= moment
    /\ HasCursor => completed[a] <= watch.notified

\* An evaluation that may still be published says of the watch what one of now would say of
\* the same moment, and nothing was counted since.
WindowIsOfTheWatch ==
  \A e \in Evaluators :
    evaluator[e].token # None /\ watch # None /\ watch.token = evaluator[e].token =>
      \E horizon \in Moments :
        /\ horizon + Settle <= moment
        /\ evaluator[e].window = Window(watch, horizon)
        /\ \A a \in WatchArticles : counted[a] > 0 => completed[a] <= horizon

WatchIsTrue ==
  /\ WatchTypes /\ SettledIsSearchable /\ CursorsAreBehind /\ CountedWasAnnounced
  /\ WindowIsOfTheWatch /\ UnseenLiesBetween /\ CountedOnce

-----------------------------------------------------------------------------
(* What the index finds up to a settled moment, now and later. *)

LEMMA CountsAreNumbers ==
  ASSUME NEW S, S \subseteq WatchArticles
  PROVE  IsFiniteSet(S) /\ Cardinality(S) \in Nat
<1>1. IsFiniteSet(S)  BY WatchConstants, FS_Subset
<1>. QED  BY <1>1, FS_CardinalityType

LEMMA MatchesAreBetween ==
  ASSUME WatchTypes, SettledIsSearchable,
         NEW criteria, NEW after \in Moments, NEW upto \in Moments, upto + Settle <= moment
  PROVE  Matches(criteria, after, upto) = Between(criteria, after, upto)
<1>1. ASSUME NEW a \in WatchArticles, completed[a] # None, completed[a] <= upto
      PROVE  a \in searchable
  <2>1. completed[a] \in Nat /\ moment \in Nat /\ upto \in Nat /\ Settle \in Nat
    BY <1>1, WatchConstants DEF WatchTypes, Moments
  <2>. QED  BY <1>1, <2>1 DEF SettledIsSearchable
<1>. QED  BY <1>1 DEF Matches, Between, WatchTypes

\* The archive goes on: what completes, completes at the present moment.
ArchiveGrows ==
  /\ moment <= moment'
  /\ \A a \in WatchArticles :
       completed'[a] = completed[a] \/ (completed[a] = None /\ completed'[a] = moment)

LEMMA BetweenIsSettled ==
  ASSUME KeepsUp, WatchTypes, WatchTypes', ArchiveGrows,
         NEW criteria, NEW after \in Moments, NEW upto \in Moments, upto + Settle <= moment
  PROVE  Between(criteria, after, upto)' = Between(criteria, after, upto)
<1>1. ASSUME NEW a \in WatchArticles, completed'[a] # completed[a]
      PROVE  completed[a] = None /\ ~(completed'[a] <= upto)
  <2>1. completed[a] = None /\ completed'[a] = moment  BY <1>1 DEF ArchiveGrows
  <2>2. moment \in Nat /\ upto \in Nat /\ Settle \in Nat
    BY WatchConstants DEF WatchTypes, Moments
  <2>. QED  BY <2>1, <2>2 DEF KeepsUp
<1>. QED  BY <1>1 DEF Between

LEMMA WindowStays ==
  ASSUME KeepsUp, WatchTypes, WatchTypes', SettledIsSearchable, SettledIsSearchable',
         ArchiveGrows, NEW row \in WatchRows,
         row.cursor # None => row.viewed # None, NEW horizon \in Moments,
         horizon + Settle <= moment
  PROVE  Window(row, horizon)' = Window(row, horizon)
<1>1. ASSUME NEW after \in Moments
      PROVE  Matches(row.criteria, after, horizon)' = Matches(row.criteria, after, horizon)
  <2>1. Between(row.criteria, after, horizon)' = Between(row.criteria, after, horizon)
    BY <1>1, BetweenIsSettled
  <2>2. Matches(row.criteria, after, horizon) = Between(row.criteria, after, horizon)
    BY <1>1, MatchesAreBetween
  <2>3. ASSUME NEW a \in WatchArticles, completed'[a] # None, completed'[a] <= horizon
        PROVE  a \in searchable'
    <3>1. /\ completed'[a] \in Nat /\ moment \in Nat /\ moment' \in Nat
          /\ horizon \in Nat /\ Settle \in Nat
      BY <2>3, WatchConstants DEF WatchTypes, Moments
    <3>2. completed'[a] + Settle <= moment'  BY <2>3, <3>1 DEF ArchiveGrows
    <3>. QED  BY <2>3, <3>2 DEF SettledIsSearchable
  <2>4. Matches(row.criteria, after, horizon)' = Between(row.criteria, after, horizon)'
    BY <2>3 DEF Matches, Between, WatchTypes
  <2>. QED  BY <2>1, <2>2, <2>4
<1>2. CASE row.cursor = None  BY <1>2 DEF Window
<1>3. CASE row.cursor # None
  <2>1. row.cursor \in Moments /\ row.viewed \in Moments  BY <1>3 DEF WatchRows
  <2>2. Later(row.cursor, row.notified) \in Moments  BY <2>1 DEF Later, WatchRows
  <2>3. /\ Matches(row.criteria, row.cursor, horizon)'
             = Matches(row.criteria, row.cursor, horizon)
        /\ Matches(row.criteria, row.viewed, horizon)'
             = Matches(row.criteria, row.viewed, horizon)
        /\ Matches(row.criteria, Later(row.cursor, row.notified), horizon)'
             = Matches(row.criteria, Later(row.cursor, row.notified), horizon)
    BY <1>1, <2>1, <2>2
  <2>. QED  BY <2>3 DEF Window, NewSince
<1>. QED  BY <1>2, <1>3

-----------------------------------------------------------------------------
(* The steps that publish nothing. *)

\* The watch keeps what its count is of, or is deleted.
WatchGoesOn ==
  watch' # None =>
    /\ watch # None
    /\ watch'.criteria = watch.criteria /\ watch'.cursor = watch.cursor
    /\ watch'.viewed = watch.viewed /\ watch'.notified = watch.notified
    /\ watch'.unseen = watch.unseen

\* No evaluation of the watch begins.
NoneBegins ==
  \A e \in Evaluators :
    evaluator'[e].token # None /\ watch' # None /\ watch'.token = evaluator'[e].token =>
      evaluator'[e] = evaluator[e] /\ watch.token = watch'.token

LEMMA GoingOnKeeps ==
  ASSUME KeepsUp, WatchIsTrue, WatchTypes', SettledIsSearchable', ArchiveGrows,
         counted' = counted, WatchGoesOn, NoneBegins
  PROVE  WatchIsTrue'
<1>1. /\ WatchTypes /\ SettledIsSearchable /\ CursorsAreBehind /\ CountedWasAnnounced
      /\ WindowIsOfTheWatch /\ UnseenLiesBetween /\ CountedOnce
  BY DEF WatchIsTrue
<1>2. moment \in Nat /\ moment' \in Nat /\ Settle \in Nat /\ moment <= moment'
  BY <1>1, WatchConstants DEF WatchTypes, Moments, ArchiveGrows
<1>3. ASSUME watch' # None
      PROVE  watch # None /\ watch \in WatchRows /\ watch' \in WatchRows
  BY <1>1, <1>3 DEF WatchGoesOn, WatchTypes
<1>4. ASSUME HasCursor'
      PROVE  /\ HasCursor /\ watch.cursor \in Moments /\ watch.viewed \in Moments
             /\ watch.notified \in Moments /\ watch.cursor + Settle <= moment
  BY <1>1, <1>3, <1>4 DEF HasCursor, WatchGoesOn, CursorsAreBehind, WatchRows
<1>5. CursorsAreBehind'
  <2>1. SUFFICES ASSUME HasCursor'
                 PROVE  /\ watch'.viewed # None /\ watch'.cursor + Settle <= moment'
                        /\ watch'.notified # None /\ watch'.cursor <= watch'.notified
    BY DEF CursorsAreBehind
  <2>2. watch.cursor \in Nat  BY <1>4, <2>1 DEF Moments
  <2>3. watch.cursor + Settle <= moment'  BY <1>2, <1>4, <2>1, <2>2
  <2>. QED  BY <1>1, <1>4, <2>1, <2>3 DEF HasCursor, WatchGoesOn, CursorsAreBehind
<1>6. CountedWasAnnounced'
  <2>1. SUFFICES ASSUME NEW a \in WatchArticles, counted[a] > 0
                 PROVE  /\ completed'[a] # None /\ completed'[a] + Settle <= moment'
                        /\ HasCursor' => completed'[a] <= watch'.notified
    BY DEF CountedWasAnnounced
  <2>2. /\ completed[a] # None /\ completed[a] + Settle <= moment
        /\ HasCursor => completed[a] <= watch.notified
    BY <1>1, <2>1 DEF CountedWasAnnounced
  <2>3. completed'[a] = completed[a] /\ completed[a] \in Nat
    BY <1>1, <2>2 DEF ArchiveGrows, WatchTypes, Moments
  <2>4. completed'[a] + Settle <= moment'  BY <1>2, <2>2, <2>3
  <2>. QED  BY <1>4, <2>2, <2>3, <2>4 DEF HasCursor, WatchGoesOn
<1>7. WindowIsOfTheWatch'
  <2>1. SUFFICES ASSUME NEW e \in Evaluators, evaluator'[e].token # None, watch' # None,
                        watch'.token = evaluator'[e].token
                 PROVE  \E horizon \in Moments :
                          /\ horizon + Settle <= moment'
                          /\ evaluator'[e].window = Window(watch, horizon)'
                          /\ \A a \in WatchArticles :
                               counted[a] > 0 => completed'[a] <= horizon
    BY DEF WindowIsOfTheWatch
  <2>2. evaluator'[e] = evaluator[e] /\ watch.token = watch'.token
    BY <2>1 DEF NoneBegins
  <2>3. PICK horizon \in Moments :
          /\ horizon + Settle <= moment
          /\ evaluator[e].window = Window(watch, horizon)
          /\ \A a \in WatchArticles : counted[a] > 0 => completed[a] <= horizon
    BY <1>1, <1>3, <2>1, <2>2 DEF WindowIsOfTheWatch
  <2>4. horizon + Settle <= moment'  BY <1>2, <2>3 DEF Moments
  <2>5. PICK row \in WatchRows : row = watch  BY <1>3, <2>1
  <2>6. row.cursor # None => row.viewed # None
    BY <1>1, <1>3, <2>1, <2>5 DEF CursorsAreBehind, HasCursor
  <2>7. Window(row, horizon)' = Window(row, horizon)
    BY ONLY <1>1, <2>3, <2>6, WindowStays, KeepsUp, WatchTypes', SettledIsSearchable', ArchiveGrows
  <2>8. /\ watch'.criteria = row.criteria /\ watch'.cursor = row.cursor
        /\ watch'.viewed = row.viewed /\ watch'.notified = row.notified
    BY <2>1, <2>5 DEF WatchGoesOn
  <2>9. Window(watch, horizon)' = Window(row, horizon)'
    BY ONLY <2>8 DEF Window, NewSince, Matches
  <2>10. ASSUME NEW a \in WatchArticles, counted[a] > 0
         PROVE  completed'[a] <= horizon
    BY <1>1, <2>3, <2>10 DEF CountedWasAnnounced, ArchiveGrows
  <2>. QED  BY <2>2, <2>3, <2>4, <2>5, <2>7, <2>9, <2>10
<1>8. UnseenLiesBetween'
  <2>1. SUFFICES ASSUME HasCursor'
                 PROVE  UnseenLiesBetween'
    BY DEF UnseenLiesBetween, HasCursor
  <2>2. PICK row \in WatchRows : row = watch  BY <1>3, <2>1 DEF HasCursor
  <2>3. row.unseen = Cardinality(Between(row.criteria, row.viewed, row.cursor))
    BY <1>1, <1>4, <2>1, <2>2 DEF UnseenLiesBetween, Between, HasCursor
  <2>4. row.cursor \in Moments /\ row.viewed \in Moments /\ row.cursor + Settle <= moment
    BY <1>4, <2>1, <2>2
  <2>5. Between(row.criteria, row.viewed, row.cursor)'
          = Between(row.criteria, row.viewed, row.cursor)
    BY ONLY <1>1, <2>4, BetweenIsSettled, KeepsUp, WatchTypes', ArchiveGrows
  <2>6. /\ watch'.criteria = row.criteria /\ watch'.cursor = row.cursor
        /\ watch'.viewed = row.viewed /\ watch'.unseen = row.unseen
    BY <2>1, <2>2 DEF WatchGoesOn, HasCursor
  <2>. QED  BY ONLY <2>3, <2>5, <2>6 DEF UnseenLiesBetween, Between
<1>9. CountedOnce'  BY <1>1 DEF CountedOnce
<1>. QED  BY <1>5, <1>6, <1>7, <1>8, <1>9 DEF WatchIsTrue

-----------------------------------------------------------------------------
(* The types. *)

LEMMA WindowsAreTyped ==
  ASSUME WatchTypes, NEW row \in WatchRows, NEW horizon \in Moments
  PROVE  Window(row, horizon) \in Windows
<1>1. ASSUME NEW after
      PROVE  /\ Matches(row.criteria, after, horizon) \subseteq WatchArticles
             /\ Cardinality(Matches(row.criteria, after, horizon)) \in Nat
  <2>1. Matches(row.criteria, after, horizon) \subseteq WatchArticles
    BY DEF Matches, WatchTypes
  <2>. QED  BY <2>1, CountsAreNumbers
<1>2. NewSince(row, horizon) \subseteq WatchArticles  BY <1>1 DEF NewSince
<1>3. Cardinality(Matches(row.criteria, row.viewed, horizon)) \in Nat  BY <1>1
<1>4. /\ row.cursor \in Moments \cup {None} /\ row.viewed \in Moments \cup {None}
  BY DEF WatchRows
<1>. HIDE DEF Matches, NewSince
<1>. QED  BY <1>2, <1>3, <1>4 DEF Window, Windows

LEMMA ArchiveIsTyped ==
  ASSUME WatchTypes, WatchedArchive
  PROVE  WatchTypes'
<1>1. CASE TimePasses
  <2>1. moment' \in Moments  BY <1>1, WatchConstants DEF TimePasses, WatchTypes, Moments
  <2>. QED  BY <1>1, <2>1 DEF TimePasses, WatchTypes
<1>2. ASSUME NEW a \in WatchArticles, Completes(a)
      PROVE  WatchTypes'
  <2>1. moment # None  BY WatchConstants DEF WatchTypes, Moments
  <2>. QED  BY <1>2, <2>1 DEF Completes, WatchTypes
<1>3. ASSUME NEW a \in WatchArticles, Indexes(a)
      PROVE  WatchTypes'
  BY <1>3 DEF Indexes, WatchTypes
<1>. QED  BY <1>1, <1>2, <1>3 DEF WatchedArchive

LEMMA RequestedIsTyped ==
  ASSUME WatchTypes, Requested
  PROVE  WatchTypes'
<1>1. ASSUME NEW new \in WatchRows \cup {None}, SetWatch(new),
             owed' \subseteq owed
      PROVE  WatchTypes'
  BY <1>1 DEF SetWatch, watchArchive, WatchTypes
<1>2. ASSUME NEW criteria \in Criteria, Create(criteria)
      PROVE  WatchTypes'
  <2>1. NewWatch(criteria) \in WatchRows  BY <1>2 DEF NewWatch, WatchRows
  <2>. QED  BY <1>1, <1>2, <2>1 DEF Create
<1>3. CASE Delete  BY <1>1, <1>3 DEF Delete
<1>4. ASSUME NEW criteria \in Criteria, Edit(criteria)
      PROVE  WatchTypes'
  <2>1. watch \in WatchRows  BY <1>4 DEF Edit, WatchTypes
  <2>2. Forgotten(watch) \in WatchRows  BY <2>1 DEF Forgotten, WatchRows
  <2>3. [Forgotten(watch) EXCEPT !.criteria = criteria] \in WatchRows
    BY <2>2 DEF WatchRows
  <2>. QED  BY <1>1, <1>4, <2>3 DEF Edit
<1>5. ASSUME NEW on \in BOOLEAN, Switch(on)
      PROVE  WatchTypes'
  <2>1. watch \in WatchRows  BY <1>5 DEF Switch, WatchTypes
  <2>2. [watch EXCEPT !.enabled = on, !.due = @ \/ on] \in WatchRows
    BY <1>5, <2>1 DEF WatchRows
  <2>. QED  BY <1>1, <1>5, <2>2 DEF Switch
<1>6. ASSUME NEW on \in BOOLEAN, SetNotify(on)
      PROVE  WatchTypes'
  <2>1. watch \in WatchRows  BY <1>6 DEF SetNotify, WatchTypes
  <2>2. [watch EXCEPT !.notify = on, !.pending = IF on THEN @ ELSE 0] \in WatchRows
    BY <1>6, <2>1 DEF WatchRows
  <2>. QED  BY <1>1, <1>6, <2>2 DEF SetNotify
<1>7. ASSUME NEW on \in BOOLEAN, PutSettings(on)
      PROVE  WatchTypes'
  BY <1>7 DEF PutSettings, SetSettings, watchArchive, WatchTypes, SettingsRows
<1>8. ASSUME NEW through \in Moments, View(through)
      PROVE  WatchTypes'
  <2>1. watch \in WatchRows  BY <1>8 DEF View, WatchTypes
  <2>2. Viewed(watch, through) \in WatchRows  BY <1>8, <2>1 DEF Viewed, WatchRows
  <2>. QED  BY <1>1, <1>8, <2>2 DEF View
<1>. QED  BY <1>2, <1>3, <1>4, <1>5, <1>6, <1>7, <1>8 DEF Requested

LEMMA EvaluatingIsTyped ==
  ASSUME WatchTypes, Evaluating
  PROVE  WatchTypes'
<1>1. ASSUME NEW e \in Evaluators, EvaluationEnds(e)
      PROVE  evaluator' \in [Evaluators -> {NoEvaluation} \cup Evaluations]
  BY <1>1 DEF EvaluationEnds, WatchTypes
<1>2. ASSUME NEW token \in WatchTokens, ClaimWatch(token)
      PROVE  WatchTypes'
  <2>1. watch \in WatchRows  BY <1>2 DEF ClaimWatch, WatchTypes
  <2>2. watch' \in WatchRows  BY <1>2, <2>1 DEF ClaimWatch, WatchRows
  <2>. QED  BY <1>2, <2>2 DEF ClaimWatch, watchArchive, WatchTypes
<1>3. CASE WatchLeaseExpires
  <2>1. watch \in WatchRows  BY <1>3 DEF WatchLeaseExpires, WatchTypes
  <2>2. watch' \in WatchRows  BY <1>3, <2>1 DEF WatchLeaseExpires, WatchRows
  <2>. QED  BY <1>3, <2>2 DEF WatchLeaseExpires, watchArchive, WatchTypes
<1>4. CASE IntervalPasses
  <2>1. watch \in WatchRows  BY <1>4 DEF IntervalPasses, WatchTypes
  <2>2. watch' \in WatchRows  BY <1>4, <2>1 DEF IntervalPasses, WatchRows
  <2>. QED  BY <1>4, <2>2 DEF IntervalPasses, watchArchive, WatchTypes
<1>5. ASSUME NEW e \in Evaluators, Evaluate(e)
      PROVE  WatchTypes'
  <2>1. watch \in WatchRows  BY <1>5 DEF Evaluate, WatchTypes
  <2>2. moment - Settle \in Moments
    BY <1>5, WatchConstants DEF Evaluate, WatchTypes, Moments
  <2>3. Window(watch, moment - Settle) \in Windows  BY <2>1, <2>2, WindowsAreTyped
  <2>4. watch.token \in WatchTokens \cup {None} /\ watch.viewed \in Moments \cup {None}
    BY <2>1 DEF WatchRows
  <2>5. [token |-> watch.token, viewed |-> watch.viewed,
         window |-> Window(watch, moment - Settle)] \in Evaluations
    BY <2>3, <2>4 DEF Evaluations
  <2>. HIDE DEF Evaluations
  <2>6. evaluator' \in [Evaluators -> {NoEvaluation} \cup Evaluations]
    BY <1>5, <2>5 DEF Evaluate, WatchTypes
  <2>. QED  BY <1>5, <2>6 DEF Evaluate, watchArchive, WatchTypes
<1>6. ASSUME NEW e \in Evaluators, PublishWindow(e)
      PROVE  WatchTypes'
  <2>1. watch \in WatchRows  BY <1>6 DEF PublishWindow, MayPublish, WatchTypes
  <2>2. evaluator[e] \in Evaluations
    BY <1>6 DEF PublishWindow, WatchTypes, NoEvaluation
  <2>3. evaluator[e].window \in Windows  BY <2>2 DEF Evaluations
  <2>. DEFINE window == evaluator[e].window
              owes == watch.notify /\ settings.ready
              counts == Cardinality(window.new)
              unseen == IF window.unseen = None THEN watch.unseen ELSE window.unseen
              pending == IF owes THEN watch.pending + counts ELSE watch.pending
              notified == IF watch.notified = None \/ window.cursor > watch.notified
                          THEN window.cursor ELSE watch.notified
  <2>4. /\ window.cursor \in Moments /\ window.viewed \in Moments \cup {None}
        /\ window.new \subseteq WatchArticles /\ window.unseen \in Nat \cup {None}
    BY <2>3 DEF Windows
  <2>5. counts \in Nat  BY <2>4, CountsAreNumbers
  <2>6. unseen \in Nat  BY <2>1, <2>4 DEF WatchRows
  <2>7. pending \in Nat  BY <2>1, <2>5 DEF WatchRows
  <2>8. notified \in Moments \cup {None}  BY <2>1, <2>4 DEF WatchRows
  <2>9. watch' = [watch EXCEPT
            !.cursor = window.cursor, !.viewed = window.viewed, !.unseen = unseen,
            !.pending = pending, !.notified = notified,
            !.due = FALSE, !.token = None, !.leased = FALSE]
    BY <1>6 DEF PublishWindow
  <2>. HIDE DEF unseen, pending, notified
  <2>10. watch' \in WatchRows  BY <2>1, <2>4, <2>6, <2>7, <2>8, <2>9 DEF WatchRows
  <2>11. counted' \in [WatchArticles -> Nat]
    BY <1>6 DEF PublishWindow, WatchTypes
  <2>12. owed' \subseteq {a \in WatchArticles : counted'[a] > 0}
    BY <1>6, <2>4 DEF PublishWindow, WatchTypes
  <2>13. EvaluationEnds(e) /\ UNCHANGED <<watchArchive, settings, delivery>>
    BY <1>6 DEF PublishWindow
  <2>. QED  BY <1>1, <2>10, <2>11, <2>12, <2>13 DEF watchArchive, WatchTypes
<1>7. ASSUME NEW e \in Evaluators, DropWindow(e)
      PROVE  WatchTypes'
  BY <1>1, <1>7 DEF DropWindow, watchArchive, WatchTypes
<1>8. ASSUME NEW e \in Evaluators, EvaluationFails(e)
      PROVE  WatchTypes'
  <2>1. watch \in WatchRows  BY <1>8 DEF EvaluationFails, WatchTypes
  <2>2. watch' \in WatchRows  BY <1>8, <2>1 DEF EvaluationFails, WatchRows
  <2>. QED  BY <1>1, <1>8, <2>2 DEF EvaluationFails, watchArchive, WatchTypes
<1>. QED  BY <1>2, <1>3, <1>4, <1>5, <1>6, <1>7, <1>8 DEF Evaluating

LEMMA DeliveringIsTyped ==
  ASSUME WatchTypes, Delivering
  PROVE  WatchTypes'
<1>1. ASSUME NEW new \in SettingsRows, SetSettings(new)
      PROVE  WatchTypes'
  BY <1>1 DEF SetSettings, watchArchive, WatchTypes
<1>2. settings \in SettingsRows  BY DEF WatchTypes
<1>3. ASSUME NEW token \in WatchTokens, ClaimDelivery(token)
      PROVE  WatchTypes'
  <2>1. [settings EXCEPT !.token = token, !.leased = TRUE] \in SettingsRows
    BY <1>2, <1>3 DEF SettingsRows
  <2>. QED  BY <1>1, <1>3, <2>1 DEF ClaimDelivery
<1>4. CASE QuietHours
  <2>1. [settings EXCEPT !.quiet = ~@] \in SettingsRows  BY <1>2 DEF SettingsRows
  <2>. QED  BY <1>1, <1>4, <2>1 DEF QuietHours
<1>5. CASE SummaryHour
  <2>1. [settings EXCEPT !.summary = TRUE] \in SettingsRows  BY <1>2 DEF SettingsRows
  <2>. QED  BY <1>1, <1>5, <2>1 DEF SummaryHour
<1>6. CASE WaitEnds
  <2>1. [settings EXCEPT !.waits = FALSE] \in SettingsRows  BY <1>2 DEF SettingsRows
  <2>. QED  BY <1>1, <1>6, <2>1 DEF WaitEnds
<1>7. CASE DeliveryLeaseExpires
  <2>1. [settings EXCEPT !.leased = FALSE] \in SettingsRows  BY <1>2 DEF SettingsRows
  <2>. QED  BY <1>1, <1>7, <2>1 DEF DeliveryLeaseExpires
<1>8. ASSUME delivery' \in Deliveries, watch' \in WatchRows \cup {None}, owed' \subseteq owed,
             UNCHANGED <<watchArchive, evaluator, settings, counted>>
      PROVE  WatchTypes'
  BY <1>8 DEF watchArchive, WatchTypes
<1>9. CASE ReadOwed
  <2>. DEFINE covers == Owing /\ (settings.summary \/ ~settings.quiet)
              news == watch # None /\ watch.enabled /\ watch.unseen > 0
              pc == IF settings.summary THEN (IF news THEN "read" ELSE "sent")
                    ELSE IF covers THEN "read" ELSE "done"
              amount == IF covers THEN watch.pending ELSE 0
              about == IF covers THEN owed ELSE {}
  <2>1. amount \in Nat  BY DEF Owing, WatchTypes, WatchRows
  <2>2. about \in SUBSET WatchArticles  BY DEF WatchTypes
  <2>3. pc \in {"idle", "read", "sent", "failed", "done"}  OBVIOUS
  <2>4. settings.token \in WatchTokens \cup {None} /\ settings.summary \in BOOLEAN
    BY <1>2 DEF SettingsRows
  <2>5. delivery' = [pc |-> pc, token |-> settings.token, summary |-> settings.summary,
                     covered |-> amount, about |-> about]
    BY <1>9 DEF ReadOwed
  <2>. HIDE DEF pc, amount, about
  <2>6. delivery' \in Deliveries  BY <2>1, <2>2, <2>3, <2>4, <2>5 DEF Deliveries
  <2>. QED  BY <1>8, <1>9, <2>6 DEF ReadOwed, WatchTypes
<1>10. CASE TakeOff
  <2>1. delivery' \in Deliveries  BY <1>10 DEF TakeOff, WatchTypes, Deliveries
  <2>2. watch' \in WatchRows \cup {None}
    <3>1. CASE watch = None  BY <1>10, <3>1 DEF TakeOff
    <3>2. CASE watch # None
      <4>1. watch \in WatchRows  BY <3>2 DEF WatchTypes
      <4>2. watch.pending \in Nat /\ delivery.covered \in Nat
        BY <4>1 DEF WatchTypes, WatchRows, Deliveries
      <4>3. TakenOff(watch.pending, delivery.covered) \in Nat  BY <4>2 DEF TakenOff
      <4>4. watch' = [watch EXCEPT !.pending = TakenOff(watch.pending, delivery.covered)]
        BY <1>10, <3>2 DEF TakeOff
      <4>. QED  BY <4>1, <4>3, <4>4 DEF WatchRows
    <3>. QED  BY <3>1, <3>2
  <2>. QED  BY <1>8, <1>10, <2>1, <2>2 DEF TakeOff
<1>11. CASE EndDelivery
  <2>. DEFINE row == IF settings.token = delivery.token
                     THEN [settings EXCEPT !.token = None, !.leased = FALSE] ELSE settings
              ends == IF delivery.pc = "failed" THEN [row EXCEPT !.waits = TRUE]
                      ELSE [row EXCEPT !.waits = FALSE, !.summary = @ /\ ~delivery.summary]
  <2>1. row \in SettingsRows  BY <1>2 DEF SettingsRows
  <2>2. settings' = ends /\ delivery' = NoDelivery
        /\ UNCHANGED <<watchArchive, watch, evaluator, counted, owed>>
    BY <1>11 DEF EndDelivery
  <2>3. delivery.summary \in BOOLEAN  BY DEF WatchTypes, Deliveries
  <2>. HIDE DEF row
  <2>4. [row EXCEPT !.waits = TRUE] \in SettingsRows  BY <2>1 DEF SettingsRows
  <2>5. [row EXCEPT !.waits = FALSE, !.summary = @ /\ ~delivery.summary] \in SettingsRows
    BY <2>1, <2>3 DEF SettingsRows
  <2>6. ends \in SettingsRows  BY <2>4, <2>5
  <2>7. NoDelivery \in Deliveries  BY DEF NoDelivery, Deliveries
  <2>. HIDE DEF ends
  <2>. QED  BY <2>2, <2>6, <2>7 DEF watchArchive, WatchTypes
<1>12. CASE DeliveryDies
  <2>1. NoDelivery \in Deliveries  BY DEF NoDelivery, Deliveries
  <2>. QED  BY <1>8, <1>12, <2>1 DEF DeliveryDies, WatchTypes
<1>13. ASSUME NEW pc \in {"sent", "failed"}, Send(pc)
       PROVE  WatchTypes'
  <2>1. delivery' \in Deliveries  BY <1>13 DEF Send, WatchTypes, Deliveries
  <2>2. owed' \subseteq owed  BY <1>13 DEF Send
  <2>. QED  BY <1>8, <1>13, <2>1, <2>2 DEF Send, WatchTypes
<1>. QED
  BY <1>3, <1>4, <1>5, <1>6, <1>7, <1>9, <1>10, <1>11, <1>12, <1>13 DEF Delivering

LEMMA WatchTypesStep ==
  ASSUME WatchTypes, WatchNext
  PROVE  WatchTypes'
BY ArchiveIsTyped, RequestedIsTyped, EvaluatingIsTyped, DeliveringIsTyped DEF WatchNext

-----------------------------------------------------------------------------
(* Each step keeps the counts. *)

LEMMA SettledStep ==
  ASSUME KeepsUp, WatchTypes, SettledIsSearchable, WatchNext
  PROVE  SettledIsSearchable' /\ ArchiveGrows
<1>1. moment \in Nat /\ Settle \in Nat /\ Settle >= 1
  BY WatchConstants DEF WatchTypes, Moments, KeepsUp
<1>2. ASSUME UNCHANGED watchArchive
      PROVE  SettledIsSearchable' /\ ArchiveGrows
  BY <1>1, <1>2 DEF watchArchive, SettledIsSearchable, ArchiveGrows
<1>3. CASE TimePasses
  <2>1. ASSUME NEW a \in WatchArticles, completed[a] # None, completed[a] + Settle <= moment + 1
        PROVE  a \in searchable
    <3>1. completed[a] \in Nat  BY <2>1 DEF WatchTypes, Moments
    <3>. QED  BY <1>1, <1>3, <2>1, <3>1 DEF TimePasses, KeepsUp
  <2>. QED  BY <1>1, <1>3, <2>1 DEF TimePasses, SettledIsSearchable, ArchiveGrows
<1>4. ASSUME NEW a \in WatchArticles, Completes(a)
      PROVE  SettledIsSearchable' /\ ArchiveGrows
  <2>1. /\ completed' = [completed EXCEPT ![a] = moment] /\ completed[a] = None
        /\ moment' = moment /\ searchable' = searchable
    BY <1>4 DEF Completes
  <2>2. \A b \in WatchArticles : completed'[b] = IF b = a THEN moment ELSE completed[b]
    BY <2>1 DEF WatchTypes
  <2>3. ~(moment + Settle <= moment)  BY <1>1
  <2>. QED  BY <1>1, <2>1, <2>2, <2>3 DEF SettledIsSearchable, ArchiveGrows
<1>5. ASSUME NEW a \in WatchArticles, Indexes(a)
      PROVE  SettledIsSearchable' /\ ArchiveGrows
  BY <1>1, <1>5 DEF Indexes, SettledIsSearchable, ArchiveGrows
<1>6. CASE WatchedArchive  BY <1>3, <1>4, <1>5, <1>6 DEF WatchedArchive
<1>7. CASE Requested
  BY <1>2, <1>7 DEF Requested, Create, Edit, Delete, Switch, SetNotify, PutSettings, View,
                    SetWatch, SetSettings
<1>8. CASE Evaluating
  BY <1>2, <1>8 DEF Evaluating, ClaimWatch, WatchLeaseExpires, IntervalPasses, Evaluate,
                    PublishWindow, DropWindow, EvaluationFails
<1>9. CASE Delivering
  BY <1>2, <1>9 DEF Delivering, ClaimDelivery, QuietHours, SummaryHour, WaitEnds,
                    DeliveryLeaseExpires, ReadOwed, TakeOff, EndDelivery, DeliveryDies, Send,
                    SetSettings
<1>. QED  BY <1>6, <1>7, <1>8, <1>9 DEF WatchNext

\* An evaluation that ends, and the others, which begin nothing.
LEMMA EndingBeginsNone ==
  ASSUME WatchTypes, NEW e \in Evaluators, EvaluationEnds(e), watch' = watch
  PROVE  NoneBegins
<1>1. \A f \in Evaluators : evaluator'[f] = evaluator[f] \/ evaluator'[f].token = None
  BY DEF EvaluationEnds, WatchTypes, NoEvaluation
<1>. QED  BY <1>1 DEF NoneBegins

\* A watch without a cursor and a claim shows no count and awaits no window.
LEMMA BeginningKeeps ==
  ASSUME WatchIsTrue, WatchTypes', SettledIsSearchable', UNCHANGED watchArchive,
         counted' = counted, watch' # None => watch'.cursor = None /\ watch'.token = None
  PROVE  WatchIsTrue'
<1>1. ~HasCursor'  BY DEF HasCursor
<1>2. CountedWasAnnounced'
  BY <1>1 DEF WatchIsTrue, CountedWasAnnounced, watchArchive
<1>3. WindowIsOfTheWatch'  BY DEF WindowIsOfTheWatch
<1>4. CountedOnce'  BY DEF WatchIsTrue, CountedOnce
<1>. QED
  BY <1>1, <1>2, <1>3, <1>4 DEF WatchIsTrue, CursorsAreBehind, UnseenLiesBetween, HasCursor

\* A view up to an earlier evaluation rewinds the cursor to where nothing is unseen.
LEMMA ViewKeeps ==
  ASSUME WatchIsTrue, WatchTypes', SettledIsSearchable', NEW through \in Moments, View(through)
  PROVE  WatchIsTrue'
<1>1. WatchTypes /\ CursorsAreBehind /\ CountedWasAnnounced /\ CountedOnce
  BY DEF WatchIsTrue
<1>2. /\ watch # None /\ watch.cursor # None /\ through <= watch.cursor
      /\ watch' = Viewed(watch, through) /\ counted' = counted /\ UNCHANGED watchArchive
  BY DEF View, SetWatch
<1>3. watch \in WatchRows /\ watch' \in WatchRows
  <2>1. watch \in WatchRows  BY <1>1, <1>2 DEF WatchTypes
  <2>2. Viewed(watch, through) \in WatchRows  BY <2>1 DEF Viewed, WatchRows
  <2>. QED  BY <1>2, <2>1, <2>2
<1>4. /\ watch'.cursor = through /\ watch'.viewed = through /\ watch'.unseen = 0
      /\ watch'.token = None /\ watch'.notified = watch.notified
  BY <1>2, <1>3 DEF Viewed, WatchRows
<1>5. /\ through \in Nat /\ watch.cursor \in Nat /\ watch.notified \in Nat /\ through # None
      /\ watch.cursor + Settle <= moment /\ watch.cursor <= watch.notified
      /\ watch.notified # None /\ moment \in Nat /\ Settle \in Nat
  BY <1>1, <1>2, <1>3, WatchConstants
     DEF CursorsAreBehind, HasCursor, WatchRows, WatchTypes, Moments
<1>6. CursorsAreBehind'
  <2>1. through + Settle <= moment /\ through <= watch.notified  BY <1>2, <1>5
  <2>. QED  BY <1>2, <1>4, <1>5, <2>1 DEF CursorsAreBehind, HasCursor, watchArchive
<1>7. CountedWasAnnounced'
  BY <1>1, <1>2, <1>4 DEF CountedWasAnnounced, HasCursor, watchArchive
<1>8. WindowIsOfTheWatch'  BY <1>4 DEF WindowIsOfTheWatch
<1>9. UnseenLiesBetween'
  <2>1. {a \in WatchArticles :
           /\ completed'[a] # None
           /\ watch'.criteria \in MatchedBy[a]
           /\ through < completed'[a] /\ completed'[a] <= through} = {}
    <3>1. \A a \in WatchArticles : completed'[a] # None => completed'[a] \in Nat
      BY DEF WatchTypes, Moments
    <3>. QED  BY <1>5, <3>1
  <2>2. Cardinality({}) = 0  BY FS_EmptySet
  <2>. QED  BY <1>4, <2>1, <2>2 DEF UnseenLiesBetween
<1>10. CountedOnce'  BY <1>1, <1>2 DEF CountedOnce
<1>. QED  BY <1>6, <1>7, <1>8, <1>9, <1>10 DEF WatchIsTrue

\* An evaluation reads the watch and the index at one moment.
LEMMA EvaluateKeeps ==
  ASSUME KeepsUp, WatchIsTrue, WatchTypes', SettledIsSearchable', NEW e \in Evaluators,
         Evaluate(e)
  PROVE  WatchIsTrue'
<1>1. /\ WatchTypes /\ CursorsAreBehind /\ CountedWasAnnounced /\ CountedOnce
      /\ WindowIsOfTheWatch /\ UnseenLiesBetween
  BY DEF WatchIsTrue
<1>2. /\ moment >= Settle /\ watch # None /\ watch' = watch /\ counted' = counted
      /\ UNCHANGED <<moment, completed, searchable>>
      /\ evaluator' = [evaluator EXCEPT ![e] =
           [token |-> watch.token, viewed |-> watch.viewed,
            window |-> Window(watch, moment - Settle)]]
  BY DEF Evaluate, watchArchive
<1>3. WindowIsOfTheWatch'
  <2>0. ASSUME NEW horizon \in Moments
        PROVE  Window(watch, horizon)' = Window(watch, horizon)
    BY <1>2 DEF Window, NewSince, Matches
  <2>1. SUFFICES ASSUME NEW f \in Evaluators, evaluator'[f].token # None,
                        watch.token = evaluator'[f].token
                 PROVE  \E horizon \in Moments :
                          /\ horizon + Settle <= moment
                          /\ evaluator'[f].window = Window(watch, horizon)
                          /\ \A a \in WatchArticles :
                               counted[a] > 0 => completed[a] <= horizon
    BY <1>2, <2>0 DEF WindowIsOfTheWatch
  <2>2. CASE f # e
    <3>1. evaluator'[f] = evaluator[f]  BY <1>1, <1>2, <2>2 DEF WatchTypes
    <3>. QED  BY <1>1, <1>2, <2>1, <3>1 DEF WindowIsOfTheWatch
  <2>3. CASE f = e
    <3>1. evaluator'[f].window = Window(watch, moment - Settle)
      BY <1>1, <1>2, <2>3 DEF WatchTypes
    <3>2. moment - Settle \in Moments /\ (moment - Settle) + Settle <= moment
      BY <1>1, <1>2, WatchConstants DEF WatchTypes, Moments
    <3>3. ASSUME NEW a \in WatchArticles, counted[a] > 0
          PROVE  completed[a] <= moment - Settle
      <4>1. completed[a] # None /\ completed[a] + Settle <= moment
        BY <1>1, <3>3 DEF CountedWasAnnounced
      <4>2. completed[a] \in Nat /\ moment \in Nat /\ Settle \in Nat
        BY <1>1, <4>1, WatchConstants DEF WatchTypes, Moments
      <4>. QED  BY <4>1, <4>2
    <3>. QED  BY <3>1, <3>2, <3>3
  <2>. QED  BY <2>2, <2>3
<1>. QED
  BY <1>1, <1>2, <1>3
     DEF WatchIsTrue, CursorsAreBehind, CountedWasAnnounced, CountedOnce, UnseenLiesBetween,
         HasCursor

\* What a window says that one of now would say of the same moment.
LEMMA WindowsAreTrue ==
  ASSUME WatchTypes, SettledIsSearchable, CursorsAreBehind, UnseenLiesBetween,
         watch # None, NEW row \in WatchRows, row = watch,
         NEW horizon \in Moments, horizon + Settle <= moment,
         NEW window, window = Window(row, horizon),
         NEW unseen, unseen = IF window.unseen = None THEN row.unseen ELSE window.unseen
  PROVE  /\ window.viewed # None /\ horizon <= window.cursor
         /\ window.cursor + Settle <= moment
         /\ unseen = Cardinality(Between(row.criteria, window.viewed, window.cursor))
         /\ \A a \in window.new :
              /\ completed[a] # None /\ completed[a] <= horizon
              /\ row.cursor # None /\ row.notified < completed[a]
<1>1. /\ moment \in Nat /\ horizon \in Nat /\ Settle \in Nat /\ horizon # None
      /\ \A a \in WatchArticles : completed[a] # None => completed[a] \in Nat
  BY WatchConstants DEF WatchTypes, Moments
<1>2. CASE row.cursor = None
  <2>1. window = [cursor |-> horizon, viewed |-> horizon, unseen |-> 0, new |-> {}]
    BY <1>2 DEF Window
  <2>2. Between(row.criteria, horizon, horizon) = {}  BY <1>1 DEF Between
  <2>3. Cardinality({}) = 0  BY FS_EmptySet
  <2>4. unseen = 0  BY <2>1, WatchConstants
  <2>5. unseen = Cardinality(Between(row.criteria, window.viewed, window.cursor))
    BY <2>1, <2>2, <2>3, <2>4
  <2>6. window.viewed # None /\ horizon <= window.cursor /\ window.cursor + Settle <= moment
    BY <1>1, <2>1
  <2>7. window.new = {}  BY <2>1
  <2>. QED  BY <2>5, <2>6, <2>7
<1>3. CASE row.cursor # None
  <2>1. HasCursor  BY <1>3 DEF HasCursor
  <2>2. /\ row.cursor \in Nat /\ row.viewed \in Moments /\ row.notified \in Nat
        /\ row.cursor \in Moments /\ row.viewed # None /\ row.notified # None
        /\ row.cursor + Settle <= moment /\ row.cursor <= row.notified
    BY <1>3, <2>1 DEF CursorsAreBehind, WatchRows, Moments
  <2>3. row.unseen = Cardinality(Between(row.criteria, row.viewed, row.cursor))
    BY <2>1 DEF UnseenLiesBetween, HasCursor, Between
  <2>4. \A after \in Moments :
          Matches(row.criteria, after, horizon) = Between(row.criteria, after, horizon)
    BY MatchesAreBetween
  <2>5. CASE horizon <= row.cursor
    <3>1. window = [cursor |-> row.cursor, viewed |-> row.viewed, unseen |-> None, new |-> {}]
      BY <1>3, <2>5 DEF Window
    <3>. QED  BY <2>2, <2>3, <2>5, <3>1
  <2>6. CASE ~(horizon <= row.cursor) /\ Matches(row.criteria, row.cursor, horizon) = {}
    <3>1. window = [cursor |-> horizon, viewed |-> row.viewed, unseen |-> None, new |-> {}]
      BY <1>3, <2>6 DEF Window
    <3>2. Between(row.criteria, row.cursor, horizon) = {}  BY <2>2, <2>4, <2>6
    <3>3. Between(row.criteria, row.viewed, horizon)
            = Between(row.criteria, row.viewed, row.cursor)
      <4>1. ASSUME NEW a \in WatchArticles, completed[a] # None, row.criteria \in MatchedBy[a]
            PROVE  completed[a] <= horizon <=> completed[a] <= row.cursor
        <5>1. ~(row.cursor < completed[a] /\ completed[a] <= horizon)
          BY <3>2, <4>1 DEF Between
        <5>. QED  BY <1>1, <2>2, <2>6, <4>1, <5>1
      <4>. QED  BY <4>1 DEF Between
    <3>. QED  BY <1>1, <2>2, <2>3, <3>1, <3>3
  <2>7. CASE ~(horizon <= row.cursor) /\ Matches(row.criteria, row.cursor, horizon) # {}
    <3>1. window = [cursor |-> horizon, viewed |-> row.viewed,
                    unseen |-> Cardinality(Matches(row.criteria, row.viewed, horizon)),
                    new |-> NewSince(row, horizon)]
      BY <1>3, <2>7 DEF Window
    <3>2. Matches(row.criteria, row.viewed, horizon) = Between(row.criteria, row.viewed, horizon)
      BY <2>2, <2>4
    <3>3. Between(row.criteria, row.viewed, horizon) \subseteq WatchArticles  BY DEF Between
    <3>4. Cardinality(Between(row.criteria, row.viewed, horizon)) # None
      BY <3>3, CountsAreNumbers, WatchConstants
    <3>5. unseen = Cardinality(Between(row.criteria, row.viewed, horizon))
      BY <3>1, <3>2, <3>4
    <3>6. Later(row.cursor, row.notified) = row.notified  BY <2>2 DEF Later
    <3>7. \A a \in NewSince(row, horizon) :
            a \in searchable /\ row.notified < completed[a] /\ completed[a] <= horizon
      BY <3>6 DEF NewSince, Matches
    <3>8. \A a \in searchable : completed[a] # None  BY DEF WatchTypes
    <3>. QED  BY <1>1, <1>3, <2>2, <3>1, <3>5, <3>7, <3>8
  <2>. QED  BY <2>5, <2>6, <2>7
<1>. QED  BY <1>2, <1>3

\* What is published, is of articles that were not counted before.
LEMMA PublishKeeps ==
  ASSUME KeepsUp, WatchIsTrue, WatchTypes', SettledIsSearchable', NEW e \in Evaluators,
         PublishWindow(e)
  PROVE  WatchIsTrue'
<1>1. /\ WatchTypes /\ SettledIsSearchable /\ CursorsAreBehind /\ CountedWasAnnounced
      /\ WindowIsOfTheWatch /\ UnseenLiesBetween /\ CountedOnce
  BY DEF WatchIsTrue
<1>. DEFINE window == evaluator[e].window
            owes == watch.notify /\ settings.ready
            unseen == IF window.unseen = None THEN watch.unseen ELSE window.unseen
            pending == IF owes THEN watch.pending + Cardinality(window.new) ELSE watch.pending
            notified == IF watch.notified = None \/ window.cursor > watch.notified
                        THEN window.cursor ELSE watch.notified
<1>2. /\ watch # None /\ evaluator[e].token # None /\ watch.token = evaluator[e].token
      /\ UNCHANGED <<moment, completed, searchable>>
  BY DEF PublishWindow, MayPublish, watchArchive
<1>3. watch' = [watch EXCEPT
          !.cursor = window.cursor, !.viewed = window.viewed, !.unseen = unseen,
          !.pending = pending, !.notified = notified,
          !.due = FALSE, !.token = None, !.leased = FALSE]
  BY DEF PublishWindow
<1>4. counted' = [a \in WatchArticles |->
          IF owes /\ a \in window.new THEN counted[a] + 1 ELSE counted[a]]
  BY DEF PublishWindow
<1>5. PICK row \in WatchRows : row = watch  BY <1>1, <1>2 DEF WatchTypes
<1>6. PICK horizon \in Moments :
        /\ horizon + Settle <= moment
        /\ window = Window(row, horizon)
        /\ \A a \in WatchArticles : counted[a] > 0 => completed[a] <= horizon
  BY <1>1, <1>2, <1>5 DEF WindowIsOfTheWatch
<1>7. /\ window.viewed # None /\ horizon <= window.cursor
      /\ window.cursor + Settle <= moment
      /\ unseen = Cardinality(Between(row.criteria, window.viewed, window.cursor))
      /\ \A a \in window.new :
           /\ completed[a] # None /\ completed[a] <= horizon
           /\ row.cursor # None /\ row.notified < completed[a]
  BY <1>1, <1>2, <1>5, <1>6, WindowsAreTrue
<1>8. window \in Windows  BY <1>1, <1>5, <1>6, WindowsAreTyped
<1>9. /\ window.cursor \in Nat /\ window.cursor # None /\ window.new \subseteq WatchArticles
      /\ horizon \in Nat /\ moment \in Nat /\ Settle \in Nat
      /\ row.notified # None => row.notified \in Nat
      /\ row.notified \in Nat \cup {None}
  BY <1>1, <1>8, WatchConstants DEF WatchTypes, Windows, WatchRows, Moments
<1>10. notified \in Nat /\ notified # None /\ window.cursor <= notified
  BY <1>5, <1>9, WatchConstants
<1>. HIDE DEF unseen, pending, notified
<1>11. /\ watch'.criteria = row.criteria /\ watch'.cursor = window.cursor
       /\ watch'.viewed = window.viewed /\ watch'.unseen = unseen
       /\ watch'.notified = notified /\ watch'.token = None
  BY <1>3, <1>5 DEF WatchRows
<1>. HIDE DEF window, owes
<1>12. CursorsAreBehind'
  BY <1>2, <1>7, <1>10, <1>11 DEF CursorsAreBehind, HasCursor
<1>13. ASSUME NEW a \in WatchArticles, counted'[a] > 0
       PROVE  completed[a] # None /\ completed[a] \in Nat /\ completed[a] <= horizon
  <2>1. CASE counted[a] > 0
    <3>1. completed[a] # None  BY <1>1, <2>1 DEF CountedWasAnnounced
    <3>. QED  BY <1>1, <1>6, <2>1, <3>1 DEF WatchTypes, Moments
  <2>2. CASE a \in window.new  BY <1>1, <1>7, <2>2 DEF WatchTypes, Moments
  <2>. QED  BY <1>4, <1>13, <2>1, <2>2
<1>14. CountedWasAnnounced'
  <2>1. ASSUME NEW a \in WatchArticles, counted'[a] > 0
        PROVE  /\ completed[a] # None /\ completed[a] + Settle <= moment
               /\ completed[a] <= notified
    BY <1>6, <1>7, <1>9, <1>10, <1>13, <2>1
  <2>. QED  BY <1>2, <1>11, <2>1 DEF CountedWasAnnounced, HasCursor
<1>15. WindowIsOfTheWatch'  BY <1>11 DEF WindowIsOfTheWatch
<1>16. UnseenLiesBetween'  BY <1>2, <1>7, <1>11 DEF UnseenLiesBetween, Between
<1>17. CountedOnce'
  <2>1. SUFFICES ASSUME NEW a \in WatchArticles
                 PROVE  counted'[a] <= 1
    BY DEF CountedOnce
  <2>2. counted[a] \in Nat /\ counted[a] <= 1  BY <1>1 DEF WatchTypes, CountedOnce
  <2>3. CASE a \in window.new
    <3>1. counted[a] = 0
      <4>1. SUFFICES ASSUME counted[a] > 0
                     PROVE  FALSE
        BY <2>2
      <4>2. /\ completed[a] # None /\ row.cursor # None /\ row.notified < completed[a]
        BY <1>7, <2>3
      <4>3. HasCursor  BY <1>2, <1>5, <4>2 DEF HasCursor
      <4>4. completed[a] <= row.notified /\ row.notified # None
        BY <1>1, <1>5, <4>1, <4>3 DEF CountedWasAnnounced, CursorsAreBehind
      <4>5. completed[a] \in Nat  BY <1>1, <4>2 DEF WatchTypes, Moments
      <4>. QED  BY <1>9, <4>2, <4>4, <4>5
    <3>. QED  BY <1>4, <3>1
  <2>4. CASE a \notin window.new  BY <1>4, <2>2, <2>4
  <2>. QED  BY <2>3, <2>4
<1>. QED  BY <1>12, <1>14, <1>15, <1>16, <1>17 DEF WatchIsTrue

LEMMA CountsStep ==
  ASSUME KeepsUp, WatchIsTrue, WatchNext
  PROVE  WatchIsTrue'
<1>1. /\ WatchTypes /\ SettledIsSearchable /\ WatchTypes' /\ SettledIsSearchable'
      /\ ArchiveGrows
  BY WatchTypesStep, SettledStep DEF WatchIsTrue
<1>2. ASSUME counted' = counted, WatchGoesOn, NoneBegins
      PROVE  WatchIsTrue'
  BY <1>1, <1>2, GoingOnKeeps
<1>3. ASSUME UNCHANGED <<watch, evaluator, counted>>
      PROVE  WatchIsTrue'
  BY <1>2, <1>3 DEF WatchGoesOn, NoneBegins
<1>4. CASE WatchedArchive
  BY <1>3, <1>4 DEF WatchedArchive, TimePasses, Completes, Indexes
<1>5. CASE Requested
  <2>1. ASSUME NEW criteria \in Criteria, Create(criteria)
        PROVE  WatchIsTrue'
    BY <1>1, <2>1, BeginningKeeps DEF Create, SetWatch, NewWatch
  <2>2. CASE Delete
    BY <1>2, <2>2 DEF Delete, SetWatch, WatchGoesOn, NoneBegins
  <2>3. ASSUME NEW criteria \in Criteria, Edit(criteria)
        PROVE  WatchIsTrue'
    <3>1. watch \in WatchRows  BY <1>1, <2>3 DEF Edit, WatchTypes
    <3>2. watch'.cursor = None /\ watch'.token = None
      BY <2>3, <3>1 DEF Edit, SetWatch, Forgotten, WatchRows
    <3>. QED  BY <1>1, <2>3, <3>2, BeginningKeeps DEF Edit, SetWatch
  <2>4. ASSUME NEW on \in BOOLEAN, Switch(on)
        PROVE  WatchIsTrue'
    <3>1. watch \in WatchRows  BY <1>1, <2>4 DEF Switch, WatchTypes
    <3>. QED
      BY <1>2, <2>4, <3>1 DEF Switch, SetWatch, WatchGoesOn, NoneBegins, WatchRows
  <2>5. ASSUME NEW on \in BOOLEAN, SetNotify(on)
        PROVE  WatchIsTrue'
    <3>1. watch \in WatchRows  BY <1>1, <2>5 DEF SetNotify, WatchTypes
    <3>. QED
      BY <1>2, <2>5, <3>1 DEF SetNotify, SetWatch, WatchGoesOn, NoneBegins, WatchRows
  <2>6. ASSUME NEW on \in BOOLEAN, PutSettings(on)
        PROVE  WatchIsTrue'
    BY <1>3, <2>6 DEF PutSettings, SetSettings
  <2>7. ASSUME NEW through \in Moments, View(through)
        PROVE  WatchIsTrue'
    BY <1>1, <2>7, ViewKeeps
  <2>. QED  BY <1>5, <2>1, <2>2, <2>3, <2>4, <2>5, <2>6, <2>7 DEF Requested
<1>6. CASE Evaluating
  <2>1. ASSUME NEW token \in WatchTokens, ClaimWatch(token)
        PROVE  WatchIsTrue'
    <3>1. watch \in WatchRows  BY <1>1, <2>1 DEF ClaimWatch, WatchTypes
    <3>2. /\ watch'.token = token /\ watch'.criteria = watch.criteria
          /\ watch'.cursor = watch.cursor /\ watch'.viewed = watch.viewed
          /\ watch'.notified = watch.notified /\ watch'.unseen = watch.unseen
      BY <2>1, <3>1 DEF ClaimWatch, WatchRows
    <3>3. \A e \in Evaluators : evaluator'[e].token # token
      BY <2>1 DEF ClaimWatch, TokensInUse
    <3>4. WatchGoesOn /\ NoneBegins /\ counted' = counted
      BY <2>1, <3>2, <3>3 DEF ClaimWatch, WatchGoesOn, NoneBegins
    <3>. QED  BY <1>2, <3>4
  <2>2. CASE WatchLeaseExpires
    <3>1. watch \in WatchRows  BY <1>1, <2>2 DEF WatchLeaseExpires, WatchTypes
    <3>. QED
      BY <1>2, <2>2, <3>1 DEF WatchLeaseExpires, WatchGoesOn, NoneBegins, WatchRows
  <2>3. CASE IntervalPasses
    <3>1. watch \in WatchRows  BY <1>1, <2>3 DEF IntervalPasses, WatchTypes
    <3>. QED
      BY <1>2, <2>3, <3>1 DEF IntervalPasses, WatchGoesOn, NoneBegins, WatchRows
  <2>4. ASSUME NEW e \in Evaluators, Evaluate(e)
        PROVE  WatchIsTrue'
    BY <1>1, <2>4, EvaluateKeeps
  <2>5. ASSUME NEW e \in Evaluators, PublishWindow(e)
        PROVE  WatchIsTrue'
    BY <1>1, <2>5, PublishKeeps
  <2>6. ASSUME NEW e \in Evaluators, DropWindow(e)
        PROVE  WatchIsTrue'
    <3>1. NoneBegins /\ counted' = counted /\ watch' = watch
      BY <1>1, <2>6, EndingBeginsNone DEF DropWindow
    <3>. QED  BY <1>2, <3>1 DEF WatchGoesOn
  <2>7. ASSUME NEW e \in Evaluators, EvaluationFails(e)
        PROVE  WatchIsTrue'
    <3>1. watch \in WatchRows  BY <1>1, <2>7 DEF EvaluationFails, WatchTypes
    <3>2. watch'.token = None /\ counted' = counted /\ WatchGoesOn
      BY <2>7, <3>1 DEF EvaluationFails, WatchGoesOn, WatchRows
    <3>3. NoneBegins  BY <3>2 DEF NoneBegins
    <3>. QED  BY <1>2, <3>2, <3>3
  <2>. QED  BY <1>6, <2>1, <2>2, <2>3, <2>4, <2>5, <2>6, <2>7 DEF Evaluating
<1>7. CASE Delivering
  <2>1. CASE TakeOff
    <3>1. watch # None => watch \in WatchRows  BY <1>1 DEF WatchTypes
    <3>. QED
      BY <1>2, <2>1, <3>1 DEF TakeOff, WatchGoesOn, NoneBegins, WatchRows
  <2>2. CASE ~TakeOff
    BY <1>3, <1>7, <2>2
       DEF Delivering, ClaimDelivery, QuietHours, SummaryHour, WaitEnds, DeliveryLeaseExpires,
           ReadOwed, EndDelivery, DeliveryDies, Send, SetSettings
  <2>. QED  BY <2>1, <2>2
<1>. QED  BY <1>4, <1>5, <1>6, <1>7 DEF WatchNext

LEMMA CountsAtFirst ==
  ASSUME WatchInit
  PROVE  WatchIsTrue
<1>1. WatchTypes
  <2>1. moment \in Moments  BY WatchConstants DEF WatchInit, Moments
  <2>2. settings \in SettingsRows  BY DEF WatchInit, SettingsRows
  <2>3. delivery \in Deliveries  BY DEF WatchInit, NoDelivery, Deliveries
  <2>. QED  BY <2>1, <2>2, <2>3 DEF WatchInit, WatchTypes
<1>. QED
  BY <1>1
     DEF WatchInit, WatchIsTrue, SettledIsSearchable, CursorsAreBehind, CountedWasAnnounced,
         WindowIsOfTheWatch, UnseenLiesBetween, CountedOnce, HasCursor

\* Whatever is viewed, edited, switched or claimed again while an evaluation is under way
\* (search_evaluator, _publish, mark_viewed, update_monitor), the number a watch shows is of
\* the matches completed between the last view and the last evaluation, and no article is
\* counted to be announced twice.  The premise is that the index follows within
\* monitor_settle_seconds, and that those are not none.
THEOREM WatchCountsAreTrueHolds ==
  ASSUME KeepsUp
  PROVE  WatchSpec => []WatchCountsAreTrue
<1>1. WatchInit => WatchIsTrue  BY CountsAtFirst
<1>2. WatchIsTrue /\ [WatchNext]_watchVars => WatchIsTrue'
  <2>1. ASSUME WatchIsTrue, UNCHANGED watchVars
        PROVE  WatchIsTrue'
    <3>1. WatchTypes' /\ SettledIsSearchable'
      BY <2>1
         DEF watchVars, watchArchive, WatchIsTrue, WatchTypes, SettledIsSearchable
    <3>2. ArchiveGrows /\ WatchGoesOn /\ NoneBegins /\ counted' = counted
      <4>1. moment \in Nat  BY <2>1, WatchConstants DEF WatchIsTrue, WatchTypes, Moments
      <4>. QED
        BY <2>1, <4>1 DEF watchVars, watchArchive, ArchiveGrows, WatchGoesOn, NoneBegins
    <3>. QED  BY <2>1, <3>1, <3>2, GoingOnKeeps
  <2>. QED  BY <2>1, CountsStep
<1>3. WatchIsTrue => WatchCountsAreTrue  BY DEF WatchIsTrue, WatchCountsAreTrue
<1>. QED  BY <1>1, <1>2, <1>3, PTL DEF WatchSpec

-----------------------------------------------------------------------------
(* The history of a process. *)

ProcessSpec == ProcessInit /\ [][ProcessNext]_processVars

\* The end of a failed attempt of a queue is the end of its row.
FailureHasItsEnd(row) ==
  process \in Queues /\ row.status = "failed" => row.ended # None /\ row.failedAt = row.ended

IsUnfinished(row) == row.status \in ActiveStatuses

\* Two rows of a thing are not both unfinished; a delivery is one row for good.
OneEach(h) ==
  \A m, n \in DOMAIN h : h[m].thing = h[n].thing =>
    \/ process \in {"reprocessing", "authority", "monitors"}
    \/ process # "search" /\ ~(IsUnfinished(h[m]) /\ IsUnfinished(h[n]))
    \/ m = n

RowsAreRows(h) ==
  /\ DOMAIN h \subseteq 1..MaxRows
  /\ \A n \in DOMAIN h : h[n] \in HistoryRows /\ FailureHasItsEnd(h[n])

HistoryIsSound(h) == RowsAreRows(h) /\ OneEach(h)

\* ProcessesTypeOK, and what the views rely on.
HistoryIsKept ==
  /\ process \in Processed
  /\ living \subseteq Things
  /\ hour \in Hours
  /\ HistoryIsSound(history)

LEMMA LargestNumber ==
  ASSUME NEW T, NEW bound \in Nat, T \subseteq 0..bound, T # {}
  PROVE  Max(T) \in T /\ \A k \in T : k <= Max(T)
<1>. DEFINE Below == {k \in Nat : bound - k \in T}
<1>1. Below \subseteq Nat /\ Below # {}
  <2>1. PICK y \in T : TRUE  OBVIOUS
  <2>2. bound - y \in Nat /\ bound - (bound - y) = y  OBVIOUS
  <2>. QED  BY <2>1, <2>2
<1>2. PICK m \in Below : \A k \in Below : m <= k  BY ONLY <1>1, LeastNumber
<1>3. PICK x \in T : x = bound - m  BY <1>2
<1>4. \A y \in T : x >= y
  <2>1. SUFFICES ASSUME NEW y \in T PROVE x >= y  OBVIOUS
  <2>2. bound - y \in Nat /\ bound - (bound - y) = y  OBVIOUS
  <2>3. m <= bound - y  BY <1>2, <2>2
  <2>. QED  BY <1>3, <2>3
<1>5. Max(T) \in T /\ \A y \in T : Max(T) >= y  BY <1>4 DEF Max
<1>. QED  BY <1>5

LEMMA SmallestNumber ==
  ASSUME NEW T, T \subseteq Nat, T # {}
  PROVE  Min(T) \in T /\ \A k \in T : Min(T) <= k
<1>1. PICK m \in T : \A k \in T : m <= k  BY LeastNumber
<1>. QED  BY <1>1 DEF Min

LEMMA NewestOf ==
  ASSUME NEW T, T \subseteq DOMAIN history, T # {}, RowsAreRows(history)
  PROVE  Max(T) \in T /\ \A k \in T : k <= Max(T)
<1>1. MaxRows \in Nat  BY ProcessBounds
<1>2. T \subseteq 0..MaxRows  BY <1>1 DEF RowsAreRows
<1>. QED  BY ONLY <1>1, <1>2, T # {}, LargestNumber

LEMMA FreshIsNew ==
  ASSUME RowsAreRows(history), NewRowFits
  PROVE  Fresh \in 1..MaxRows /\ Fresh \notin DOMAIN history
<1>1. MaxRows \in Nat  BY ProcessBounds
<1>2. CASE DOMAIN history = {}  BY <1>1, <1>2 DEF Fresh, NewRowFits
<1>3. CASE DOMAIN history # {}
  <2>1. Max(DOMAIN history) \in DOMAIN history /\ \A k \in DOMAIN history : k <= Max(DOMAIN history)
    BY <1>3, NewestOf
  <2>2. Max(DOMAIN history) \in 1..MaxRows  BY <2>1 DEF RowsAreRows
  <2>3. Fresh = Max(DOMAIN history) + 1  BY <1>3 DEF Fresh
  <2>4. Fresh \notin DOMAIN history  BY <1>1, <2>1, <2>2, <2>3
  <2>. QED  BY <1>1, <2>2, <2>3, <2>4 DEF NewRowFits
<1>. QED  BY <1>2, <1>3

LEMMA HoursAreTimes == \A h \in Hours : h \in Int /\ h # None
  BY ProcessBounds DEF Hours

\* A row changed is a row of the same thing, not unfinished again.
Continues(row, next) ==
  /\ next \in HistoryRows
  /\ next.thing = row.thing
  /\ FailureHasItsEnd(next)
  /\ IsUnfinished(next) => IsUnfinished(row) \/ process \in {"search", "monitors"}

LEMMA SoundWhenContinued ==
  ASSUME NEW h, NEW g, HistoryIsSound(h), DOMAIN g \subseteq DOMAIN h,
         \A n \in DOMAIN g : Continues(h[n], g[n])
  PROVE  HistoryIsSound(g)
  BY DEF HistoryIsSound, RowsAreRows, OneEach, Continues

LEMMA SoundWhenChanged ==
  ASSUME HistoryIsSound(history), NEW n \in DOMAIN history, NEW next, Continues(history[n], next)
  PROVE  HistoryIsSound(Changed(n, next))
<1>1. PICK g : g = Changed(n, next)  OBVIOUS
<1>2. DOMAIN g = DOMAIN history /\ \A m \in DOMAIN history : g[m] = IF m = n THEN next ELSE history[m]
  BY <1>1 DEF Changed
<1>3. \A m \in DOMAIN history : Continues(history[m], history[m])
  BY DEF HistoryIsSound, RowsAreRows, Continues
<1>4. \A m \in DOMAIN g : Continues(history[m], g[m])  BY <1>2, <1>3
<1>. QED  BY <1>1, <1>2, <1>4, SoundWhenContinued

LEMMA QueuedRow ==
  ASSUME NEW t \in Things, hour \in Hours, NEW status \in {"queued", "succeeded", "failed"},
         NEW row, row = Row(t, status)
  PROVE  /\ row \in HistoryRows /\ row.thing = t /\ row.status = status
         /\ FailureHasItsEnd(row)
<1>1. hour # None  BY HoursAreTimes
<1>2. row \in HistoryRows
  BY DEF Row, HistoryRows, QueueStatuses, ActiveStatuses
<1>3. row.thing = t /\ row.status = status  BY DEF Row
<1>4. status = "failed" => row.ended = hour /\ row.failedAt = hour  BY DEF Row, ActiveStatuses
<1>. QED  BY <1>1, <1>2, <1>3, <1>4 DEF FailureHasItsEnd
LEMMA SoundWhenWritten ==
  ASSUME NEW h, HistoryIsSound(h), NEW n \in 1..MaxRows, n \notin DOMAIN h,
         NEW row \in HistoryRows, FailureHasItsEnd(row),
         \A m \in DOMAIN h : h[m].thing = row.thing =>
           \/ process \in {"reprocessing", "authority", "monitors"}
           \/ process # "search" /\ ~(IsUnfinished(h[m]) /\ IsUnfinished(row))
  PROVE  HistoryIsSound(Written(h, n, row)) /\ DOMAIN h \subseteq DOMAIN Written(h, n, row)
<1>1. PICK g : g = Written(h, n, row)  OBVIOUS
<1>2. DOMAIN g = DOMAIN h \union {n} /\ g[n] = row /\ \A m \in DOMAIN h : g[m] = h[m]
  BY <1>1 DEF Written
<1>3. RowsAreRows(g)  BY <1>2 DEF HistoryIsSound, RowsAreRows
<1>4. ASSUME NEW k \in DOMAIN g, NEW m \in DOMAIN g, g[k].thing = g[m].thing
      PROVE  \/ process \in {"reprocessing", "authority", "monitors"}
             \/ process # "search" /\ ~(IsUnfinished(g[k]) /\ IsUnfinished(g[m]))
             \/ k = m
  BY <1>2, <1>4 DEF HistoryIsSound, OneEach
<1>5. OneEach(g)  BY <1>4 DEF OneEach
<1>. QED  BY <1>1, <1>2, <1>3, <1>5 DEF HistoryIsSound

LEMMA UnfinishedRows ==
  \A n \in DOMAIN history : n \in Unfinished <=> IsUnfinished(history[n])
  BY DEF Unfinished, Status, IsUnfinished

LEMMA FailedRowContinues ==
  ASSUME NEW row \in HistoryRows, hour \in Hours, NEW status \in {"failed", "retrying"},
         status = "retrying" => IsUnfinished(row), NEW next, next = FailedRow(row, status)
  PROVE  Continues(row, next)
<1>1. hour # None  BY HoursAreTimes
<1>2. /\ next.thing = row.thing /\ next.status = status /\ next.created = row.created
      /\ next.updated = hour /\ next.failedAt = hour /\ next.lease = None /\ next.due = FALSE
      /\ next.ended = IF status = "failed" THEN hour ELSE row.ended
  BY DEF FailedRow, HistoryRows
<1>3. next \in HistoryRows  BY DEF FailedRow, HistoryRows, QueueStatuses, ActiveStatuses
<1>. QED  BY <1>1, <1>2, <1>3 DEF Continues, FailureHasItsEnd, IsUnfinished, ActiveStatuses

LEMMA ReplacingEnds ==
  ASSUME HistoryIsKept, NEW t \in Things
  PROVE  /\ DOMAIN Replacing(t) = DOMAIN history
         /\ \A n \in DOMAIN history :
              /\ Continues(history[n], Replacing(t)[n])
              /\ history[n].thing = t => ~IsUnfinished(Replacing(t)[n])
<1>1. PICK g : g = Replacing(t)  OBVIOUS
<1>2. DOMAIN g = DOMAIN history  BY <1>1 DEF Replacing
<1>3. ASSUME NEW n \in DOMAIN history
      PROVE  /\ Continues(history[n], g[n])
             /\ history[n].thing = t => ~IsUnfinished(g[n])
  <2>1. PICK row \in HistoryRows : row = history[n]
    BY DEF HistoryIsKept, HistoryIsSound, RowsAreRows
  <2>2. FailureHasItsEnd(row)  BY <2>1 DEF HistoryIsKept, HistoryIsSound, RowsAreRows
  <2>3. CASE row.thing # t \/ ~IsUnfinished(row)
    <3>1. g[n] = row  BY <1>1, <2>1, <2>3, UnfinishedRows DEF Replacing
    <3>. QED  BY <2>1, <2>2, <2>3, <3>1 DEF Continues
  <2>4. CASE row.thing = t /\ IsUnfinished(row) /\ process = "feeds"
    <3>1. g[n] = FailedRow(row, "failed")  BY <1>1, <2>1, <2>4, UnfinishedRows DEF Replacing
    <3>2. Continues(row, g[n])  BY <3>1, FailedRowContinues DEF HistoryIsKept
    <3>3. g[n].status = "failed"  BY <3>1 DEF FailedRow, HistoryRows
    <3>. QED  BY <2>1, <3>2, <3>3 DEF IsUnfinished, ActiveStatuses
  <2>5. CASE row.thing = t /\ IsUnfinished(row) /\ process # "feeds"
    <3>1. PICK next : next = [row EXCEPT !.status = "superseded", !.updated = hour, !.lease = None]
      OBVIOUS
    <3>2. g[n] = next  BY <1>1, <2>1, <2>5, <3>1, UnfinishedRows DEF Replacing
    <3>3. next.status = "superseded" /\ next.thing = row.thing  BY <3>1 DEF HistoryRows
    <3>4. next \in HistoryRows  BY <3>1 DEF HistoryRows, HistoryIsKept
    <3>. QED  BY <2>1, <3>2, <3>3, <3>4 DEF Continues, FailureHasItsEnd, IsUnfinished, ActiveStatuses
  <2>. QED  BY <2>3, <2>4, <2>5
<1>. QED  BY <1>1, <1>2, <1>3

LEMMA AskedIsSound ==
  ASSUME HistoryIsKept, NewRowFits, process \notin Recorded, NEW t \in Things
  PROVE  HistoryIsSound(Asked(t)) /\ DOMAIN history \subseteq DOMAIN Asked(t)
<1>1. Fresh \in 1..MaxRows /\ Fresh \notin DOMAIN history
  BY FreshIsNew DEF HistoryIsKept, HistoryIsSound
<1>2. PICK row : row = Row(t, "queued")  OBVIOUS
<1>3. /\ row \in HistoryRows /\ row.thing = t /\ row.status = "queued" /\ FailureHasItsEnd(row)
  BY <1>2, QueuedRow DEF HistoryIsKept
<1>4. CASE Reused(t)
  <2>1. process # "search"  BY <1>4 DEF Reused, Sweeps
  <2>2. Asked(t) = history  BY <1>4, <2>1 DEF Asked
  <2>. QED  BY <2>2 DEF HistoryIsKept
<1>5. CASE ~Reused(t) /\ process = "search" /\ RowsOf(t) # {}
  <2>1. RowsAreRows(history) /\ RowsOf(t) \subseteq DOMAIN history
    BY DEF HistoryIsKept, HistoryIsSound, RowsOf
  <2>2. PICK n \in DOMAIN history : n = Max(RowsOf(t))  BY ONLY <1>5, <2>1, NewestOf
  <2>3. PICK old \in HistoryRows : old = history[n]  BY <2>1 DEF RowsAreRows
  <2>4. PICK next : next = [old EXCEPT !.status = "queued", !.updated = hour, !.ended = None]
    OBVIOUS
  <2>5. next.thing = old.thing /\ next.status = "queued"  BY <2>4 DEF HistoryRows
  <2>6. next \in HistoryRows
    BY <2>4 DEF HistoryRows, QueueStatuses, ActiveStatuses, HistoryIsKept
  <2>7. Continues(history[n], next)
    BY <1>5, <2>3, <2>5, <2>6 DEF Continues, FailureHasItsEnd
  <2>8. Asked(t) = Changed(n, next)  BY <1>5, <2>2, <2>3, <2>4 DEF Asked
  <2>9. DOMAIN Changed(n, next) = DOMAIN history  BY DEF Changed
  <2>. QED  BY <2>7, <2>8, <2>9, SoundWhenChanged DEF HistoryIsKept
<1>6. CASE ~Reused(t) /\ process \in {"nlp", "clustering", "feeds"}
  <2>1. PICK g : g = Replacing(t)  OBVIOUS
  <2>2. /\ DOMAIN g = DOMAIN history
        /\ \A n \in DOMAIN history : /\ Continues(history[n], g[n])
                                     /\ history[n].thing = t => ~IsUnfinished(g[n])
    BY <2>1, ReplacingEnds
  <2>3. HistoryIsSound(g)  BY <2>2, SoundWhenContinued DEF HistoryIsKept
  <2>4. Asked(t) = Written(g, Fresh, row)  BY <1>2, <1>6, <2>1 DEF Asked
  <2>5. \A m \in DOMAIN g : g[m].thing = row.thing => ~IsUnfinished(g[m])
    BY <1>3, <2>2 DEF Continues
  <2>. QED  BY <1>1, <1>3, <1>6, <2>2, <2>3, <2>4, <2>5, SoundWhenWritten
<1>7. CASE /\ ~Reused(t) /\ process \notin {"nlp", "clustering", "feeds"}
           /\ process # "search" \/ RowsOf(t) = {}
  <2>1. Asked(t) = Written(history, Fresh, row)  BY <1>2, <1>7 DEF Asked
  <2>2. process \in Queues \union Runs \union {"feeds", "monitors"}  BY DEF HistoryIsKept, Processed
  <2>3. ASSUME NEW m \in DOMAIN history, history[m].thing = row.thing
        PROVE  \/ process \in {"reprocessing", "authority", "monitors"}
               \/ process # "search" /\ ~(IsUnfinished(history[m]) /\ IsUnfinished(row))
    <3>1. m \in RowsOf(t)  BY <1>3, <2>3 DEF RowsOf
    <3>2. process # "search"  BY <1>7, <3>1
    <3>3. CASE process \in {"reprocessing", "authority", "monitors"}  BY <3>3
    <3>4. CASE process \in {"articles", "source_refresh"}
      <4>1. m \notin Unfinished  BY <1>7, <3>1, <3>4 DEF Reused
      <4>. QED  BY <3>2, <4>1, UnfinishedRows
    <3>5. CASE process \in Sweeps \union {"rebuild"}
      <4>1. m \notin Unfinished  BY <1>7, <3>5 DEF Reused, Sweeps
      <4>. QED  BY <3>2, <4>1, UnfinishedRows
    <3>. QED  BY <1>7, <2>2, <3>2, <3>3, <3>4, <3>5 DEF Queues, Runs
  <2>. QED  BY <1>1, <1>3, <2>1, <2>3, SoundWhenWritten DEF HistoryIsKept
<1>. QED  BY <1>4, <1>5, <1>6, <1>7
-----------------------------------------------------------------------------
(* One lemma per action. A step keeps the history, and but for the cleanup and the recording of  *)
(* an end none takes a row from it.                                                              *)

HistoryStep == HistoryIsSound(history') /\ DOMAIN history \subseteq DOMAIN history'

LEMMA AskStep ==
  ASSUME HistoryIsKept, NEW t \in Things, Ask(t)
  PROVE  HistoryStep
<1>1. process \notin Recorded  BY DEF Ask, Queues, Runs, Sweeps, Recorded
<1>. QED  BY <1>1, AskedIsSound DEF Ask, HistoryStep

LEMMA WatchStep ==
  ASSUME HistoryIsKept, NEW t \in Things, Watch(t)
  PROVE  HistoryStep
<1>1. Fresh \in 1..MaxRows /\ Fresh \notin DOMAIN history
  BY FreshIsNew DEF HistoryIsKept, HistoryIsSound, Watch
<1>2. PICK row : row = Row(t, "queued")  OBVIOUS
<1>3. row \in HistoryRows /\ row.thing = t /\ FailureHasItsEnd(row)
  BY <1>2, QueuedRow DEF HistoryIsKept
<1>4. history' = Written(history, Fresh, row) /\ process = "monitors"  BY <1>2 DEF Watch
<1>. QED  BY <1>1, <1>3, <1>4, SoundWhenWritten DEF HistoryStep, HistoryIsKept

LEMMA ChangeStep ==
  ASSUME HistoryIsKept, NEW n \in DOMAIN history, NEW next, Continues(history[n], next),
         history' = Changed(n, next)
  PROVE  HistoryStep
<1>1. DOMAIN Changed(n, next) = DOMAIN history  BY DEF Changed
<1>. QED  BY <1>1, SoundWhenChanged DEF HistoryStep, HistoryIsKept

LEMMA RowOfHistory ==
  ASSUME HistoryIsKept, NEW n \in DOMAIN history
  PROVE  history[n] \in HistoryRows /\ FailureHasItsEnd(history[n])
  BY DEF HistoryIsKept, HistoryIsSound, RowsAreRows

LEMMA BeginStep ==
  ASSUME HistoryIsKept, NEW n \in DOMAIN history, Begin(n)
  PROVE  HistoryStep
<1>1. PICK row \in HistoryRows : row = history[n] /\ FailureHasItsEnd(row)  BY RowOfHistory
<1>2. PICK next : next = [row EXCEPT
                     !.status = IF process = "monitors" THEN @ ELSE "running",
                     !.lease = IF process \in Queues \union {"monitors"} THEN hour ELSE @,
                     !.updated = hour]
  OBVIOUS
<1>3. next.thing = row.thing /\ next.status = IF process = "monitors" THEN row.status ELSE "running"
  BY <1>2 DEF HistoryRows
<1>4. next \in HistoryRows  BY <1>2 DEF HistoryRows, QueueStatuses, ActiveStatuses, HistoryIsKept
<1>5. process # "monitors" => IsUnfinished(row)
  BY <1>1 DEF Begin, Claims, IsUnfinished, ActiveStatuses
<1>6. FailureHasItsEnd(next)  BY <1>3 DEF FailureHasItsEnd, Queues
<1>7. Continues(row, next)  BY <1>3, <1>4, <1>5, <1>6 DEF Continues
<1>8. history' = Changed(n, next)  BY <1>1, <1>2 DEF Begin
<1>. QED  BY <1>1, <1>7, <1>8, ChangeStep

LEMMA SucceedStep ==
  ASSUME HistoryIsKept, NEW n \in DOMAIN history, Succeed(n)
  PROVE  HistoryStep
<1>1. PICK row \in HistoryRows : row = history[n]  BY RowOfHistory
<1>2. PICK next : next = [row EXCEPT !.status = "succeeded", !.ended = hour,
                                     !.updated = hour, !.lease = None, !.due = FALSE]
  OBVIOUS
<1>3. next.thing = row.thing /\ next.status = "succeeded"  BY <1>2 DEF HistoryRows
<1>4. next \in HistoryRows  BY <1>2 DEF HistoryRows, QueueStatuses, HistoryIsKept
<1>5. Continues(row, next)
  BY <1>3, <1>4 DEF Continues, FailureHasItsEnd, IsUnfinished, ActiveStatuses
<1>6. history' = Changed(n, next)  BY <1>1, <1>2 DEF Succeed
<1>. QED  BY <1>1, <1>5, <1>6, ChangeStep

LEMMA FailStep ==
  ASSUME HistoryIsKept, NEW n \in DOMAIN history, Fail(n)
  PROVE  HistoryStep
<1>1. PICK row \in HistoryRows : row = history[n]  BY RowOfHistory
<1>2. PICK status \in {"failed", "retrying"} :
        /\ history' = Changed(n, FailedRow(row, status))
        /\ status = "retrying" => process \in Queues
  BY <1>1 DEF Fail
<1>3. status = "retrying" => IsUnfinished(row)
  BY <1>1, <1>2 DEF Fail, InHand, Queues, IsUnfinished, ActiveStatuses
<1>4. Continues(row, FailedRow(row, status))  BY <1>3, FailedRowContinues DEF HistoryIsKept
<1>. QED  BY <1>1, <1>2, <1>4, ChangeStep

LEMMA RetryStep ==
  ASSUME HistoryIsKept, NEW n \in DOMAIN history, RetryItem(n)
  PROVE  HistoryStep
<1>1. PICK row \in HistoryRows : row = history[n] /\ FailureHasItsEnd(row)  BY RowOfHistory
<1>2. CASE process = "monitors"
  <2>1. PICK next : next = [row EXCEPT !.updated = hour, !.due = TRUE]  OBVIOUS
  <2>2. next.thing = row.thing /\ next.status = row.status  BY <2>1 DEF HistoryRows
  <2>3. next \in HistoryRows  BY <2>1 DEF HistoryRows, HistoryIsKept
  <2>4. Continues(row, next)
    BY <1>2, <2>2, <2>3 DEF Continues, FailureHasItsEnd, Queues
  <2>5. history' = Changed(n, next)  BY <1>1, <1>2, <2>1 DEF RetryItem, RetriedRow
  <2>. QED  BY <1>1, <2>4, <2>5, ChangeStep
<1>3. CASE process # "monitors"
  <2>1. row.thing \in Things  BY DEF HistoryRows
  <2>2. process \notin Recorded  BY DEF RetryItem, Retryable, Queues, Recorded
  <2>3. history' = Asked(row.thing) /\ NewRowFits  BY <1>1, <1>3 DEF RetryItem, RetriedRow
  <2>. QED  BY <2>1, <2>2, <2>3, AskedIsSound DEF HistoryStep
<1>. QED  BY <1>2, <1>3

LEMMA CandidatesAreRows ==
  ASSUME HistoryIsKept
  PROVE  Candidates \subseteq DOMAIN history
<1>1. ASSUME NEW t \in FailingFeeds
      PROVE  Max(NewestEnded(t)) \in DOMAIN history
  <2>1. NewestEnded(t) # {} /\ NewestEnded(t) \subseteq DOMAIN history
    BY DEF FailingFeeds, NewestEnded, RowsOf
  <2>. QED  BY <2>1, NewestOf DEF HistoryIsKept, HistoryIsSound
<1>2. \A s : Status(s) \subseteq DOMAIN history  BY DEF Status
<1>3. CASE process = "feeds"
  <2>1. Candidates = {Max(NewestEnded(t)) : t \in FailingFeeds}  BY <1>3 DEF Candidates
  <2>. QED  BY <1>1, <2>1
<1>4. CASE process # "feeds"
  <2>1. Candidates \subseteq Status({"failed"})  BY <1>4 DEF Candidates
  <2>. QED  BY <1>2, <2>1
<1>. QED  BY <1>3, <1>4

LEMMA RetryFailedStep ==
  ASSUME HistoryIsKept, RetryFailed
  PROVE  HistoryStep
<1>1. Candidates # {} /\ Candidates \subseteq Nat
  BY CandidatesAreRows DEF RetryFailed, HistoryIsKept, HistoryIsSound, RowsAreRows
<1>2. Min(Candidates) \in DOMAIN history  BY <1>1, SmallestNumber, CandidatesAreRows
<1>. QED  BY <1>2, RetryStep DEF RetryFailed

LEMMA RunNowStep ==
  ASSUME HistoryIsKept, RunNow
  PROVE  HistoryStep
<1>1. PICK t \in Things : t = CHOOSE s \in Things : TRUE  BY ProcessBounds
<1>2. process \notin Recorded  BY DEF RunNow, Sweeps, Recorded
<1>3. history' = Asked(t) /\ NewRowFits  BY <1>1 DEF RunNow
<1>. QED  BY <1>2, <1>3, AskedIsSound DEF HistoryStep

LEMMA StopStep ==
  ASSUME HistoryIsKept, NEW n \in DOMAIN history, StopRun(n)
  PROVE  HistoryStep
<1>1. PICK row \in HistoryRows : row = history[n]  BY RowOfHistory
<1>2. PICK next : next = [row EXCEPT !.status = "stopped", !.ended = hour,
                                     !.updated = hour, !.lease = None]
  OBVIOUS
<1>3. next.thing = row.thing /\ next.status = "stopped"  BY <1>2 DEF HistoryRows
<1>4. next \in HistoryRows  BY <1>2 DEF HistoryRows, HistoryIsKept
<1>5. Continues(row, next)
  BY <1>3, <1>4 DEF Continues, FailureHasItsEnd, IsUnfinished, ActiveStatuses
<1>6. history' = Changed(n, next)  BY <1>1, <1>2 DEF StopRun
<1>. QED  BY <1>1, <1>5, <1>6, ChangeStep

LEMMA HourStep ==
  ASSUME HistoryIsKept, HourPasses
  PROVE  HistoryStep /\ hour' \in Hours
<1>1. DOMAIN history' = DOMAIN history  BY DEF HourPasses
<1>2. ASSUME NEW n \in DOMAIN history
      PROVE  Continues(history[n], history'[n])
  <2>1. PICK row \in HistoryRows : row = history[n] /\ FailureHasItsEnd(row)  BY RowOfHistory
  <2>2. CASE process # "monitors"
    <3>1. history'[n] = row  BY <2>1, <2>2 DEF HourPasses
    <3>. QED  BY <2>1, <3>1 DEF Continues
  <2>3. CASE process = "monitors"
    <3>1. PICK next : next = [row EXCEPT !.due = TRUE]  OBVIOUS
    <3>2. history'[n] = next  BY <2>1, <2>3, <3>1 DEF HourPasses
    <3>3. next.thing = row.thing /\ next.status = row.status  BY <3>1 DEF HistoryRows
    <3>4. next \in HistoryRows  BY <3>1 DEF HistoryRows
    <3>. QED  BY <2>1, <2>3, <3>2, <3>3, <3>4 DEF Continues, FailureHasItsEnd, Queues
  <2>. QED  BY <2>2, <2>3
<1>3. HistoryIsSound(history')  BY <1>1, <1>2, SoundWhenContinued DEF HistoryIsKept
<1>4. hour' \in Hours  BY ProcessBounds DEF HourPasses, Hours, HistoryIsKept
<1>. QED  BY <1>1, <1>3, <1>4 DEF HistoryStep

LEMMA SoundWhenFewer ==
  ASSUME HistoryIsKept, NEW kept \in SUBSET DOMAIN history, NEW g,
         g = [n \in kept |-> history[n]]
  PROVE  HistoryIsSound(g)
<1>1. \A n \in kept : Continues(history[n], g[n])  BY RowOfHistory DEF Continues
<1>. QED  BY <1>1, SoundWhenContinued DEF HistoryIsKept

LEMMA RecordStep ==
  ASSUME HistoryIsKept, NEW status \in {"succeeded", "failed"}, Record(status)
  PROVE  HistoryIsSound(history') /\ ~(DOMAIN history' \subseteq DOMAIN history)
<1>1. Fresh \in 1..MaxRows /\ Fresh \notin DOMAIN history
  BY FreshIsNew DEF HistoryIsKept, HistoryIsSound, Record
<1>2. PICK kept \in SUBSET DOMAIN history, t \in Things :
        history' = Written([n \in kept |-> history[n]], Fresh, Row(t, status))
  BY DEF Record
<1>3. PICK g : g = [n \in kept |-> history[n]]  OBVIOUS
<1>4. PICK row : row = Row(t, status)  OBVIOUS
<1>5. row \in HistoryRows /\ row.status = status /\ FailureHasItsEnd(row)
  BY <1>4, QueuedRow DEF HistoryIsKept
<1>6. ~IsUnfinished(row) /\ process # "search"
  BY <1>5 DEF IsUnfinished, ActiveStatuses, Record, Recorded
<1>7. HistoryIsSound(g) /\ DOMAIN g = kept  BY <1>3, SoundWhenFewer
<1>8. HistoryIsSound(Written(g, Fresh, row))
  BY <1>1, <1>5, <1>6, <1>7, SoundWhenWritten
<1>9. Fresh \in DOMAIN history'  BY <1>2 DEF Written
<1>. QED  BY <1>1, <1>2, <1>3, <1>4, <1>8, <1>9

LEMMA PruneStep ==
  ASSUME HistoryIsKept, Prune
  PROVE  HistoryIsSound(history')
<1>1. DOMAIN history \ Prunable \in SUBSET DOMAIN history  OBVIOUS
<1>2. history' = [n \in DOMAIN history \ Prunable |-> history[n]]  BY DEF Prune
<1>. QED  BY <1>1, <1>2, SoundWhenFewer
LEMMA KeptInit == ProcessInit => HistoryIsKept
<1>. SUFFICES ASSUME ProcessInit PROVE HistoryIsKept  OBVIOUS
<1>1. DOMAIN history = {}  BY DEF ProcessInit
<1>2. process \in Processed /\ living \subseteq Things /\ hour \in Hours
  BY ProcessesObserved, ProcessBounds DEF ProcessInit, Hours
<1>. QED  BY <1>1, <1>2 DEF HistoryIsKept, HistoryIsSound, RowsAreRows, OneEach

\* What any step but the cleanup's does to the rows.
LEMMA HistoryGoesOn ==
  ASSUME HistoryIsKept, ProcessNext
  PROVE  /\ HistoryIsSound(history')
         /\ Prune \/ ~(DOMAIN history' \subseteq DOMAIN history) \/ DOMAIN history \subseteq DOMAIN history'
<1>1. ASSUME NEW t \in Things, Pause(t)
      PROVE  HistoryStep
  BY <1>1 DEF Pause, HistoryStep, HistoryIsKept
<1>. QED
  BY <1>1, AskStep, WatchStep, BeginStep, SucceedStep, FailStep, RetryStep, StopStep, RecordStep,
     RetryFailedStep, RunNowStep, PruneStep, HourStep
  DEF ProcessNext, HistoryStep

LEMMA KeptStep == HistoryIsKept /\ [ProcessNext]_processVars => HistoryIsKept'
<1>1. ASSUME HistoryIsKept, ProcessNext
      PROVE  HistoryIsKept'
  <2>1. process' = process
    BY <1>1 DEF ProcessNext, Ask, Watch, Pause, Begin, Succeed, Fail, RetryItem, StopRun, Record,
      RetryFailed, RunNow, Prune, HourPasses
  <2>2. hour' \in Hours
    BY <1>1, HourStep DEF ProcessNext, Ask, Watch, Pause, Begin, Succeed, Fail, RetryItem, StopRun,
      Record, RetryFailed, RunNow, Prune, HistoryIsKept
  <2>3. living' \subseteq Things
    BY <1>1 DEF ProcessNext, Ask, Watch, Pause, Begin, Succeed, Fail, RetryItem, StopRun, Record,
      RetryFailed, RunNow, Prune, HourPasses, HistoryIsKept
  <2>4. HistoryIsSound(history')  BY <1>1, HistoryGoesOn
  <2>5. HistoryIsSound(history)'
    BY <2>1, <2>4 DEF HistoryIsSound, RowsAreRows, OneEach, FailureHasItsEnd
  <2>. QED  BY <1>1, <2>1, <2>2, <2>3, <2>5 DEF HistoryIsKept
<1>2. ASSUME HistoryIsKept, UNCHANGED processVars
      PROVE  HistoryIsKept'
  BY <1>2 DEF processVars, HistoryIsKept, HistoryIsSound, RowsAreRows, OneEach, FailureHasItsEnd
<1>. QED  BY <1>1, <1>2

-----------------------------------------------------------------------------
(* The views. *)

LEMMA QueueAtRest ==
  ASSUME HistoryIsKept, process \in Queues, CardState = "ok"
  PROVE  NeedsAttention = {}
<1>1. CardState = PerItemState(CountedFailures)  BY DEF CardState, Queues
<1>2. /\ CountedFailures = {} /\ Status({"retrying"}) = {} /\ AtWork = {}
  BY <1>1 DEF PerItemState
<1>3. Status({"queued", "running"}) = {}  BY <1>2 DEF AtWork, Queues
<1>4. SUFFICES ASSUME NEW n \in NeedsAttention
               PROVE  FALSE
  OBVIOUS
<1>5. PICK row \in HistoryRows : row = history[n] /\ FailureHasItsEnd(row)
  BY RowOfHistory DEF NeedsAttention, Listed
<1>6. n \in DOMAIN history /\ n \in Listed  BY DEF NeedsAttention, Listed
<1>7. ShownStatus(n) = row.status  BY <1>5 DEF ShownStatus, Queues
<1>8. row.status = "failed"
  BY <1>2, <1>3, <1>5, <1>6, <1>7 DEF NeedsAttention, Status
<1>9. row.ended # None /\ row.failedAt = row.ended  BY <1>5, <1>8 DEF FailureHasItsEnd
<1>10. InWindow(ListTime(row))
  BY <1>5, <1>6, <1>7, <1>8 DEF Listed, ActiveStatuses
<1>11. ListTime(row) = IF process = "search" THEN row.updated ELSE row.ended
  BY <1>9 DEF ListTime, Queues
<1>12. FailureTime(row) = IF process = "nlp" THEN row.failedAt
                          ELSE IF process = "search" THEN row.updated ELSE row.ended
  BY DEF FailureTime, Queues
<1>13. n \in CountedFailures
  BY <1>5, <1>6, <1>8, <1>9, <1>10, <1>11, <1>12 DEF CountedFailures
<1>. QED  BY <1>2, <1>13

LEMMA FeedsAgree ==
  ASSUME HistoryIsKept
  PROVE  FailingFeeds = {t \in Things : FeedState(t) = "failing"}
<1>1. ASSUME NEW t \in living
      PROVE  t \in FailingFeeds <=> Streak(t) # {}
  <2>1. NewestEnded(t) \subseteq DOMAIN history  BY DEF NewestEnded, RowsOf
  <2>2. DOMAIN history \subseteq Nat  BY DEF HistoryIsKept, HistoryIsSound, RowsAreRows
  <2>3. CASE NewestEnded(t) = {}  BY <2>3 DEF FailingFeeds, Streak, Finished
  <2>4. CASE NewestEnded(t) # {}
    <3>1. PICK m : m = Max(NewestEnded(t))  OBVIOUS
    <3>2. m \in NewestEnded(t) /\ \A k \in NewestEnded(t) : k <= m
      BY <2>1, <2>4, <3>1, NewestOf DEF HistoryIsKept, HistoryIsSound
    <3>3. t \in FailingFeeds <=> history[m].status = "failed"
      BY <2>4, <3>1 DEF FailingFeeds
    <3>4. ASSUME history[m].status = "failed"
          PROVE  m \in Streak(t)
      <4>1. \A later \in NewestEnded(t) : later >= m => later = m
        BY <2>1, <2>2, <3>2
      <4>. QED  BY <3>2, <3>4, <4>1 DEF Streak, Finished
    <3>5. ASSUME NEW n \in Streak(t)
          PROVE  history[m].status = "failed"
      <4>1. n \in NewestEnded(t) /\ m >= n  BY <2>1, <2>2, <3>2 DEF Streak, Finished
      <4>. QED  BY <3>2, <4>1 DEF Streak, Finished
    <3>. QED  BY <3>3, <3>4, <3>5
  <2>. QED  BY <2>3, <2>4
<1>2. FailingFeeds \subseteq living /\ living \subseteq Things  BY DEF FailingFeeds, HistoryIsKept
<1>3. ASSUME NEW t \in Things
      PROVE  FeedState(t) = "failing" <=> t \in living /\ Streak(t) # {}
  BY DEF FeedState
<1>. QED  BY <1>1, <1>2, <1>3

\* Whatever is asked, retried, stopped and deleted, the page's views of a process agree: a queue
\* whose card is at rest hides nothing that needs attention, the failures it counts are on the
\* Operations list, and the feeds it counts as failing are those whose health says so.
THEOREM ViewsAgreeHolds == ProcessSpec => []ViewsAgree
<1>1. HistoryIsKept => ViewsAgree
  <2>1. SUFFICES ASSUME HistoryIsKept PROVE ViewsAgree  OBVIOUS
  <2>2. process \in Queues => CountedFailures \subseteq FailuresOf
    BY DEF CountedFailures, FailuresOf, Queues
  <2>. QED  BY <2>1, <2>2, QueueAtRest, FeedsAgree DEF ViewsAgree
<1>. QED  BY <1>1, KeptInit, KeptStep, PTL DEF ProcessSpec
-----------------------------------------------------------------------------
(* The actions. *)

\* What a step leaves behind when it shrinks the history.
ShrinksSafely ==
  DOMAIN history' # DOMAIN history /\ DOMAIN history' \subseteq DOMAIN history
    => /\ Candidates' = Candidates
       /\ process \notin Recorded => Status({"failed"})' = Status({"failed"})
       /\ \A t \in Things : Needed(t)' = Needed(t)

LEMMA SameNewest ==
  ASSUME RowsAreRows(history), NEW T, T \subseteq DOMAIN history, NEW U, U \subseteq T,
         \A k \in T \ U : \E later \in T : later > k
  PROVE  T # {} => U # {} /\ Max(U) = Max(T)
<1>. SUFFICES ASSUME T # {} PROVE U # {} /\ Max(U) = Max(T)  OBVIOUS
<1>1. DOMAIN history \subseteq Nat  BY DEF RowsAreRows
<1>2. Max(T) \in T /\ \A k \in T : k <= Max(T)  BY NewestOf
<1>3. Max(T) \in U
  <2>1. SUFFICES ASSUME Max(T) \in T \ U PROVE FALSE  BY <1>2
  <2>2. PICK later \in T : later > Max(T)  BY <2>1
  <2>. QED  BY <1>1, <1>2, <2>2
<1>4. Max(U) \in U /\ \A k \in U : k <= Max(U)  BY <1>3, NewestOf
<1>5. Max(U) \in Nat /\ Max(T) \in Nat  BY <1>1, <1>2, <1>4
<1>6. Max(T) <= Max(U) /\ Max(U) <= Max(T)  BY <1>2, <1>3, <1>4
<1>. QED  BY <1>3, <1>5, <1>6

\* The rows a status or a thing picks are those of before that are left.
LEMMA PruneLeaves ==
  ASSUME Prune
  PROVE  /\ DOMAIN history' = DOMAIN history \ Prunable
         /\ \A n \in DOMAIN history' : history'[n] = history[n]
         /\ \A t : RowsOf(t)' = RowsOf(t) \ Prunable
         /\ \A s : Status(s)' = Status(s) \ Prunable
         /\ process' = process /\ living' = living /\ hour' = hour
<1>1. PICK g : g = history'  OBVIOUS
<1>2. g = [n \in DOMAIN history \ Prunable |-> history[n]]  BY <1>1 DEF Prune
<1>3. DOMAIN g = DOMAIN history \ Prunable /\ \A n \in DOMAIN g : g[n] = history[n]
  BY <1>2
<1>4. \A t : RowsOf(t)' = RowsOf(t) \ Prunable  BY <1>1, <1>3 DEF RowsOf
<1>5. \A s : Status(s)' = Status(s) \ Prunable  BY <1>1, <1>3 DEF Status
<1>. QED  BY <1>1, <1>3, <1>4, <1>5 DEF Prune

\* A row is deleted only when a newer one has taken its place.
LEMMA PrunableIsReplaced ==
  ASSUME NEW n \in Prunable
  PROVE  /\ n \in DOMAIN history
         /\ process \notin Recorded => history[n].status \in {"succeeded", "superseded"}
         /\ process \in {"articles", "nlp", "clustering"} =>
              \E later \in RowsOf(history[n].thing) :
                 /\ later > n
                 /\ process # "articles" => history[later].status = "succeeded"
         /\ process \in {"articles", "nlp", "clustering", "search", "retention"}
  BY DEF Prunable, Replaced, Recorded

LEMMA NewestIsLeft ==
  ASSUME HistoryIsKept, Prune, process \in {"articles", "nlp", "clustering"}, NEW t \in Things
  PROVE  RowsOf(t) # {} => RowsOf(t)' # {} /\ Max(RowsOf(t)') = Max(RowsOf(t))
<1>1. PICK T : T = RowsOf(t)  OBVIOUS
<1>2. PICK U : U = RowsOf(t)'  OBVIOUS
<1>3. T \subseteq DOMAIN history /\ U = T \ Prunable  BY <1>1, <1>2, PruneLeaves DEF RowsOf
<1>4. \A k \in T \ U : \E later \in T : later > k
  BY <1>1, <1>3, PrunableIsReplaced DEF RowsOf
<1>. QED  BY <1>1, <1>2, <1>3, <1>4, SameNewest DEF HistoryIsKept, HistoryIsSound

LEMMA SuccessIsLeft ==
  ASSUME HistoryIsKept, Prune, process \in {"nlp", "clustering"}, NEW t \in Things,
         NEW T, T = RowsOf(t) \intersect Status({"succeeded"}),
         NEW U, U = (RowsOf(t) \intersect Status({"succeeded"}))'
  PROVE  (T = {} <=> U = {}) /\ (T # {} => Max(U) = Max(T))
<1>1. U = T \ Prunable  BY PruneLeaves
<1>2. T \subseteq DOMAIN history  BY DEF RowsOf
<1>3. ASSUME NEW k \in T \ U
      PROVE  \E later \in T : later > k
  <2>1. k \in Prunable /\ history[k].thing = t  BY <1>1, <1>3 DEF RowsOf
  <2>2. PICK later \in RowsOf(t) : later > k /\ history[later].status = "succeeded"
    BY <2>1, PrunableIsReplaced
  <2>. QED  BY <2>2 DEF RowsOf, Status
<1>. QED  BY <1>1, <1>2, <1>3, SameNewest DEF HistoryIsKept, HistoryIsSound

RowsOver(h, t) == {n \in DOMAIN h : h[n].thing = t}

LEMMA CandidatesStay ==
  ASSUME HistoryIsKept, Prune
  PROVE  Candidates' = Candidates
<1>1. process' = process /\ living' = living  BY PruneLeaves
<1>2. process \notin Recorded => Status({"failed"})' = Status({"failed"})
  <2>1. \A n \in Status({"failed"}) : history[n].status = "failed"  BY DEF Status
  <2>. QED  BY <2>1, PruneLeaves, PrunableIsReplaced
<1>3. process \in {"articles", "nlp", "clustering", "search", "retention"}
  BY PrunableIsReplaced DEF Prune
<1>4. CASE process \in {"articles", "nlp", "clustering"}
  <2>1. Status({"failed"})' = Status({"failed"})  BY <1>2, <1>4 DEF Recorded
  <2>2. ASSUME NEW n \in Status({"failed"})
        PROVE  Max(RowsOver(history', history'[n].thing)) = Max(RowsOver(history, history[n].thing))
    <3>1. n \in DOMAIN history /\ n \in DOMAIN history'  BY <2>1 DEF Status
    <3>2. PICK t \in Things : t = history[n].thing  BY <3>1, RowOfHistory DEF HistoryRows
    <3>3. history'[n].thing = t  BY <3>1, <3>2, PruneLeaves
    <3>4. RowsOver(history, t) = RowsOf(t) /\ RowsOver(history', t) = RowsOf(t)'
      BY DEF RowsOver, RowsOf
    <3>5. n \in RowsOf(t)  BY <3>1, <3>2 DEF RowsOf
    <3>. QED  BY <1>4, <3>2, <3>3, <3>4, <3>5, NewestIsLeft
  <2>3. Candidates = {n \in Status({"failed"}) : n = Max(RowsOver(history, history[n].thing))}
    BY <1>4 DEF Candidates, RowsOf, RowsOver
  <2>4. Candidates' = {n \in Status({"failed"})' : n = Max(RowsOver(history', history'[n].thing))}
    BY <1>1, <1>4 DEF Candidates, RowsOf, RowsOver
  <2>. QED  BY <2>1, <2>2, <2>3, <2>4
<1>5. CASE process = "search"
  BY <1>1, <1>2, <1>5 DEF Candidates, Recorded
<1>6. CASE process = "retention"
  BY <1>1, <1>6 DEF Candidates
<1>. QED  BY <1>3, <1>4, <1>5, <1>6

LEMMA PruneIsSafe ==
  ASSUME HistoryIsKept, Prune
  PROVE  ShrinksSafely
<1>1. process' = process  BY PruneLeaves
<1>2. process \notin Recorded => Status({"failed"})' = Status({"failed"})
  <2>1. \A n \in Status({"failed"}) : history[n].status = "failed"  BY DEF Status
  <2>. QED  BY <2>1, PruneLeaves, PrunableIsReplaced
<1>3. ASSUME NEW t \in Things
      PROVE  Needed(t)' = Needed(t)
  <2>1. CASE process = "articles"
    <3>1. RowsOf(t) # {} <=> RowsOf(t)' # {}  BY <2>1, NewestIsLeft, PruneLeaves
    <3>2. Needed(t) = {RowsOf(t) # {}}  BY <2>1 DEF Needed
    <3>3. Needed(t)' = {RowsOf(t)' # {}}  BY <1>1, <2>1 DEF Needed
    <3>. QED  BY <3>1, <3>2, <3>3
  <2>2. CASE process \in {"nlp", "clustering"}
    <3>1. PICK T : T = RowsOf(t) \intersect Status({"succeeded"})  OBVIOUS
    <3>2. PICK U : U = (RowsOf(t) \intersect Status({"succeeded"}))'  OBVIOUS
    <3>3. (T = {} <=> U = {}) /\ (T # {} => Max(U) = Max(T))  BY <2>2, <3>1, <3>2, SuccessIsLeft
    <3>4. Needed(t) = IF T # {} THEN {Max(T)} ELSE {}  BY <2>2, <3>1 DEF Needed
    <3>5. Needed(t)' = IF U # {} THEN {Max(U)} ELSE {}  BY <1>1, <2>2, <3>2 DEF Needed
    <3>. QED  BY <3>3, <3>4, <3>5
  <2>3. CASE process \notin {"articles", "nlp", "clustering"}
    BY <1>1, <2>3 DEF Needed
  <2>. QED  BY <2>1, <2>2, <2>3
<1>. QED  BY <1>2, <1>3, CandidatesStay DEF ShrinksSafely

LEMMA OneUnfinished == HistoryIsKept => OneUnfinishedEach
<1>. SUFFICES ASSUME HistoryIsKept, process \notin {"reprocessing", "authority", "monitors"},
                     NEW t \in Things
              PROVE  Cardinality(RowsOf(t) \intersect Unfinished) <= 1
  BY DEF OneUnfinishedEach
<1>1. PICK S : S = RowsOf(t) \intersect Unfinished  OBVIOUS
<1>2. ASSUME NEW m \in S, NEW n \in S
      PROVE  m = n
  <2>1. m \in DOMAIN history /\ n \in DOMAIN history /\ history[m].thing = history[n].thing
    BY <1>1, <1>2 DEF RowsOf
  <2>2. IsUnfinished(history[m]) /\ IsUnfinished(history[n])
    BY <1>1, <1>2, <2>1, UnfinishedRows
  <2>. QED  BY <2>1, <2>2 DEF HistoryIsKept, HistoryIsSound, OneEach
<1>3. CASE S = {}  BY <1>1, <1>3, FS_EmptySet
<1>4. CASE S # {}
  <2>1. PICK m \in S : TRUE  BY <1>4
  <2>2. S = {m}  BY <1>2, <2>1
  <2>. QED  BY <1>1, <2>2, FS_Singleton
<1>. QED  BY <1>3, <1>4

\* However a user retries, asks and stops, an article, a feed, a source or a sweep has one piece
\* of unfinished work at a time; and the cleanup takes nothing a reader depends on, keeps every
\* failure and brings no old one back as what a retry would take.
THEOREM ActionsKeepTheHistoryHolds == ProcessSpec => ActionsKeepTheHistory
<1>1. HistoryIsKept /\ [ProcessNext]_processVars => [ShrinksSafely]_processVars
  <2>1. ASSUME HistoryIsKept, ProcessNext
        PROVE  ShrinksSafely
    BY <2>1, HistoryGoesOn, PruneIsSafe DEF ShrinksSafely
  <2>. QED  BY <2>1
<1>. QED
  BY <1>1, KeptInit, KeptStep, OneUnfinished, PTL
  DEF ProcessSpec, ActionsKeepTheHistory, CleanupRevivesNothing, ShrinksSafely

-----------------------------------------------------------------------------
(* The runs of Wikidata. *)

WikidataSpec == WikidataInit /\ [][WikidataNext]_wikidataVars

Pages == ItemStates \cup {"same", None}

\* A worker and what it has in hand.
Askers ==
  [pc : {"idle", "next", "search", "lightly", "classes", "info", "fully", "found", "suggest",
         "apply", "save", "end"},
   run : Nat, cursor : 0..LastRoot, last : 0..LastRoot, addLabels : BOOLEAN,
   batch : SUBSET Roots, links : [Roots -> ItemOrNone], wanted : [Roots -> SUBSET Items],
   pages : [Items -> Pages], ends : {None, "finished", "failed", "queued"}]

\* What WikidataTypeOK says of them, and the rest of what a worker and a message hold.
RunsTypeOK ==
  /\ file \in FileRows
  /\ site \in [Items -> ItemStates]
  /\ runs \in Seq(RunRows)
  /\ asker \in [RunTokens -> Askers]
  /\ notices \subseteq [run : Nat, token : RunTokens]

\* A sweep owes roots that have no link, and these it has still to come to.
OwesWhatIsOpen(row, links) ==
  /\ row.owes # {} => row.kind = "candidates" /\ row.root = None
  /\ \A r \in row.owes : links[r] = None /\ r > row.cursor
  /\ row.status = "finished" => row.owes = {}

\* A worker that holds its run is where the run is, and what the run owes up to the end of
\* its batch is in its batch.
KeepsStep(w, row) ==
  /\ w.cursor = row.cursor
  /\ w.pc \in {"info", "fully", "apply"} => row.kind = "refresh"
  /\ w.pc \in {"search", "lightly", "classes", "info", "fully", "found", "suggest", "apply"} =>
       \A r \in row.owes : r <= w.last => r \in w.batch
  /\ w.pc = "save" => \A r \in row.owes : r > w.last
  /\ w.pc = "end" /\ w.ends = "finished" => row.owes = {}

RunsAreWorked ==
  /\ RunsTypeOK
  /\ \A i \in DOMAIN runs : OwesWhatIsOpen(runs[i], file.link)
  /\ \A n \in notices : n.run \in DOMAIN runs
  /\ \A t \in RunTokens : asker[t].pc # "idle" =>
       /\ asker[t].run \in DOMAIN runs
       /\ asker[t].pc = "end" => asker[t].ends # None
       /\ Holding(t) => KeepsStep(asker[t], runs[asker[t].run])
-----------------------------------------------------------------------------
(* How the rows go on. *)

\* A run goes on, or its worker or a user ends it or puts it back.
RowFollows(row, next) ==
  /\ next.kind = row.kind /\ next.root = row.root /\ next.cursor = row.cursor
  /\ next.owes \subseteq row.owes
  /\ \/ next.status = row.status /\ next.token = row.token
     \/ /\ row.status \in OpenRunStates /\ next.token = None
        /\ next.status = "finished" => next.owes = {}

OwesOpen(rows, links) == \A i \in 1..Len(rows) : \A r \in rows[i].owes : links[r] = None

RunsFollow(rows, next, links) ==
  /\ next \in Seq(RunRows) /\ Len(rows) <= Len(next)
  /\ \A i \in 1..Len(rows) : RowFollows(rows[i], next[i])
  /\ \A i \in 1..Len(next) : i > Len(rows) => OwesWhatIsOpen(next[i], links)
  /\ OwesOpen(next, links)

LEMMA FollowsUpdate ==
  ASSUME NEW rows \in Seq(RunRows), NEW links, OwesOpen(rows, links), NEW i \in 1..Len(rows),
         NEW row \in RunRows, RowFollows(rows[i], row)
  PROVE  RunsFollow(rows, [rows EXCEPT ![i] = row], links)
<1>1. PICK next : next = [rows EXCEPT ![i] = row]  OBVIOUS
<1>2. /\ next \in Seq(RunRows) /\ Len(next) = Len(rows)
      /\ \A j \in 1..Len(rows) : next[j] = IF j = i THEN row ELSE rows[j]
  BY <1>1, ExceptSeq
<1>3. Len(rows) \in Nat  OBVIOUS
<1>4. \A j \in 1..Len(rows) : RowFollows(rows[j], next[j])  BY <1>2 DEF RowFollows
<1>5. OwesOpen(next, links)  BY <1>2, <1>4 DEF OwesOpen, RowFollows
<1>. QED  BY <1>1, <1>2, <1>3, <1>4, <1>5 DEF RunsFollow

LEMMA FollowsAppend ==
  ASSUME NEW rows \in Seq(RunRows), NEW links, OwesOpen(rows, links),
         NEW row \in RunRows, OwesWhatIsOpen(row, links)
  PROVE  RunsFollow(rows, Append(rows, row), links)
<1>1. PICK next : next = Append(rows, row)  OBVIOUS
<1>2. /\ next \in Seq(RunRows) /\ Len(next) = Len(rows) + 1
      /\ \A j \in 1..Len(rows) : next[j] = rows[j]
      /\ next[Len(rows) + 1] = row
  BY <1>1, AppendProperties
<1>3. Len(rows) \in Nat  OBVIOUS
<1>4. \A j \in 1..Len(next) : j \in 1..Len(rows) \/ j = Len(rows) + 1  BY <1>2, <1>3
<1>5. \A j \in 1..Len(rows) : RowFollows(rows[j], next[j])  BY <1>2 DEF RowFollows
<1>6. OwesOpen(next, links)  BY <1>2, <1>4 DEF OwesOpen, OwesWhatIsOpen
<1>7. \A j \in 1..Len(next) : j > Len(rows) => OwesWhatIsOpen(next[j], links)
  BY <1>2, <1>3, <1>4
<1>. QED  BY <1>1, <1>2, <1>3, <1>5, <1>6, <1>7 DEF RunsFollow

LEMMA FollowsMap ==
  ASSUME NEW rows \in Seq(RunRows), NEW links, NEW next, DOMAIN next = DOMAIN rows,
         next = [i \in DOMAIN rows |-> next[i]],
         \A i \in 1..Len(rows) : next[i] \in RunRows /\ RowFollows(rows[i], next[i]),
         \A i \in 1..Len(rows) : \A r \in next[i].owes : links[r] = None
  PROVE  RunsFollow(rows, next, links)
<1>1. Len(rows) \in Nat /\ DOMAIN rows = 1..Len(rows)  OBVIOUS
<1>2. next \in [1..Len(rows) -> RunRows]  BY <1>1
<1>3. next \in Seq(RunRows)  BY <1>1, <1>2, SeqDef
<1>4. Len(next) = Len(rows)  BY <1>1, <1>3, LenProperties
<1>. QED  BY <1>1, <1>3, <1>4 DEF RunsFollow, OwesOpen

LEMMA FollowsThrough ==
  ASSUME NEW rows \in Seq(RunRows), NEW mid, NEW next, NEW l, NEW links,
         RunsFollow(rows, mid, l), RunsFollow(mid, next, links)
  PROVE  RunsFollow(rows, next, links)
<1>1. Len(rows) \in Nat /\ Len(mid) \in Nat /\ Len(next) \in Nat  BY DEF RunsFollow
<1>2. Len(rows) <= Len(mid) /\ Len(mid) <= Len(next)  BY DEF RunsFollow
<1>3. ASSUME NEW i \in 1..Len(rows)
      PROVE  RowFollows(rows[i], next[i])
  <2>1. i \in 1..Len(mid)  BY <1>1, <1>2
  <2>2. RowFollows(rows[i], mid[i]) /\ RowFollows(mid[i], next[i])  BY <2>1 DEF RunsFollow
  <2>. QED  BY <2>2 DEF RowFollows
<1>4. ASSUME NEW i \in 1..Len(next), i > Len(rows)
      PROVE  OwesWhatIsOpen(next[i], links)
  <2>1. CASE i > Len(mid)  BY <2>1 DEF RunsFollow
  <2>2. CASE ~(i > Len(mid))
    <3>1. i \in 1..Len(mid)  BY <1>1, <2>2
    <3>2. OwesWhatIsOpen(mid[i], l) /\ RowFollows(mid[i], next[i])
      BY <1>4, <3>1 DEF RunsFollow
    <3>3. \A r \in next[i].owes : links[r] = None  BY DEF RunsFollow, OwesOpen
    <3>. QED  BY <3>2, <3>3 DEF OwesWhatIsOpen, RowFollows
  <2>. QED  BY <2>1, <2>2
<1>5. Len(rows) <= Len(next)  BY <1>1, <1>2
<1>. QED  BY <1>3, <1>4, <1>5 DEF RunsFollow

LEMMA FollowsItself ==
  ASSUME NEW rows \in Seq(RunRows), NEW links, OwesOpen(rows, links)
  PROVE  RunsFollow(rows, rows, links)
  BY DEF RunsFollow, RowFollows

LEMMA NewRunIsOpen ==
  ASSUME file \in FileRows, NEW kind \in {"candidates", "refresh"}, NEW root \in Roots \cup {None},
         NEW addLabels \in BOOLEAN, NEW row, row = NewRun(kind, root, addLabels)
  PROVE  /\ row \in RunRows
         /\ kind = "refresh" \/ root # None => row.owes = {}
         /\ OwesWhatIsOpen(row, file.link)
<1>1. row.owes = IF kind = "candidates" /\ root = None THEN {r \in Roots : file.link[r] = None} ELSE {}
  BY DEF NewRun
<1>2. /\ row.kind = kind /\ row.root = root /\ row.status = "queued" /\ row.cursor = 0
  BY DEF NewRun
<1>3. LastRoot \in Nat /\ 0 \in 0..LastRoot  BY WikidataConstants
<1>4. row.owes \in SUBSET Roots  BY <1>1
<1>5. row \in RunRows  BY <1>3, <1>4 DEF NewRun, RunRows, OpenRunStates
<1>6. \A r \in Roots : r > 0  BY DEF Roots
<1>. QED  BY <1>1, <1>2, <1>5, <1>6 DEF OwesWhatIsOpen

LEMMA FetchFollows ==
  ASSUME NEW rows \in Seq(RunRows), NEW links, OwesOpen(rows, links), file \in FileRows,
         NEW r \in Roots, NEW addLabels \in BOOLEAN
  PROVE  RunsFollow(rows, FetchQueued(rows, r, addLabels), links)
<1>1. PICK pending : pending = Pending(rows, "refresh", r)  OBVIOUS
<1>2. CASE pending = {}
  <2>1. PICK row : row = NewRun("refresh", r, addLabels)  OBVIOUS
  <2>2. row \in RunRows /\ row.owes = {}  BY <2>1, NewRunIsOpen
  <2>3. OwesWhatIsOpen(row, links)  BY <2>2 DEF OwesWhatIsOpen
  <2>4. FetchQueued(rows, r, addLabels) = Append(rows, row)  BY <1>1, <1>2, <2>1 DEF FetchQueued
  <2>. QED  BY <2>2, <2>3, <2>4, FollowsAppend
<1>3. CASE pending # {}
  <2>1. pending \subseteq 1..Len(rows)  BY <1>1 DEF Pending
  <2>2. pending \subseteq Nat  BY <2>1
  <2>3. PICK i \in 1..Len(rows) : i = Min(pending)  BY ONLY <1>3, <2>1, <2>2, SmallestNumber
  <2>4. PICK old \in RunRows : old = rows[i]  OBVIOUS
  <2>5. PICK row : row = [old EXCEPT !.addLabels = @ \/ addLabels]  OBVIOUS
  <2>6. row \in RunRows  BY <2>5 DEF RunRows
  <2>7. RowFollows(old, row)  BY <2>5 DEF RowFollows, RunRows
  <2>8. FetchQueued(rows, r, addLabels) = [rows EXCEPT ![i] = row]
    BY <1>1, <1>3, <2>3, <2>4, <2>5 DEF FetchQueued
  <2>. QED  BY <2>4, <2>6, <2>7, <2>8, FollowsUpdate
<1>. QED  BY <1>2, <1>3
-----------------------------------------------------------------------------
(* What a link and a refresh write. *)

\* The items an item stands for.
LEMMA TargetIsItem == ASSUME NEW q \in Items PROVE Target(q) \in Items
  BY WikidataConstants DEF Target

LEMMA LinkedFile ==
  ASSUME NEW f \in FileRows, NEW r \in Roots, NEW q \in Items, NEW g, g = LinkedTo(f, r, q)
  PROVE  /\ g \in FileRows
         /\ g.link = [f.link EXCEPT ![r] = q]
<1>1. PICK ids, labels, candidate :
        /\ ids \in [Roots -> ItemOrNone] /\ labels \in [Roots -> SUBSET Items]
        /\ candidate \in [Roots -> [Items -> CandidateStates]]
        /\ g = [f EXCEPT !.link = [f.link EXCEPT ![r] = q], !.ids = ids,
                         !.candidate = candidate, !.labels = labels]
  <2>1. PICK ids : ids = [f.ids EXCEPT ![r] = IF copy.state[q] = "full" THEN q ELSE f.ids[r]]
    OBVIOUS
  <2>2. ids \in [Roots -> ItemOrNone]  BY <2>1 DEF FileRows, ItemOrNone
  <2>3. PICK candidate : candidate = [f.candidate EXCEPT ![r] = [p \in Items |-> None]]  OBVIOUS
  <2>4. candidate \in [Roots -> [Items -> CandidateStates]]
    BY <2>3 DEF FileRows, CandidateStates
  <2>5. PICK labels : labels = [f.labels EXCEPT ![r] =
          IF copy.state[q] # None THEN f.labels[r] \cup {q} ELSE f.labels[r]]
    OBVIOUS
  <2>6. labels \in [Roots -> SUBSET Items]  BY <2>5 DEF FileRows
  <2>7. g = [f EXCEPT !.link = [f.link EXCEPT ![r] = q], !.ids = ids,
                      !.candidate = candidate, !.labels = labels]
    BY <2>1, <2>3, <2>5 DEF LinkedTo, FileRows
  <2>. QED  BY <2>2, <2>4, <2>6, <2>7
<1>2. [f.link EXCEPT ![r] = q] \in [Roots -> ItemOrNone]  BY DEF FileRows, ItemOrNone
<1>. QED  BY <1>1, <1>2 DEF FileRows

LEMMA RunsOnLinkFollow ==
  ASSUME file \in FileRows, NEW rows \in Seq(RunRows), NEW links \in [Roots -> ItemOrNone],
         OwesOpen(rows, links), NEW r \in Roots, NEW q \in Items
  PROVE  RunsFollow(rows, RunsOnLink(rows, r, q), [links EXCEPT ![r] = q])
<1>1. PICK mid : mid = IF copy.state[q] \in {None, "light"}
                       THEN FetchQueued(rows, r, copy.state[q] = None) ELSE rows
  OBVIOUS
<1>2. RunsFollow(rows, mid, links)  BY <1>1, FetchFollows, FollowsItself
<1>3. mid \in Seq(RunRows) /\ OwesOpen(mid, links)  BY <1>2 DEF RunsFollow
<1>4. PICK next : next = [i \in DOMAIN mid |-> [mid[i] EXCEPT !.owes = @ \ {r}]]  OBVIOUS
<1>5. PICK made : made = [links EXCEPT ![r] = q]  OBVIOUS
<1>6. ASSUME NEW i \in 1..Len(mid)
      PROVE  /\ next[i] \in RunRows /\ RowFollows(mid[i], next[i])
             /\ \A s \in next[i].owes : made[s] = None
  <2>1. PICK old \in RunRows : old = mid[i]  BY <1>3
  <2>2. PICK row : row = [old EXCEPT !.owes = @ \ {r}]  OBVIOUS
  <2>0. i \in DOMAIN mid  BY <1>3
  <2>3. next[i] = row  BY <1>4, <2>0, <2>1, <2>2
  <2>4. row.owes = old.owes \ {r}  BY <2>2 DEF RunRows
  <2>5. old.owes \in SUBSET Roots  BY DEF RunRows
  <2>6. row \in RunRows  BY <2>2, <2>5 DEF RunRows
  <2>7. RowFollows(old, row)  BY <2>2, <2>4 DEF RowFollows, RunRows
  <2>8. \A s \in row.owes : made[s] = None  BY <1>3, <1>5, <2>1, <2>4, <2>5 DEF OwesOpen
  <2>. QED  BY <2>1, <2>3, <2>6, <2>7, <2>8
<1>7. DOMAIN next = DOMAIN mid /\ next = [i \in DOMAIN mid |-> next[i]]  BY <1>4
<1>8. RunsFollow(mid, next, made)  BY ONLY <1>3, <1>6, <1>7, FollowsMap
<1>9. RunsOnLink(rows, r, q) = next  BY <1>1, <1>4 DEF RunsOnLink, Excused
<1>. QED  BY <1>2, <1>5, <1>8, <1>9, FollowsThrough

\* What the roots approved up to one of them have left.
ApprovedSoFar(done) ==
  /\ done \in [file : FileRows, runs : Seq(RunRows)]
  /\ RunsFollow(runs, done.runs, done.file.link)

LEMMA ApprovedIsSound ==
  ASSUME RunsTypeOK, NEW done, ApprovedSoFar(done), NEW r \in Roots
  PROVE  ApprovedSoFar(Approved(done, r))
<1>1. CASE \A q \in ExactOf(file, r) : ~MayLink(done.file, r, Target(q))
  BY <1>1 DEF Approved
<1>2. CASE \E q \in ExactOf(file, r) : MayLink(done.file, r, Target(q))
  <2>1. PICK p \in ExactOf(file, r) :
          p = CHOOSE o \in ExactOf(file, r) : MayLink(done.file, r, Target(o))
    BY <1>2
  <2>2. PICK q \in Items : q = Target(p)  BY TargetIsItem DEF ExactOf
  <2>3. PICK f : f = LinkedTo(done.file, r, q)  OBVIOUS
  <2>4. PICK rows : rows = RunsOnLink(done.runs, r, q)  OBVIOUS
  <2>5. f \in FileRows /\ f.link = [done.file.link EXCEPT ![r] = q]
    BY <2>3, LinkedFile DEF ApprovedSoFar
  <2>6. /\ done.runs \in Seq(RunRows) /\ OwesOpen(done.runs, done.file.link)
        /\ done.file.link \in [Roots -> ItemOrNone]
    BY DEF ApprovedSoFar, RunsFollow, FileRows
  <2>7. RunsFollow(done.runs, rows, f.link)
    BY <2>4, <2>5, <2>6, RunsOnLinkFollow DEF RunsTypeOK
  <2>8. RunsFollow(runs, rows, f.link)  BY <2>7, FollowsThrough DEF RunsTypeOK, ApprovedSoFar
  <2>9. Approved(done, r) = [file |-> f, runs |-> rows]
    BY <1>2, <2>1, <2>2, <2>3, <2>4 DEF Approved
  <2>10. rows \in Seq(RunRows)  BY <2>8 DEF RunsFollow
  <2>. QED  BY <2>5, <2>8, <2>9, <2>10 DEF ApprovedSoFar
<1>. QED  BY <1>1, <1>2
\* A loop that keeps to a set runs to its end in it.
LoopStarts(S, n, start, step) == n \in Nat /\ start \in S /\ step \in [S \X (1..n) -> S]

LoopRuns(after, S, n, start, step) ==
  /\ after \in [0..n -> S]
  /\ \A i \in 0..n : after[i] = IF i = 0 THEN start ELSE step[<<after[i - 1], i>>]

LEMMA LoopIsRun ==
  ASSUME NEW S, NEW n, NEW start, NEW step, LoopStarts(S, n, start, step)
  PROVE  \E after : LoopRuns(after, S, n, start, step)
<1>. USE DEF LoopStarts
<1>. DEFINE Run(after, k) ==
              /\ after \in [0..k -> S]
              /\ \A i \in 0..k : after[i] = IF i = 0 THEN start ELSE step[<<after[i - 1], i>>]
            Done == {k \in Nat : k <= n => \E after : Run(after, k)}
<1>1. 0 \in Done
  <2>1. Run([i \in 0..0 |-> start], 0)  OBVIOUS
  <2>. QED  BY <2>1
<1>2. ASSUME NEW k \in Nat, k \in Done
      PROVE  k + 1 \in Done
  <2>1. SUFFICES ASSUME k + 1 <= n
                 PROVE  \E after : Run(after, k + 1)
    OBVIOUS
  <2>2. PICK before : Run(before, k)  BY <1>2, <2>1
  <2>3. PICK last : last = step[<<before[k], k + 1>>]  OBVIOUS
  <2>4. last \in S  BY <2>1, <2>2, <2>3
  <2>5. PICK after : after = [i \in 0..(k + 1) |-> IF i = k + 1 THEN last ELSE before[i]]  OBVIOUS
  <2>6. after \in [0..(k + 1) -> S]  BY <2>2, <2>4, <2>5
  <2>7. ASSUME NEW i \in 0..(k + 1)
        PROVE  after[i] = IF i = 0 THEN start ELSE step[<<after[i - 1], i>>]
    <3>1. CASE i = k + 1
      <4>1. i - 1 = k /\ k \in 0..(k + 1) /\ k # k + 1 /\ i # 0  BY <3>1
      <4>2. after[i - 1] = before[k] /\ after[i] = last  BY <2>5, <3>1, <4>1
      <4>. QED  BY <2>3, <3>1, <4>1, <4>2
    <3>2. CASE i # k + 1
      <4>1. i \in 0..k  BY <3>2
      <4>2. before[i] = IF i = 0 THEN start ELSE step[<<before[i - 1], i>>]  BY <2>2, <4>1
      <4>3. i # 0 => i - 1 \in 0..(k + 1) /\ i - 1 # k + 1  BY <4>1
      <4>. QED  BY <2>5, <3>2, <4>2, <4>3
    <3>. QED  BY <3>1, <3>2
  <2>8. Run(after, k + 1)  BY <2>6, <2>7
  <2>. QED  BY <2>8
<1>. HIDE DEF Done
<1>3. Nat \subseteq Done  BY <1>1, <1>2, AllNumbers
<1>4. \E after : Run(after, n)  BY <1>3 DEF Done
<1>. QED  BY <1>4 DEF LoopRuns

LEMMA LoopStays ==
  ASSUME NEW S, NEW n \in Nat, NEW loop, loop[0] \in S,
         \A i \in 1..n : loop[i - 1] \in S => loop[i] \in S
  PROVE  loop[n] \in S
<1>. DEFINE Done == {k \in Nat : k <= n => loop[k] \in S}
<1>1. 0 \in Done  OBVIOUS
<1>2. ASSUME NEW k \in Nat, k \in Done
      PROVE  k + 1 \in Done
  <2>1. SUFFICES ASSUME k + 1 <= n PROVE loop[k + 1] \in S  OBVIOUS
  <2>2. k + 1 \in 1..n /\ k = (k + 1) - 1 /\ k <= n  BY <2>1
  <2>3. loop[k] \in S  BY <1>2, <2>2
  <2>. QED  BY <2>2, <2>3
<1>. HIDE DEF Done
<1>3. Nat \subseteq Done  BY <1>1, <1>2, AllNumbers
<1>. QED  BY <1>3 DEF Done

LEMMA ApprovedInTurnIsSound ==
  ASSUME RunsTypeOK, OwesOpen(runs, file.link), NEW all, all = ApprovedInTurn
  PROVE  ApprovedSoFar(all)
<1>. DEFINE loop == CHOOSE after : after = [r \in 0..LastRoot |->
              IF r = 0 THEN [file |-> file, runs |-> runs] ELSE Approved(after[r - 1], r)]
            S == {done \in [file : FileRows, runs : Seq(RunRows)] : ApprovedSoFar(done)}
            start == [file |-> file, runs |-> runs]
            step == [x \in S \X (1..LastRoot) |-> Approved(x[1], x[2])]
<1>1. LastRoot \in Nat /\ Roots = 1..LastRoot  BY WikidataConstants DEF Roots
<1>2. start \in S  BY FollowsItself DEF ApprovedSoFar, RunsTypeOK
<1>3. \A done \in S, r \in 1..LastRoot : Approved(done, r) \in S
  BY <1>1, ApprovedIsSound DEF ApprovedSoFar
<1>4. step \in [S \X (1..LastRoot) -> S]  BY <1>3
<1>5. PICK after : LoopRuns(after, S, LastRoot, start, step)
  <2>. HIDE DEF S, start, step
  <2>1. LoopStarts(S, LastRoot, start, step)  BY <1>1, <1>2, <1>4 DEF LoopStarts
  <2>. QED  BY ONLY <2>1, LoopIsRun
<1>6. \A r \in 0..LastRoot : after[r] = IF r = 0 THEN start ELSE Approved(after[r - 1], r)
  <2>1. \A r \in 1..LastRoot : r - 1 \in 0..LastRoot /\ r # 0  BY <1>1
  <2>2. \A r \in 1..LastRoot : step[<<after[r - 1], r>>] = Approved(after[r - 1], r)
    BY <1>5, <2>1 DEF LoopRuns
  <2>3. \A r \in 0..LastRoot : r = 0 \/ r \in 1..LastRoot  BY <1>1
  <2>. HIDE DEF S, step
  <2>. QED  BY <1>5, <2>2, <2>3 DEF LoopRuns
<1>7. after = [r \in 0..LastRoot |-> IF r = 0 THEN start ELSE Approved(after[r - 1], r)]
  <2>. HIDE DEF S, start, step
  <2>. QED  BY <1>5, <1>6 DEF LoopRuns
<1>8. loop = [r \in 0..LastRoot |-> IF r = 0 THEN start ELSE Approved(loop[r - 1], r)]
  BY <1>7
<1>9. all = loop[LastRoot]  BY DEF ApprovedInTurn
<1>. HIDE DEF loop, S, start, step
<1>10. loop[0] \in S  BY <1>1, <1>2, <1>8
<1>11. \A r \in 1..LastRoot : loop[r - 1] \in S => loop[r] \in S  BY <1>1, <1>3, <1>8
<1>12. loop[LastRoot] \in S  BY ONLY <1>1, <1>10, <1>11, LoopStays
<1>. QED  BY <1>9, <1>12 DEF S

\* A refresh gives no link to a root without one.
LEMMA RefreshedKeepsOpen ==
  ASSUME RunsTypeOK, NEW w \in Askers, NEW f \in FileRows, NEW r \in Roots,
         NEW g, g = Refreshed(w, f, r)
  PROVE  g \in FileRows /\ \A s \in Roots : f.link[s] = None => g.link[s] = None
<1>1. PICK q \in ItemOrNone : q = w.links[r]  BY DEF Askers
<1>2. q # None => q \in Items /\ TurnsInto[q] \in Items  BY WikidataConstants DEF ItemOrNone
<1>3. CASE g = f  BY <1>3
<1>4. CASE q # None /\ w.pages[q] = "ok"
  <2>1. PICK ids : ids = [f.ids EXCEPT ![r] = q]  OBVIOUS
  <2>2. PICK labels : labels = [f.labels EXCEPT ![r] = IF w.addLabels THEN f.labels[r] \cup {q} ELSE f.labels[r]]
    OBVIOUS
  <2>3. g = [f EXCEPT !.ids = ids, !.labels = labels]
    BY <1>1, <1>4, <2>1, <2>2 DEF Refreshed, FileRows
  <2>4. ids \in [Roots -> ItemOrNone]  BY <2>1 DEF FileRows
  <2>5. labels \in [Roots -> SUBSET Items]  BY <1>2, <1>4, <2>2 DEF FileRows
  <2>. QED  BY <2>3, <2>4, <2>5 DEF FileRows
<1>5. CASE q # None /\ w.pages[q] = "redirected" /\ \A s \in Roots : f.link[s] # TurnsInto[q]
  <2>1. PICK link : link = [f.link EXCEPT ![r] = IF f.link[r] = q THEN TurnsInto[q] ELSE f.link[r]]
    OBVIOUS
  <2>2. PICK ids : ids = [f.ids EXCEPT ![r] = IF w.pages[TurnsInto[q]] = "ok" THEN TurnsInto[q] ELSE f.ids[r]]
    OBVIOUS
  <2>3. g = [f EXCEPT !.link = link, !.ids = ids]
    BY <1>1, <1>5, <2>1, <2>2 DEF Refreshed, FileRows
  <2>4. link \in [Roots -> ItemOrNone] /\ \A s \in Roots : f.link[s] = None => link[s] = None
    BY <1>2, <1>5, <2>1 DEF FileRows, ItemOrNone
  <2>5. ids \in [Roots -> ItemOrNone]  BY <1>2, <1>5, <2>2 DEF FileRows, ItemOrNone
  <2>. QED  BY <2>3, <2>4, <2>5 DEF FileRows
<1>. QED  BY <1>1, <1>3, <1>4, <1>5 DEF Refreshed

LEMMA RefreshedInTurnIsSound ==
  ASSUME RunsTypeOK, NEW w \in Askers, NEW g, g = RefreshedInTurn(w)
  PROVE  g \in FileRows /\ \A s \in Roots : file.link[s] = None => g.link[s] = None
<1>. DEFINE loop == CHOOSE after : after = [r \in 0..LastRoot |->
                                      IF r = 0 THEN file ELSE Refreshed(w, after[r - 1], r)]
            S == {f \in FileRows : \A s \in Roots : file.link[s] = None => f.link[s] = None}
            step == [x \in S \X (1..LastRoot) |-> Refreshed(w, x[1], x[2])]
<1>1. LastRoot \in Nat /\ Roots = 1..LastRoot  BY WikidataConstants DEF Roots
<1>2. file \in S  BY DEF RunsTypeOK
<1>3. \A f \in S, r \in 1..LastRoot : Refreshed(w, f, r) \in S
  BY <1>1, RefreshedKeepsOpen
<1>4. step \in [S \X (1..LastRoot) -> S]  BY <1>3
<1>5. PICK after : LoopRuns(after, S, LastRoot, file, step)
  <2>. HIDE DEF S, step
  <2>1. LoopStarts(S, LastRoot, file, step)  BY <1>1, <1>2, <1>4 DEF LoopStarts
  <2>. QED  BY ONLY <2>1, LoopIsRun
<1>6. \A r \in 0..LastRoot : after[r] = IF r = 0 THEN file ELSE Refreshed(w, after[r - 1], r)
  <2>1. \A r \in 1..LastRoot : r - 1 \in 0..LastRoot /\ r # 0  BY <1>1
  <2>2. \A r \in 1..LastRoot : step[<<after[r - 1], r>>] = Refreshed(w, after[r - 1], r)
    BY <1>5, <2>1 DEF LoopRuns
  <2>3. \A r \in 0..LastRoot : r = 0 \/ r \in 1..LastRoot  BY <1>1
  <2>. HIDE DEF S, step
  <2>. QED  BY <1>5, <2>2, <2>3 DEF LoopRuns
<1>7. after = [r \in 0..LastRoot |-> IF r = 0 THEN file ELSE Refreshed(w, after[r - 1], r)]
  <2>. HIDE DEF S, step
  <2>. QED  BY <1>5, <1>6 DEF LoopRuns
<1>8. loop = [r \in 0..LastRoot |-> IF r = 0 THEN file ELSE Refreshed(w, loop[r - 1], r)]
  BY <1>7
<1>9. g = loop[LastRoot]  BY DEF RefreshedInTurn
<1>. HIDE DEF loop, S, step
<1>10. loop[0] \in S  BY <1>1, <1>2, <1>8
<1>11. \A r \in 1..LastRoot : loop[r - 1] \in S => loop[r] \in S  BY <1>1, <1>3, <1>8
<1>12. loop[LastRoot] \in S  BY ONLY <1>1, <1>10, <1>11, LoopStays
<1>. QED  BY <1>9, <1>12 DEF S

-----------------------------------------------------------------------------
(* A step: what the rows, the messages and the workers are left with. *)

EndsAreKept == \A i \in DOMAIN runs : runs[i].status \in Over => runs'[i].status = runs[i].status

WorkerKeeps(t) ==
  asker[t].pc # "idle" =>
    /\ asker[t].run \in DOMAIN runs
    /\ asker[t].pc = "end" => asker[t].ends # None
    /\ Holding(t) => KeepsStep(asker[t], runs[asker[t].run])

LEMMA WorkedWhenFollowed ==
  ASSUME RunsAreWorked, RunsTypeOK', RunsFollow(runs, runs', file'.link),
         \A n \in notices' : n.run \in DOMAIN runs',
         \A t \in RunTokens : asker'[t] = asker[t] \/ WorkerKeeps(t)'
  PROVE  RunsAreWorked' /\ EndsAreKept
<1>1. /\ runs \in Seq(RunRows) /\ runs' \in Seq(RunRows)
      /\ Len(runs) \in Nat /\ Len(runs') \in Nat /\ Len(runs) <= Len(runs')
      /\ DOMAIN runs = 1..Len(runs) /\ DOMAIN runs' = 1..Len(runs')
  BY DEF RunsAreWorked, RunsTypeOK, RunsFollow
<1>2. \A i \in DOMAIN runs : i \in DOMAIN runs' /\ RowFollows(runs[i], runs'[i])
  BY <1>1 DEF RunsFollow
<1>3. ASSUME NEW i \in DOMAIN runs'
      PROVE  OwesWhatIsOpen(runs'[i], file'.link)
  <2>1. CASE i \in DOMAIN runs
    <3>1. OwesWhatIsOpen(runs[i], file.link)  BY <2>1 DEF RunsAreWorked
    <3>2. \A r \in runs'[i].owes : file'.link[r] = None  BY <1>1 DEF RunsFollow, OwesOpen
    <3>. QED  BY <1>2, <2>1, <3>1, <3>2 DEF OwesWhatIsOpen, RowFollows
  <2>2. CASE i \notin DOMAIN runs
    <3>1. i \in 1..Len(runs') /\ i > Len(runs)  BY <1>1, <2>2
    <3>. QED  BY <3>1 DEF RunsFollow
  <2>. QED  BY <2>1, <2>2
<1>4. ASSUME NEW t \in RunTokens, asker'[t] = asker[t], asker[t].pc # "idle"
      PROVE  /\ asker[t].run \in DOMAIN runs'
             /\ asker[t].pc = "end" => asker[t].ends # None
             /\ runs'[asker[t].run].token = t /\ runs'[asker[t].run].status = "running" =>
                  KeepsStep(asker[t], runs'[asker[t].run])
  <2>1. PICK w : w = asker[t]  OBVIOUS
  <2>2. w.run \in DOMAIN runs /\ (w.pc = "end" => w.ends # None)
    BY <1>4, <2>1 DEF RunsAreWorked
  <2>3. RowFollows(runs[w.run], runs'[w.run])  BY <1>2, <2>2
  <2>4. ASSUME runs'[w.run].token = t, runs'[w.run].status = "running"
        PROVE  KeepsStep(w, runs'[w.run])
    <3>1. runs[w.run].token = t /\ runs[w.run].status = "running"
      BY <2>3, <2>4, WikidataConstants DEF RowFollows
    <3>2. KeepsStep(w, runs[w.run])  BY <1>4, <2>1, <3>1 DEF RunsAreWorked, Holding
    <3>. QED  BY <2>3, <3>2 DEF KeepsStep, RowFollows
  <2>. QED  BY <1>2, <2>1, <2>2, <2>4
<1>5. \A t \in RunTokens : asker'[t].pc # "idle" =>
        /\ asker'[t].run \in DOMAIN runs'
        /\ asker'[t].pc = "end" => asker'[t].ends # None
        /\ Holding(t)' => KeepsStep(asker'[t], runs'[asker'[t].run])
  BY <1>4 DEF WorkerKeeps, Holding
<1>6. EndsAreKept
  BY <1>2 DEF EndsAreKept, RowFollows, Over, OpenRunStates
<1>. QED  BY <1>3, <1>5, <1>6 DEF RunsAreWorked

LEMMA OwedAreOpen == RunsAreWorked => OwesOpen(runs, file.link)
  BY DEF RunsAreWorked, RunsTypeOK, OwesOpen, OwesWhatIsOpen
Quiet == UNCHANGED asker /\ notices' \subseteq notices

LEMMA RunsGrow ==
  ASSUME RunsAreWorked, NEW links, RunsFollow(runs, runs', links)
  PROVE  /\ DOMAIN runs \subseteq DOMAIN runs' /\ runs' \in Seq(RunRows)
         /\ \A i \in DOMAIN runs : RowFollows(runs[i], runs'[i])
<1>1. /\ runs \in Seq(RunRows) /\ runs' \in Seq(RunRows)
      /\ Len(runs) \in Nat /\ Len(runs') \in Nat /\ Len(runs) <= Len(runs')
      /\ DOMAIN runs = 1..Len(runs) /\ DOMAIN runs' = 1..Len(runs')
  BY DEF RunsAreWorked, RunsTypeOK, RunsFollow
<1>. QED  BY <1>1 DEF RunsFollow

LEMMA QuietStep ==
  ASSUME RunsAreWorked, Quiet, file' \in FileRows, site' \in [Items -> ItemStates],
         RunsFollow(runs, runs', file'.link)
  PROVE  RunsAreWorked' /\ EndsAreKept
<1>1. DOMAIN runs \subseteq DOMAIN runs' /\ runs' \in Seq(RunRows)  BY RunsGrow
<1>2. RunsTypeOK'  BY <1>1 DEF RunsAreWorked, RunsTypeOK, Quiet
<1>3. \A n \in notices' : n.run \in DOMAIN runs'  BY <1>1 DEF RunsAreWorked, Quiet
<1>. QED  BY <1>2, <1>3, WorkedWhenFollowed DEF Quiet

LEMMA SameRunsFollow ==
  ASSUME RunsAreWorked, NEW links, \A s \in Roots : file.link[s] = None => links[s] = None
  PROVE  RunsFollow(runs, runs, links)
<1>1. runs \in Seq(RunRows)  BY DEF RunsAreWorked, RunsTypeOK
<1>2. OwesOpen(runs, links)
  <2>1. SUFFICES ASSUME NEW i \in 1..Len(runs), NEW r \in runs[i].owes
                 PROVE  links[r] = None
    BY DEF OwesOpen
  <2>2. PICK row \in RunRows : row = runs[i]  BY <1>1
  <2>3. row.owes \in SUBSET Roots  BY DEF RunRows
  <2>4. file.link[r] = None  BY OwedAreOpen DEF OwesOpen
  <2>. QED  BY <2>2, <2>3, <2>4
<1>. QED  BY <1>1, <1>2, FollowsItself

LEMMA ChangesStep ==
  ASSUME RunsAreWorked, WikidataChanges
  PROVE  RunsAreWorked' /\ EndsAreKept
<1>. USE DEF RunsAreWorked, RunsTypeOK
<1>1. ASSUME NEW q \in Items, ItemChanges(q)
      PROVE  RunsAreWorked' /\ EndsAreKept
  <2>1. site' \in [Items -> ItemStates]  BY <1>1 DEF ItemChanges, ItemStates
  <2>2. UNCHANGED <<file, runs, notices, asker>>  BY <1>1 DEF ItemChanges
  <2>3. RunsFollow(runs, runs', file'.link)  BY <2>2, SameRunsFollow
  <2>. HIDE DEF RunsAreWorked
  <2>4. file' \in FileRows  BY <2>2 DEF RunsAreWorked
  <2>. QED  BY <2>1, <2>2, <2>3, <2>4, QuietStep DEF Quiet
<1>2. ASSUME NEW many \in BOOLEAN, DayPasses(many)
      PROVE  RunsAreWorked' /\ EndsAreKept
  <2>1. UNCHANGED <<file, site, notices, asker>>  BY <1>2 DEF DayPasses
  <2>2. runs' = [i \in DOMAIN runs |-> [runs[i] EXCEPT !.createdToday = FALSE, !.endedToday = FALSE]]
    BY <1>2 DEF DayPasses
  <2>3. ASSUME NEW i \in 1..Len(runs)
        PROVE  /\ runs'[i] \in RunRows /\ RowFollows(runs[i], runs'[i])
               /\ \A r \in runs'[i].owes : file'.link[r] = None
    <3>1. PICK old \in RunRows : old = runs[i]  OBVIOUS
    <3>2. PICK row : row = [old EXCEPT !.createdToday = FALSE, !.endedToday = FALSE]  OBVIOUS
    <3>3. i \in DOMAIN runs  OBVIOUS
    <3>4. runs'[i] = row  BY <2>2, <3>1, <3>2, <3>3
    <3>5. row \in RunRows /\ RowFollows(old, row) /\ row.owes = old.owes
      BY <3>2 DEF RunRows, RowFollows
    <3>6. \A r \in old.owes : file.link[r] = None  BY <3>1, OwedAreOpen DEF OwesOpen
    <3>. QED  BY <2>1, <3>1, <3>4, <3>5, <3>6
  <2>4. DOMAIN runs' = DOMAIN runs /\ runs' = [i \in DOMAIN runs |-> runs'[i]]  BY <2>2
  <2>5. PICK rows \in Seq(RunRows) : rows = runs  OBVIOUS
  <2>6. RunsFollow(runs, runs', file'.link)  BY <2>3, <2>4, FollowsMap
  <2>. HIDE DEF RunsAreWorked
  <2>7. file' \in FileRows /\ site' \in [Items -> ItemStates]  BY <2>1 DEF RunsAreWorked
  <2>. QED  BY <2>1, <2>6, <2>7, QuietStep DEF Quiet
<1>3. ASSUME PauseEnds
      PROVE  RunsAreWorked' /\ EndsAreKept
  <2>1. UNCHANGED <<file, site, runs, notices, asker>>  BY <1>3 DEF PauseEnds
  <2>2. RunsFollow(runs, runs', file'.link)  BY <2>1, SameRunsFollow
  <2>3. file' \in FileRows /\ site' \in [Items -> ItemStates]  BY <2>1
  <2>. HIDE DEF RunsAreWorked
  <2>. QED  BY <2>1, <2>2, <2>3, QuietStep DEF Quiet
<1>. QED  BY <1>1, <1>2, <1>3 DEF WikidataChanges

\* A step that changes one row of the runs, or adds one.
LEMMA RowStep ==
  ASSUME RunsAreWorked, OnlyRuns, RunsFollow(runs, runs', file.link)
  PROVE  RunsAreWorked' /\ EndsAreKept
<1>1. UNCHANGED <<file, site, notices, asker>>  BY DEF OnlyRuns
<1>2. file' \in FileRows /\ site' \in [Items -> ItemStates]  BY <1>1 DEF RunsAreWorked, RunsTypeOK
<1>. QED  BY <1>1, <1>2, QuietStep DEF Quiet

LEMMA QueueingStep ==
  ASSUME RunsAreWorked, Queueing
  PROVE  RunsAreWorked' /\ EndsAreKept
<1>1. runs \in Seq(RunRows) /\ file \in FileRows /\ OwesOpen(runs, file.link)
  BY OwedAreOpen DEF RunsAreWorked, RunsTypeOK
<1>2. ASSUME NEW r \in Roots, RequestSearch(r)
      PROVE  RunsAreWorked' /\ EndsAreKept
  <2>1. PICK row : row = NewRun("candidates", r, FALSE)  OBVIOUS
  <2>2. row \in RunRows /\ OwesWhatIsOpen(row, file.link)  BY <1>1, <2>1, NewRunIsOpen
  <2>3. runs' = Append(runs, row) /\ OnlyRuns  BY <1>2, <2>1 DEF RequestSearch
  <2>. QED  BY <1>1, <2>2, <2>3, FollowsAppend, RowStep
<1>3. ASSUME NEW r \in Roots, RequestItemRefresh(r)
      PROVE  RunsAreWorked' /\ EndsAreKept
  <2>1. RunsFollow(runs, FetchQueued(runs, r, FALSE), file.link)  BY <1>1, FetchFollows
  <2>. QED  BY <1>3, <2>1, RowStep DEF RequestItemRefresh
<1>4. ASSUME NEW kind \in {"candidates", "refresh"}, NEW byHand \in BOOLEAN, QueueSweep(kind, byHand)
      PROVE  RunsAreWorked' /\ EndsAreKept
  <2>1. PICK row : row = NewRun(kind, None, FALSE)  OBVIOUS
  <2>2. row \in RunRows /\ OwesWhatIsOpen(row, file.link)  BY <1>1, <2>1, NewRunIsOpen
  <2>3. runs' = Append(runs, row) /\ OnlyRuns  BY <1>4, <2>1 DEF QueueSweep
  <2>. QED  BY <1>1, <2>2, <2>3, FollowsAppend, RowStep
<1>5. ASSUME NEW i \in DOMAIN runs, StopWikidataRun(i)
      PROVE  RunsAreWorked' /\ EndsAreKept
  <2>1. i \in 1..Len(runs)  BY <1>1
  <2>2. PICK old \in RunRows : old = runs[i]  BY <1>1, <2>1
  <2>3. PICK row : row = RunReleased(old, "stopped")  OBVIOUS
  <2>4. row \in RunRows  BY <2>3 DEF RunReleased, RunRows, Over
  <2>5. RowFollows(old, row)
    BY <1>5, <2>2, <2>3 DEF RowFollows, RunReleased, RunRows, StopWikidataRun
  <2>6. runs' = [runs EXCEPT ![i] = row] /\ OnlyRuns  BY <1>5, <2>2, <2>3 DEF StopWikidataRun
  <2>. QED  BY <1>1, <2>1, <2>2, <2>4, <2>5, <2>6, FollowsUpdate, RowStep
<1>. QED  BY <1>2, <1>3, <1>4, <1>5 DEF Queueing

LEMMA LinkStep ==
  ASSUME RunsAreWorked, NEW r \in Roots, NEW q \in Items, Link(r, q)
  PROVE  RunsAreWorked' /\ EndsAreKept
<1>1. runs \in Seq(RunRows) /\ file \in FileRows /\ OwesOpen(runs, file.link)
  BY OwedAreOpen DEF RunsAreWorked, RunsTypeOK
<1>2. PICK p \in Items : p = Target(q)  BY TargetIsItem
<1>3. file' = LinkedTo(file, r, p) /\ runs' = RunsOnLink(runs, r, p)  BY <1>2 DEF Link
<1>4. file' \in FileRows /\ file'.link = [file.link EXCEPT ![r] = p]  BY <1>1, <1>3, LinkedFile
<1>5. file.link \in [Roots -> ItemOrNone]  BY <1>1 DEF FileRows
<1>6. RunsFollow(runs, runs', file'.link)  BY <1>1, <1>3, <1>4, <1>5, RunsOnLinkFollow
<1>7. UNCHANGED <<site, notices, asker>>  BY DEF Link
<1>8. site' \in [Items -> ItemStates]  BY <1>7 DEF RunsAreWorked, RunsTypeOK
<1>. QED  BY <1>4, <1>6, <1>7, <1>8, QuietStep DEF Quiet

\* A step that changes what the roots carry and gives none a link.
LEMMA FileStep ==
  ASSUME RunsAreWorked, file' \in FileRows, UNCHANGED <<site, runs, notices, asker>>,
         \A s \in Roots : file.link[s] = None => file'.link[s] = None
  PROVE  RunsAreWorked' /\ EndsAreKept
<1>1. RunsFollow(runs, runs', file'.link)  BY SameRunsFollow
<1>2. site' \in [Items -> ItemStates]  BY DEF RunsAreWorked, RunsTypeOK
<1>. QED  BY <1>1, <1>2, QuietStep DEF Quiet

LEMMA DecisionStep ==
  ASSUME RunsAreWorked, Decisions
  PROVE  RunsAreWorked' /\ EndsAreKept
<1>1. file \in FileRows  BY DEF RunsAreWorked, RunsTypeOK
<1>2. ASSUME NEW r \in Roots, Unlink(r)
      PROVE  RunsAreWorked' /\ EndsAreKept
  <2>1. PICK link : link = [file.link EXCEPT ![r] = None]  OBVIOUS
  <2>2. PICK ids : ids = [file.ids EXCEPT ![r] = None]  OBVIOUS
  <2>3. file' = [file EXCEPT !.link = link, !.ids = ids]
    BY <1>1, <1>2, <2>1, <2>2 DEF Unlink, FileRows
  <2>4. link \in [Roots -> ItemOrNone] /\ ids \in [Roots -> ItemOrNone]
    BY <1>1, <2>1, <2>2 DEF FileRows, ItemOrNone
  <2>5. \A s \in Roots : file.link[s] = None => link[s] = None  BY <1>1, <2>1 DEF FileRows
  <2>6. file' \in FileRows /\ file'.link = link  BY <1>1, <2>3, <2>4 DEF FileRows
  <2>7. UNCHANGED <<site, runs, notices, asker>>  BY <1>2 DEF Unlink
  <2>. QED  BY <2>5, <2>6, <2>7, FileStep
<1>3. ASSUME NEW r \in Roots, AddItemNames(r)
      PROVE  RunsAreWorked' /\ EndsAreKept
  <2>1. PICK labels : labels = [file.labels EXCEPT ![r] = @ \cup {file.link[r]}]  OBVIOUS
  <2>2. file' = [file EXCEPT !.labels = labels]  BY <1>1, <1>3, <2>1 DEF AddItemNames, FileRows
  <2>3. file.link[r] \in Items  BY <1>1, <1>3 DEF AddItemNames, FileRows, ItemOrNone
  <2>4. labels \in [Roots -> SUBSET Items]  BY <1>1, <2>1, <2>3 DEF FileRows
  <2>5. file' \in FileRows /\ file'.link = file.link  BY <1>1, <2>2, <2>4 DEF FileRows
  <2>6. UNCHANGED <<site, runs, notices, asker>>  BY <1>3 DEF AddItemNames
  <2>. QED  BY <2>5, <2>6, FileStep
<1>4. ASSUME NEW r \in Roots, NEW q \in Items, Dismiss(r, q)
      PROVE  RunsAreWorked' /\ EndsAreKept
  <2>1. PICK marks : marks = [file.candidate[r] EXCEPT ![q] = "dismissed"]  OBVIOUS
  <2>2. PICK candidate : candidate = [file.candidate EXCEPT ![r] = marks]  OBVIOUS
  <2>3. file' = [file EXCEPT !.candidate = candidate]
    BY <1>1, <1>4, <2>1, <2>2 DEF Dismiss, FileRows
  <2>4. marks \in [Items -> CandidateStates]  BY <1>1, <2>1 DEF FileRows, CandidateStates
  <2>5. candidate \in [Roots -> [Items -> CandidateStates]]  BY <1>1, <2>2, <2>4 DEF FileRows
  <2>6. file' \in FileRows /\ file'.link = file.link  BY <1>1, <2>3, <2>5 DEF FileRows
  <2>7. UNCHANGED <<site, runs, notices, asker>>  BY <1>4 DEF Dismiss
  <2>. QED  BY <2>6, <2>7, FileStep
<1>5. ASSUME ApproveExact
      PROVE  RunsAreWorked' /\ EndsAreKept
  <2>1. PICK all : all = ApprovedInTurn  OBVIOUS
  <2>2. RunsTypeOK /\ OwesOpen(runs, file.link)  BY OwedAreOpen DEF RunsAreWorked
  <2>3. ApprovedSoFar(all)  BY <2>1, <2>2, ApprovedInTurnIsSound
  <2>4. file' = all.file /\ runs' = all.runs /\ UNCHANGED <<site, notices, asker>>
    BY <1>5, <2>1 DEF ApproveExact
  <2>5. file' \in FileRows /\ RunsFollow(runs, runs', file'.link)
    BY <2>3, <2>4 DEF ApprovedSoFar
  <2>6. site' \in [Items -> ItemStates]  BY <2>4 DEF RunsAreWorked, RunsTypeOK
  <2>. QED  BY <2>4, <2>5, <2>6, QuietStep DEF Quiet
<1>. QED  BY <1>2, <1>3, <1>4, <1>5, LinkStep DEF Decisions

LEMMA HandingStep ==
  ASSUME RunsAreWorked, Handing
  PROVE  RunsAreWorked' /\ EndsAreKept
<1>1. /\ runs \in Seq(RunRows) /\ file \in FileRows /\ OwesOpen(runs, file.link)
      /\ DOMAIN runs = 1..Len(runs)
  BY OwedAreOpen DEF RunsAreWorked, RunsTypeOK
<1>2. ASSUME NEW i \in DOMAIN runs, RunLeaseExpires(i)
      PROVE  RunsAreWorked' /\ EndsAreKept
  <2>1. i \in 1..Len(runs)  BY <1>1
  <2>2. PICK old \in RunRows : old = runs[i]  BY <1>1, <2>1
  <2>3. PICK row : row = [old EXCEPT !.leased = FALSE]  OBVIOUS
  <2>4. row \in RunRows /\ RowFollows(old, row)  BY <2>3 DEF RunRows, RowFollows
  <2>5. runs' = [runs EXCEPT ![i] = row]  BY <1>2, <2>2, <2>3 DEF RunLeaseExpires
  <2>6. OnlyRuns  BY <1>2 DEF RunLeaseExpires, OnlyRuns
  <2>. QED  BY <1>1, <2>1, <2>2, <2>4, <2>5, <2>6, FollowsUpdate, RowStep
<1>3. ASSUME NEW n \in notices, LoseNotice(n)
      PROVE  RunsAreWorked' /\ EndsAreKept
  <2>1. UNCHANGED <<file, site, runs, asker>> /\ notices' \subseteq notices
    BY <1>3 DEF LoseNotice
  <2>2. RunsFollow(runs, runs', file'.link)  BY <2>1, SameRunsFollow
  <2>3. file' \in FileRows /\ site' \in [Items -> ItemStates]
    BY <2>1 DEF RunsAreWorked, RunsTypeOK
  <2>. QED  BY <2>1, <2>2, <2>3, QuietStep DEF Quiet
<1>4. ASSUME NEW i \in DOMAIN runs, NEW t \in RunTokens, ClaimRun(t, i)
      PROVE  RunsAreWorked' /\ EndsAreKept
  <2>1. i \in 1..Len(runs)  BY <1>1
  <2>2. PICK old \in RunRows : old = runs[i]  BY <1>1, <2>1
  <2>3. PICK row : row = [old EXCEPT !.status = "running", !.token = t, !.leased = TRUE]  OBVIOUS
  <2>4. row \in RunRows  BY <2>3 DEF RunRows, OpenRunStates
  <2>5. runs' = [runs EXCEPT ![i] = row]  BY <1>4, <2>2, <2>3 DEF ClaimRun
  <2>6. /\ runs' \in Seq(RunRows) /\ DOMAIN runs' = DOMAIN runs
        /\ \A j \in DOMAIN runs : runs'[j] = IF j = i THEN row ELSE runs[j]
    BY <1>1, <2>1, <2>4, <2>5, ExceptSeq
  <2>7. old.status \in OpenRunStates  BY <1>4, <2>2 DEF ClaimRun, FreeRuns, OpenRunStates
  <2>8. row.kind = old.kind /\ row.root = old.root /\ row.cursor = old.cursor
        /\ row.owes = old.owes /\ row.status = "running" /\ row.token = t
    BY <2>3 DEF RunRows
  <2>9. EndsAreKept  BY <2>2, <2>6, <2>7 DEF EndsAreKept, Over, OpenRunStates
  <2>10. UNCHANGED <<file, site, asker>> /\ notices' = notices \cup {[run |-> i, token |-> t]}
    BY <1>4 DEF ClaimRun
  <2>11. RunsTypeOK'
    <3>1. i \in Nat  BY <2>1
    <3>. QED  BY <2>6, <2>10, <3>1 DEF RunsAreWorked, RunsTypeOK
  <2>12. \A j \in DOMAIN runs' : OwesWhatIsOpen(runs'[j], file'.link)
    BY <2>2, <2>6, <2>8, <2>10 DEF RunsAreWorked, OwesWhatIsOpen
  <2>13. \A n \in notices' : n.run \in DOMAIN runs'
    BY <2>6, <2>10 DEF RunsAreWorked
  <2>14. ASSUME NEW u \in RunTokens, asker[u].pc # "idle"
         PROVE  WorkerKeeps(u)'
    <3>1. PICK w : w = asker[u]  OBVIOUS
    <3>2. u # t  BY <1>4, <2>14 DEF ClaimRun
    <3>3. w.run \in DOMAIN runs /\ (w.pc = "end" => w.ends # None)
      BY <2>14, <3>1 DEF RunsAreWorked
    <3>4. ASSUME runs'[w.run].token = u, runs'[w.run].status = "running"
          PROVE  KeepsStep(w, runs'[w.run])
      <4>1. runs'[w.run] = runs[w.run]  BY <2>6, <2>8, <3>2, <3>3, <3>4
      <4>2. KeepsStep(w, runs[w.run])
        BY <2>14, <3>1, <3>4, <4>1 DEF RunsAreWorked, Holding
      <4>. QED  BY <4>1, <4>2
    <3>. QED  BY <2>6, <2>10, <3>1, <3>3, <3>4 DEF WorkerKeeps, Holding
  <2>15. \A u \in RunTokens : WorkerKeeps(u)'
    BY <2>10, <2>14 DEF WorkerKeeps
  <2>. QED  BY <2>9, <2>11, <2>12, <2>13, <2>15 DEF RunsAreWorked, WorkerKeeps
<1>. QED  BY <1>2, <1>3, <1>4 DEF Handing
-----------------------------------------------------------------------------
(* The steps of a worker. *)

\* What a worker may be left with: nothing, or the next step of its run.
GoesOn(t, next) ==
  next.pc # "idle" =>
    /\ asker[t].pc # "idle" /\ next.run = asker[t].run
    /\ next.pc = "end" => next.ends # None
    /\ Holding(t) => KeepsStep(next, runs'[next.run])

LEMMA AskerStep ==
  ASSUME RunsAreWorked, NEW t \in RunTokens, NEW next \in Askers,
         asker' = [asker EXCEPT ![t] = next], GoesOn(t, next),
         file' \in FileRows, UNCHANGED site, RunsFollow(runs, runs', file'.link),
         notices' \subseteq notices \cup
           {n \in [run : Nat, token : RunTokens] : asker[t].pc # "idle" /\ n.run = asker[t].run}
  PROVE  RunsAreWorked' /\ EndsAreKept
<1>1. /\ DOMAIN runs \subseteq DOMAIN runs' /\ runs' \in Seq(RunRows)
      /\ \A i \in DOMAIN runs : RowFollows(runs[i], runs'[i])
  BY RunsGrow
<1>2. asker \in [RunTokens -> Askers]  BY DEF RunsAreWorked, RunsTypeOK
<1>3. asker' \in [RunTokens -> Askers]  BY <1>2
<1>4. RunsTypeOK'  BY <1>1, <1>3 DEF RunsAreWorked, RunsTypeOK
<1>5. asker[t].pc # "idle" => asker[t].run \in DOMAIN runs  BY DEF RunsAreWorked
<1>6. \A n \in notices' : n.run \in DOMAIN runs'  BY <1>1, <1>5 DEF RunsAreWorked
<1>7. ASSUME next.pc # "idle"
      PROVE  WorkerKeeps(t)'
  <2>1. /\ next.run = asker[t].run /\ asker[t].pc # "idle" /\ (next.pc = "end" => next.ends # None)
        /\ Holding(t) => KeepsStep(next, runs'[next.run])
    BY <1>7 DEF GoesOn
  <2>2. next.run \in DOMAIN runs  BY <1>5, <2>1
  <2>3. asker'[t] = next  BY <1>2
  <2>4. RowFollows(runs[next.run], runs'[next.run])  BY <1>1, <2>2
  <2>5. runs'[next.run].token = t /\ runs'[next.run].status = "running" => Holding(t)
    BY <2>1, <2>4, WikidataConstants DEF RowFollows, Holding
  <2>. QED  BY <1>1, <2>1, <2>2, <2>3, <2>5 DEF WorkerKeeps, Holding
<1>8. asker'[t] = next /\ \A u \in RunTokens \ {t} : asker'[u] = asker[u]  BY <1>2
<1>9. \A u \in RunTokens : asker'[u] = asker[u] \/ WorkerKeeps(u)'
  BY <1>7, <1>8 DEF WorkerKeeps
<1>. QED  BY <1>4, <1>6, <1>9, WorkedWhenFollowed

\* A step of a worker alone.
LEMMA OwnStep ==
  ASSUME RunsAreWorked, NEW t \in RunTokens, NEW next \in Askers,
         asker' = [asker EXCEPT ![t] = next], GoesOn(t, next),
         UNCHANGED <<file, site, runs, notices>>
  PROVE  RunsAreWorked' /\ EndsAreKept
<1>1. RunsFollow(runs, runs', file'.link)  BY SameRunsFollow
<1>2. file' \in FileRows  BY DEF RunsAreWorked, RunsTypeOK
<1>. QED  BY <1>1, <1>2, AskerStep

LEMMA NobodyIsAsker == Nobody \in Askers /\ Nobody.pc = "idle"
<1>1. LastRoot \in Nat  BY WikidataConstants
<1>2. 0 \in 0..LastRoot  BY <1>1
<1>3. None \in ItemOrNone /\ None \in Pages  BY DEF ItemOrNone, Pages
<1>4. [r \in Roots |-> None] \in [Roots -> ItemOrNone]  BY <1>3
<1>5. [q \in Items |-> None] \in [Items -> Pages]  BY <1>3
<1>. QED  BY <1>2, <1>4, <1>5 DEF Nobody, Askers

LEMMA HeldRun ==
  ASSUME RunsAreWorked, NEW t \in RunTokens, asker[t].pc # "idle"
  PROVE  /\ asker[t] \in Askers /\ asker[t].run \in DOMAIN runs
         /\ runs[asker[t].run] \in RunRows
         /\ OwesWhatIsOpen(runs[asker[t].run], file.link)
         /\ asker[t].pc = "end" => asker[t].ends # None
         /\ Holding(t) => KeepsStep(asker[t], runs[asker[t].run])
  BY DEF RunsAreWorked, RunsTypeOK

\* The first roots of a search, up to the last of them, are all there are.
LEMMA BatchIsFull ==
  ASSUME NEW after, after \subseteq Roots, NEW batch,
         batch = {r \in after : Cardinality({s \in after : s < r}) < SweepBatch}, batch # {},
         NEW r \in after, r <= Max(batch)
  PROVE  r \in batch
<1>1. LastRoot \in Nat /\ SweepBatch \in Nat  BY WikidataConstants
<1>0. after \subseteq 1..LastRoot /\ IsFiniteSet(Roots)  BY <1>1, FS_Interval DEF Roots
<1>2. Max(batch) \in batch /\ Max(batch) \in after
  <2>1. LastRoot \in Nat  BY <1>1
  <2>0. batch \subseteq after  OBVIOUS
  <2>2. batch \subseteq 0..LastRoot
    <3>1. 1..LastRoot \subseteq 0..LastRoot  BY <2>1
    <3>. QED  BY ONLY <1>0, <2>0, <3>1
  <2>3. Max(batch) \in batch  BY ONLY <2>1, <2>2, batch # {}, LargestNumber
  <2>. QED  BY <2>0, <2>3
<1>3. PICK m : m = Max(batch)  OBVIOUS
<1>4. m \in after /\ r \in after /\ r <= m /\ \A s \in after : s \in Nat
  <2>1. \A s \in 1..LastRoot : s \in Nat  BY <1>1
  <2>2. \A s \in after : s \in Nat  BY ONLY <1>0, <2>1
  <2>. QED  BY <1>2, <1>3, <2>2
<1>5. {s \in after : s < r} \subseteq {s \in after : s < m}
  <2>1. \A s \in after : s < r => s < m  BY ONLY <1>4
  <2>. QED  BY ONLY <2>1
<1>6. IsFiniteSet(after)  BY <1>0, FS_Subset
<1>7. IsFiniteSet({s \in after : s < m})  BY <1>6, FS_Subset
<1>8. Cardinality({s \in after : s < r}) <= Cardinality({s \in after : s < m})
  BY <1>5, <1>7, FS_Subset
<1>9. Cardinality({s \in after : s < r}) \in Nat /\ Cardinality({s \in after : s < m}) \in Nat
  BY <1>5, <1>7, FS_Subset, FS_CardinalityType
<1>10. Cardinality({s \in after : s < m}) < SweepBatch  BY <1>2, <1>3
<1>11. Cardinality({s \in after : s < r}) < SweepBatch  BY <1>1, <1>8, <1>9, <1>10
<1>. QED  BY <1>11

\* The first of several numbers has none before it.
LEMMA BatchIsNotEmpty ==
  ASSUME NEW after, after \subseteq Roots, after # {}
  PROVE  \E r \in after : Cardinality({s \in after : s < r}) < SweepBatch
<1>1. LastRoot \in Nat /\ SweepBatch \in Nat \ {0}  BY WikidataConstants
<1>2. after \subseteq Nat  BY DEF Roots
<1>3. PICK m \in after : \A k \in after : m <= k  BY ONLY <1>2, after # {}, LeastNumber
<1>4. {s \in after : s < m} = {}
  <2>1. \A s \in after : ~(s < m)  BY ONLY <1>2, <1>3
  <2>. QED  BY ONLY <2>1
<1>5. Cardinality({s \in after : s < m}) = 0  BY <1>4, FS_EmptySet
<1>. QED  BY <1>1, <1>5

\* What a batch is, of a sweep of the roots without a link behind its cursor.
LEMMA NextOfSweep ==
  ASSUME RunsAreWorked, NEW t \in RunTokens, asker[t].pc # "idle", Holding(t),
         NEW batch, batch = NextRoots(runs[asker[t].run].kind, asker[t].cursor)
  PROVE  /\ batch \subseteq Roots
         /\ batch = {} => runs[asker[t].run].owes = {}
         /\ batch # {} => \A r \in runs[asker[t].run].owes : r <= Max(batch) => r \in batch
<1>1. PICK row \in RunRows : row = runs[asker[t].run]  BY HeldRun
<1>2. OwesWhatIsOpen(row, file.link) /\ row.cursor = asker[t].cursor
  BY <1>1, HeldRun DEF KeepsStep
<1>3. PICK after : after = {r \in Roots : r > row.cursor /\ IF row.kind = "refresh" THEN r \in DueRoots
                                                            ELSE file.link[r] = None}
  OBVIOUS
<1>4. batch = {r \in after : Cardinality({s \in after : s < r}) < SweepBatch}
  BY <1>1, <1>2, <1>3 DEF NextRoots
<1>5. after \subseteq Roots /\ batch \subseteq Roots  BY <1>3, <1>4
<1>6. row.owes \subseteq after
  <2>1. row.owes \subseteq Roots  BY DEF RunRows
  <2>. QED  BY <1>2, <1>3, <2>1 DEF OwesWhatIsOpen
<1>7. batch = {} => after = {}  BY <1>4, <1>5, BatchIsNotEmpty
<1>8. ASSUME batch # {}, NEW r \in row.owes, r <= Max(batch)
      PROVE  r \in batch
  BY ONLY <1>4, <1>5, <1>6, <1>8, BatchIsFull
<1>. QED  BY <1>1, <1>5, <1>6, <1>7, <1>8

LEMMA StartRunStep ==
  ASSUME RunsAreWorked, NEW n \in notices, StartRun(n)
  PROVE  RunsAreWorked' /\ EndsAreKept
<1>1. /\ n.run \in DOMAIN runs /\ n.token \in RunTokens /\ runs \in Seq(RunRows)
      /\ asker \in [RunTokens -> Askers]
  BY DEF RunsAreWorked, RunsTypeOK
<1>2. PICK row \in RunRows : row = runs[n.run]  BY <1>1
<1>3. UNCHANGED <<file, site, runs>> /\ notices' \subseteq notices  BY DEF StartRun
<1>4. RunsFollow(runs, runs', file'.link)  BY <1>3, SameRunsFollow
<1>5. file' \in FileRows /\ site' \in [Items -> ItemStates]
  BY <1>3 DEF RunsAreWorked, RunsTypeOK
<1>6. CASE row.token = n.token /\ row.status = "running"
  <2>1. PICK next : next = [Nobody EXCEPT !.pc = "next", !.run = n.run, !.cursor = row.cursor,
                                          !.addLabels = row.addLabels]
    OBVIOUS
  <2>2. asker' = [asker EXCEPT ![n.token] = next]  BY <1>2, <1>6, <2>1 DEF StartRun
  <2>3. next.pc = "next" /\ next.run = n.run /\ next.cursor = row.cursor
    BY <2>1, NobodyIsAsker DEF Askers
  <2>4. next \in Askers
    <3>1. n.run \in Nat  BY <1>1
    <3>2. row.cursor \in 0..LastRoot /\ row.addLabels \in BOOLEAN  BY DEF RunRows
    <3>. QED  BY <2>1, <3>1, <3>2, NobodyIsAsker DEF Askers
  <2>5. asker' \in [RunTokens -> Askers] /\ asker'[n.token] = next
        /\ \A u \in RunTokens \ {n.token} : asker'[u] = asker[u]
    BY <1>1, <2>2, <2>4
  <2>6. RunsTypeOK'  BY <1>3, <1>5, <2>5 DEF RunsAreWorked, RunsTypeOK
  <2>7. KeepsStep(next, row)  BY <2>3 DEF KeepsStep
  <2>8. WorkerKeeps(n.token)'  BY <1>1, <1>2, <1>3, <2>3, <2>5, <2>7 DEF WorkerKeeps, Holding
  <2>9. \A u \in RunTokens : asker'[u] = asker[u] \/ WorkerKeeps(u)'  BY <2>5, <2>8
  <2>10. \A m \in notices' : m.run \in DOMAIN runs'  BY <1>3 DEF RunsAreWorked
  <2>. QED  BY <1>4, <2>6, <2>9, <2>10, WorkedWhenFollowed
<1>7. CASE ~(row.token = n.token /\ row.status = "running")
  <2>1. asker' = asker  BY <1>2, <1>7 DEF StartRun
  <2>. QED  BY <1>3, <1>4, <1>5, <2>1, QuietStep DEF Quiet
<1>. QED  BY <1>6, <1>7

\* A worker's batch is done: a root's run has nothing left, a sweep's saves its place.
LEMMA WorkedKeeps ==
  ASSUME RunsAreWorked, NEW t \in RunTokens, asker[t].pc # "idle", NEW w \in Askers,
         w.run = asker[t].run, w.cursor = asker[t].cursor, UNCHANGED runs,
         Holding(t) => \A r \in runs[w.run].owes : r > w.last,
         NEW next, next = Worked(w)
  PROVE  next \in Askers /\ GoesOn(t, next)
<1>1. PICK row \in RunRows : row = runs[w.run]  BY HeldRun
<1>2. next = [w EXCEPT !.pc = IF row.root = None THEN "save" ELSE "end", !.ends = "finished"]
  BY <1>1 DEF Worked
<1>3. /\ next.pc = IF row.root = None THEN "save" ELSE "end"
      /\ next.ends = "finished" /\ next.run = w.run /\ next.cursor = w.cursor /\ next.last = w.last
  BY <1>2 DEF Askers
<1>4. next \in Askers  BY <1>2 DEF Askers
<1>5. OwesWhatIsOpen(row, file.link)  BY <1>1, HeldRun
<1>6. row.root # None => row.owes = {}  BY <1>5 DEF OwesWhatIsOpen
<1>7. Holding(t) => KeepsStep(asker[t], row)  BY <1>1, HeldRun
<1>8. Holding(t) => KeepsStep(next, row)  BY <1>1, <1>3, <1>6, <1>7 DEF KeepsStep
<1>9. "finished" # None  BY WikidataConstants
<1>. QED  BY <1>1, <1>3, <1>4, <1>8, <1>9 DEF GoesOn

LEMMA TakeBatchStep ==
  ASSUME RunsAreWorked, NEW t \in RunTokens, TakeBatch(t)
  PROVE  RunsAreWorked' /\ EndsAreKept
<1>1. asker[t].pc = "next"  BY DEF TakeBatch
<1>2. PICK w \in Askers : w = asker[t]  BY <1>1, HeldRun
<1>3. PICK row \in RunRows : row = runs[w.run]  BY <1>1, <1>2, HeldRun
<1>4. PICK batch : batch = IF row.root # None THEN {row.root} ELSE NextRoots(row.kind, w.cursor)
  OBVIOUS
<1>5. PICK links : links = [r \in Roots |->
                  IF /\ r \in batch /\ file.link[r] # None /\ row.kind = "refresh"
                     /\ Forced(row) \/ DueItem(file.link[r])
                  THEN file.link[r] ELSE None]
  OBVIOUS
<1>6. PICK next : next =
          IF batch = {} THEN [w EXCEPT !.pc = "end", !.ends = "finished"]
          ELSE IF row.kind = "refresh" /\ \A r \in Roots : links[r] = None
               THEN Worked([w EXCEPT !.last = Max(batch)])
               ELSE [w EXCEPT !.batch = batch, !.last = Max(batch), !.links = links,
                              !.pc = IF row.kind = "refresh" THEN "info" ELSE "search"]
  OBVIOUS
<1>7. asker' = [asker EXCEPT ![t] = next]
  BY <1>2, <1>3, <1>4, <1>5, <1>6 DEF TakeBatch
<1>8. UNCHANGED <<file, site, runs, notices>>  BY DEF TakeBatch, OnlyAsker
<1>9. batch \subseteq Roots
  <2>1. NextRoots(row.kind, w.cursor) \subseteq Roots  BY DEF NextRoots
  <2>2. row.root \in Roots \cup {None}  BY DEF RunRows
  <2>. QED  BY <1>4, <2>1, <2>2
<1>10. batch # {} => Max(batch) \in Roots /\ Max(batch) \in 0..LastRoot
  <2>1. LastRoot \in Nat  BY WikidataConstants
  <2>2. Roots \subseteq 0..LastRoot  BY <2>1 DEF Roots
  <2>3. batch \subseteq 0..LastRoot  BY <1>9, <2>2
  <2>4. batch # {} => Max(batch) \in batch  BY ONLY <2>1, <2>3, LargestNumber
  <2>. QED  BY <1>9, <2>2, <2>4
<1>11. links \in [Roots -> ItemOrNone]
  <2>1. \A r \in Roots : file.link[r] \in ItemOrNone
    BY DEF RunsAreWorked, RunsTypeOK, FileRows
  <2>2. None \in ItemOrNone  BY DEF ItemOrNone
  <2>. QED  BY <1>5, <2>1, <2>2
<1>12. OwesWhatIsOpen(row, file.link) /\ (Holding(t) => w.cursor = row.cursor)
  BY <1>1, <1>2, <1>3, HeldRun DEF KeepsStep
<1>13. row.root # None \/ row.kind = "refresh" => row.owes = {}
  BY <1>12 DEF OwesWhatIsOpen
<1>14. Holding(t) =>
         /\ batch = {} => row.owes = {}
         /\ batch # {} => \A r \in row.owes : r <= Max(batch) => r \in batch
  <2>1. CASE row.root # None  BY <1>13, <2>1
  <2>2. CASE row.root = None
    <3>1. batch = NextRoots(runs[asker[t].run].kind, asker[t].cursor)
      BY <1>2, <1>3, <1>4, <2>2
    <3>. QED  BY <1>1, <1>2, <1>3, <3>1, NextOfSweep
  <2>. QED  BY <2>1, <2>2
<1>15. CASE batch = {}
  <2>1. next = [w EXCEPT !.pc = "end", !.ends = "finished"]  BY <1>6, <1>15
  <2>2. /\ next.pc = "end" /\ next.ends = "finished" /\ next.run = w.run
        /\ next.cursor = w.cursor
    BY <2>1 DEF Askers
  <2>3. next \in Askers  BY <2>1 DEF Askers
  <2>4. Holding(t) => KeepsStep(next, row)  BY <1>12, <1>14, <1>15, <2>2 DEF KeepsStep
  <2>5. GoesOn(t, next)
    BY <1>1, <1>2, <1>3, <1>8, <2>2, <2>4, WikidataConstants DEF GoesOn
  <2>. QED  BY <1>7, <1>8, <2>3, <2>5, OwnStep
<1>16. CASE batch # {} /\ row.kind = "refresh" /\ \A r \in Roots : links[r] = None
  <2>1. PICK v : v = [w EXCEPT !.last = Max(batch)]  OBVIOUS
  <2>2. v \in Askers /\ v.run = w.run /\ v.cursor = w.cursor  BY <1>10, <1>16, <2>1 DEF Askers
  <2>3. \A r \in runs[v.run].owes : r > v.last  BY <1>3, <1>13, <1>16, <2>2
  <2>4. next = Worked(v)  BY <1>6, <1>16, <2>1
  <2>5. next \in Askers /\ GoesOn(t, next)
    BY <1>1, <1>2, <1>8, <2>2, <2>3, <2>4, WorkedKeeps
  <2>. QED  BY <1>7, <1>8, <2>5, OwnStep
<1>17. CASE batch # {} /\ ~(row.kind = "refresh" /\ \A r \in Roots : links[r] = None)
  <2>1. next = [w EXCEPT !.batch = batch, !.last = Max(batch), !.links = links,
                         !.pc = IF row.kind = "refresh" THEN "info" ELSE "search"]
    BY <1>6, <1>17
  <2>2. /\ next.pc = IF row.kind = "refresh" THEN "info" ELSE "search"
        /\ next.run = w.run /\ next.cursor = w.cursor /\ next.last = Max(batch)
        /\ next.batch = batch
    BY <2>1 DEF Askers
  <2>3. next \in Askers  BY <1>9, <1>10, <1>11, <1>17, <2>1 DEF Askers
  <2>4. Holding(t) => KeepsStep(next, row)  BY <1>12, <1>14, <1>17, <2>2 DEF KeepsStep
  <2>5. GoesOn(t, next)
    BY <1>1, <1>2, <1>3, <1>8, <2>2, <2>4 DEF GoesOn
  <2>. QED  BY <1>7, <1>8, <2>3, <2>5, OwnStep
<1>. QED  BY <1>15, <1>16, <1>17

\* A worker goes from one step of a batch to another, or gives up.
LEMMA PassOn ==
  ASSUME RunsAreWorked, NEW t \in RunTokens, asker[t].pc # "idle", NEW next \in Askers,
         next.run = asker[t].run, next.cursor = asker[t].cursor, UNCHANGED runs,
         \/ next.pc = "end" /\ next.ends \in {"queued", "failed"}
         \/ /\ next.batch = asker[t].batch /\ next.last = asker[t].last
            /\ \/ {asker[t].pc, next.pc} \subseteq {"search", "found", "lightly", "classes", "suggest"}
               \/ {asker[t].pc, next.pc} \subseteq {"info", "fully", "apply"}
  PROVE  GoesOn(t, next)
<1>1. PICK w \in Askers : w = asker[t]  BY HeldRun
<1>2. PICK row \in RunRows : row = runs[w.run]  BY <1>1, HeldRun
<1>3. Holding(t) => KeepsStep(w, row)  BY <1>1, <1>2, HeldRun
<1>4. next.pc = "end" => next.ends # None  BY WikidataConstants
<1>5. Holding(t) => KeepsStep(next, row)  BY <1>1, <1>3 DEF KeepsStep
<1>. QED  BY <1>1, <1>2, <1>4, <1>5 DEF GoesOn

LEMMA OutOfTimeStep ==
  ASSUME RunsAreWorked, NEW t \in RunTokens, RunsOutOfTime(t)
  PROVE  RunsAreWorked' /\ EndsAreKept
<1>1. asker[t].pc # "idle"  BY DEF RunsOutOfTime
<1>2. PICK w \in Askers : w = asker[t]  BY <1>1, HeldRun
<1>3. PICK next : next = [w EXCEPT !.pc = "end", !.ends = "queued"]  OBVIOUS
<1>4. /\ next \in Askers /\ next.pc = "end" /\ next.ends = "queued" /\ next.run = w.run
      /\ next.cursor = w.cursor
  BY <1>3 DEF Askers
<1>5. asker \in [RunTokens -> Askers]  BY DEF RunsAreWorked, RunsTypeOK
<1>6. asker' = [asker EXCEPT ![t] = next]  BY <1>2, <1>3, <1>5 DEF RunsOutOfTime, Askers
<1>7. UNCHANGED <<file, site, runs, notices>>  BY DEF RunsOutOfTime, OnlyAsker
<1>8. GoesOn(t, next)  BY <1>1, <1>2, <1>4, <1>7, PassOn
<1>. QED  BY <1>4, <1>6, <1>7, <1>8, OwnStep

\* A slot is held by a worker that asks, for something it has not kept, and a message
\* waits for nobody who is at work.
CopyRows == [state : [Items -> CacheStates], aged : SUBSET Items, searched : SUBSET Roots]
ThrottleRows == [held : RunTokens \cup {None}, paused : BOOLEAN, spent : Nat]

SlotTypeOK == copy \in CopyRows /\ throttle \in ThrottleRows

SlotIsHeld ==
  /\ SlotTypeOK
  /\ \A t \in RunTokens : throttle.held = t =>
       /\ asker[t].pc \in ToAsk
       /\ asker[t].pc = "search" => ~(asker[t].batch \subseteq copy.searched)
  /\ \A n \in notices : /\ asker[n.token].pc = "idle"
                        /\ \A m \in notices : m.token = n.token => m = n

\* A worker goes on to the next step of its batch, or gives up, and nothing else changes
\* but the copy and the throttle.
LEMMA PassOnStep ==
  ASSUME RunsAreWorked, NEW t \in RunTokens, asker[t].pc # "idle", NEW next \in Askers,
         asker' = [asker EXCEPT ![t] = next],
         next.run = asker[t].run, next.cursor = asker[t].cursor,
         UNCHANGED <<file, site, runs, notices>>,
         \/ next.pc = "end" /\ next.ends \in {"queued", "failed"}
         \/ /\ next.batch = asker[t].batch /\ next.last = asker[t].last
            /\ \/ {asker[t].pc, next.pc} \subseteq {"search", "found", "lightly", "classes", "suggest"}
               \/ {asker[t].pc, next.pc} \subseteq {"info", "fully", "apply"}
  PROVE  RunsAreWorked' /\ EndsAreKept
<1>1. GoesOn(t, next)  BY PassOn
<1>. QED  BY <1>1, OwnStep

LEMMA SearchKeptStep ==
  ASSUME RunsAreWorked, NEW t \in RunTokens, SearchKept(t)
  PROVE  RunsAreWorked' /\ EndsAreKept
<1>1. asker[t].pc = "search"  BY DEF SearchKept
<1>2. PICK w \in Askers : w = asker[t]  BY <1>1, HeldRun
<1>3. PICK next : next = [w EXCEPT !.pc = "found"]  OBVIOUS
<1>4. /\ next \in Askers /\ next.pc = "found" /\ next.run = w.run /\ next.cursor = w.cursor
      /\ next.batch = w.batch /\ next.last = w.last
  BY <1>3 DEF Askers
<1>5. asker \in [RunTokens -> Askers]  BY DEF RunsAreWorked, RunsTypeOK
<1>6. asker' = [asker EXCEPT ![t] = next]  BY <1>2, <1>3, <1>5 DEF SearchKept, Askers
<1>7. UNCHANGED <<file, site, runs, notices>>  BY DEF SearchKept, OnlyAsker
<1>. QED  BY <1>1, <1>2, <1>4, <1>6, <1>7, PassOnStep

LEMMA AskClassesStep ==
  ASSUME RunsAreWorked, NEW t \in RunTokens, AskClasses(t)
  PROVE  RunsAreWorked' /\ EndsAreKept
<1>1. asker[t].pc = "suggest"  BY DEF AskClasses
<1>2. PICK w \in Askers : w = asker[t]  BY <1>1, HeldRun
<1>3. PICK next : next = [w EXCEPT !.pc = "classes"]  OBVIOUS
<1>4. /\ next \in Askers /\ next.pc = "classes" /\ next.run = w.run /\ next.cursor = w.cursor
      /\ next.batch = w.batch /\ next.last = w.last
  BY <1>3 DEF Askers
<1>5. asker \in [RunTokens -> Askers]  BY DEF RunsAreWorked, RunsTypeOK
<1>6. asker' = [asker EXCEPT ![t] = next]  BY <1>2, <1>3, <1>5 DEF AskClasses, Askers
<1>7. UNCHANGED <<file, site, runs, notices>>  BY DEF AskClasses, OnlyAsker
<1>. QED  BY <1>1, <1>2, <1>4, <1>6, <1>7, PassOnStep

\* A worker gives its run back, or has failed.
LEMMA GivesUpStep ==
  ASSUME RunsAreWorked, NEW t \in RunTokens, asker[t].pc # "idle", NEW ends \in {"queued", "failed"},
         asker' = [asker EXCEPT ![t].pc = "end", ![t].ends = ends],
         UNCHANGED <<file, site, runs, notices>>
  PROVE  RunsAreWorked' /\ EndsAreKept
<1>2. PICK w \in Askers : w = asker[t]  BY HeldRun
<1>3. PICK next : next = [w EXCEPT !.pc = "end", !.ends = ends]  OBVIOUS
<1>4. /\ next \in Askers /\ next.pc = "end" /\ next.run = w.run /\ next.cursor = w.cursor
      /\ next.ends = ends
  BY <1>3 DEF Askers
<1>5. asker \in [RunTokens -> Askers]  BY DEF RunsAreWorked, RunsTypeOK
<1>6. asker' = [asker EXCEPT ![t] = next]  BY <1>2, <1>3, <1>5 DEF Askers
<1>. QED  BY <1>2, <1>4, <1>6, PassOnStep

LEMMA TakeSlotStep ==
  ASSUME RunsAreWorked, NEW t \in RunTokens, TakeSlot(t)
  PROVE  RunsAreWorked' /\ EndsAreKept
<1>1. asker[t].pc # "idle" /\ UNCHANGED <<file, site, runs, notices>>
  BY DEF TakeSlot, ToAsk
<1>2. CASE Blocked
  BY <1>1, <1>2, GivesUpStep DEF TakeSlot
<1>3. CASE ~Blocked
  <2>1. UNCHANGED asker  BY <1>3 DEF TakeSlot
  <2>2. RunsFollow(runs, runs', file'.link)  BY <1>1, SameRunsFollow
  <2>3. file' \in FileRows /\ site' \in [Items -> ItemStates]
    BY <1>1 DEF RunsAreWorked, RunsTypeOK
  <2>. QED  BY <1>1, <2>1, <2>2, <2>3, QuietStep DEF Quiet
<1>. QED  BY <1>2, <1>3

LEMMA RefusedStep ==
  ASSUME RunsAreWorked, SlotIsHeld, NEW t \in RunTokens, Refused(t)
  PROVE  RunsAreWorked' /\ EndsAreKept
<1>1. asker[t].pc # "idle"  BY DEF Refused, SlotIsHeld, ToAsk
<1>. QED  BY <1>1, GivesUpStep DEF Refused

LEMMA AnswerStep ==
  ASSUME RunsAreWorked, SlotIsHeld, NEW t \in RunTokens, Answer(t)
  PROVE  RunsAreWorked' /\ EndsAreKept
<1>1. asker[t].pc \in ToAsk  BY DEF Answer, SlotIsHeld
<1>2. PICK w \in Askers : w = asker[t]  BY <1>1, HeldRun DEF ToAsk
<1>3. asker \in [RunTokens -> Askers] /\ site \in [Items -> ItemStates]
  BY DEF RunsAreWorked, RunsTypeOK
<1>4. UNCHANGED <<file, site, runs, notices>>  BY DEF Answer
<1>5. SUFFICES ASSUME asker' # asker
               PROVE  \E pages \in [Items -> Pages], pc \in {"found", "suggest", "apply", "fully"} :
                        /\ asker' = [asker EXCEPT ![t] = [w EXCEPT !.pages = pages, !.pc = pc]]
                        /\ \/ {w.pc, pc} \subseteq {"search", "found", "lightly", "classes", "suggest"}
                           \/ {w.pc, pc} \subseteq {"info", "fully", "apply"}
  <2>1. CASE asker' = asker
    <3>1. RunsFollow(runs, runs', file'.link)  BY <1>4, SameRunsFollow
    <3>2. file' \in FileRows /\ site' \in [Items -> ItemStates]
      BY <1>4 DEF RunsAreWorked, RunsTypeOK
    <3>. QED  BY <1>4, <2>1, <3>1, <3>2, QuietStep DEF Quiet
  <2>2. ASSUME NEW pages \in [Items -> Pages], NEW pc \in {"found", "suggest", "apply", "fully"},
               asker' = [asker EXCEPT ![t] = [w EXCEPT !.pages = pages, !.pc = pc]],
               \/ {w.pc, pc} \subseteq {"search", "found", "lightly", "classes", "suggest"}
               \/ {w.pc, pc} \subseteq {"info", "fully", "apply"}
        PROVE  RunsAreWorked' /\ EndsAreKept
    <3>1. PICK next : next = [w EXCEPT !.pages = pages, !.pc = pc]  OBVIOUS
    <3>2. /\ next \in Askers /\ next.pc = pc /\ next.run = w.run /\ next.cursor = w.cursor
          /\ next.batch = w.batch /\ next.last = w.last
      BY <3>1 DEF Askers
    <3>3. asker' = [asker EXCEPT ![t] = next]  BY <2>2, <3>1
    <3>4. asker[t].pc # "idle"  BY <1>1 DEF ToAsk
    <3>. QED  BY <1>2, <1>4, <2>2, <3>2, <3>3, <3>4, PassOnStep
  <2>. QED  BY <2>1, <2>2
<1>6. CASE w.pc = "search"
  <2>1. asker' = [asker EXCEPT ![t].pc = "found"]  BY <1>2, <1>6 DEF Answer, Answered
  <2>2. asker' = [asker EXCEPT ![t] = [w EXCEPT !.pages = w.pages, !.pc = "found"]]
    BY <1>2, <1>3, <2>1 DEF Askers
  <2>3. w.pages \in [Items -> Pages]  BY DEF Askers
  <2>. QED  BY <1>6, <2>2, <2>3
<1>7. CASE w.pc \in {"lightly", "classes"}
  <2>1. asker' = [asker EXCEPT ![t].pc = "suggest"]  BY <1>2, <1>7 DEF Answer, Answered
  <2>2. asker' = [asker EXCEPT ![t] = [w EXCEPT !.pages = w.pages, !.pc = "suggest"]]
    BY <1>2, <1>3, <2>1 DEF Askers
  <2>3. w.pages \in [Items -> Pages]  BY DEF Askers
  <2>. QED  BY <1>7, <2>2, <2>3
<1>8. CASE w.pc = "info"
  <2>1. PICK asked : asked = {q \in Linked(w) : NeedsFetch(q)}  OBVIOUS
  <2>2. PICK pages : pages = [q \in Items |-> IF q \notin Linked(w) THEN None
                                              ELSE IF q \in asked THEN site[q] ELSE "same"]
    OBVIOUS
  <2>3. PICK pc : pc = IF asked = {q \in asked : \/ site[q] = "missing"
                                                 \/ /\ site[q] = "redirected"
                                                    /\ site[TurnsInto[q]] # "ok"}
                       THEN "apply" ELSE "fully"
    OBVIOUS
  <2>4. asker' = [asker EXCEPT ![t].pages = pages, ![t].pc = pc]
    BY <1>2, <1>8, <2>1, <2>2, <2>3 DEF Answer, Answered
  <2>5. asker' = [asker EXCEPT ![t] = [w EXCEPT !.pages = pages, !.pc = pc]]
    BY <1>2, <1>3, <2>4 DEF Askers
  <2>6. pages \in [Items -> Pages]  BY <1>3, <2>2 DEF Pages
  <2>7. pc \in {"apply", "fully"}  BY <2>3
  <2>. QED  BY <1>8, <2>5, <2>6, <2>7
<1>9. CASE w.pc = "fully"
  <2>1. PICK pages : pages = [q \in Items |->
                    IF \/ w.pages[q] = "ok"
                       \/ \E p \in Items \ {q} : w.pages[p] = "redirected" /\ TurnsInto[p] = q
                    THEN site[q] ELSE w.pages[q]]
    OBVIOUS
  <2>2. asker' = [asker EXCEPT ![t].pc = "apply", ![t].pages = [q \in Items |->
                    IF \/ @[q] = "ok"
                       \/ \E p \in Items \ {q} : @[p] = "redirected" /\ TurnsInto[p] = q
                    THEN site[q] ELSE @[q]]]
    BY <1>2, <1>9 DEF Answer, Answered
  <2>3. asker' = [asker EXCEPT ![t].pc = "apply", ![t].pages = pages]
    BY <1>2, <1>3, <2>1, <2>2 DEF Askers
  <2>4. asker' = [asker EXCEPT ![t] = [w EXCEPT !.pages = pages, !.pc = "apply"]]
    BY <1>2, <1>3, <2>3 DEF Askers
  <2>5. w.pages \in [Items -> Pages]  BY DEF Askers
  <2>6. pages \in [Items -> Pages]  BY <1>3, <2>1, <2>5 DEF Pages
  <2>. QED  BY <1>9, <2>4, <2>6
<1>. QED  BY <1>1, <1>2, <1>6, <1>7, <1>8, <1>9 DEF ToAsk

LEMMA LeaveOutStep ==
  ASSUME RunsAreWorked, NEW t \in RunTokens, LeaveOut(t)
  PROVE  RunsAreWorked' /\ EndsAreKept
<1>1. asker[t].pc = "found"  BY DEF LeaveOut
<1>2. PICK w \in Askers : w = asker[t]  BY <1>1, HeldRun
<1>3. PICK wanted : wanted = [r \in Roots |->
                   IF r \notin w.batch THEN {}
                   ELSE {q \in FoundFor[r] : /\ file.candidate[r][q] # "dismissed"
                                             /\ \A s \in Roots \ {r} : file.link[s] # q}]
  OBVIOUS
<1>4. wanted \in [Roots -> SUBSET Items]
  <2>1. \A r \in Roots : FoundFor[r] \subseteq Items  BY WikidataConstants DEF Roots
  <2>. QED  BY <1>3, <2>1
<1>5. PICK pc : pc = IF \E q \in UNION Range(wanted) : copy.state[q] = None
                     THEN "lightly" ELSE "suggest"
  OBVIOUS
<1>6. PICK next : next = [w EXCEPT !.wanted = wanted, !.pc = pc]  OBVIOUS
<1>7. /\ next \in Askers /\ next.pc = pc /\ next.run = w.run /\ next.cursor = w.cursor
      /\ next.batch = w.batch /\ next.last = w.last
  BY <1>4, <1>5, <1>6 DEF Askers
<1>8. asker \in [RunTokens -> Askers]  BY DEF RunsAreWorked, RunsTypeOK
<1>9. asker' = [asker EXCEPT ![t].wanted = wanted, ![t].pc = pc]
  BY <1>2, <1>3, <1>5 DEF LeaveOut
<1>10. asker' = [asker EXCEPT ![t] = next]  BY <1>2, <1>6, <1>8, <1>9 DEF Askers
<1>11. UNCHANGED <<file, site, runs, notices>>  BY DEF LeaveOut, OnlyAsker
<1>12. pc \in {"lightly", "suggest"}  BY <1>5
<1>. QED  BY <1>1, <1>2, <1>7, <1>10, <1>11, <1>12, PassOnStep

LEMMA ApplyStep ==
  ASSUME RunsAreWorked, NEW t \in RunTokens, Apply(t)
  PROVE  RunsAreWorked' /\ EndsAreKept
<1>1. asker[t].pc = "apply"  BY DEF Apply
<1>2. PICK w \in Askers : w = asker[t]  BY <1>1, HeldRun
<1>3. PICK row \in RunRows : row = runs[w.run]  BY <1>1, <1>2, HeldRun
<1>4. PICK next : next = Worked(w)  OBVIOUS
<1>5. UNCHANGED <<site, runs, notices>>  BY DEF Apply
<1>6. Holding(t) => row.owes = {}
  BY <1>1, <1>2, <1>3, HeldRun DEF KeepsStep, OwesWhatIsOpen
<1>7. next \in Askers /\ GoesOn(t, next)
  BY <1>1, <1>2, <1>3, <1>4, <1>5, <1>6, WorkedKeeps
<1>8. asker' = [asker EXCEPT ![t] = next]  BY <1>2, <1>4 DEF Apply
<1>9. file' = RefreshedInTurn(w)  BY <1>2 DEF Apply
<1>10. file' \in FileRows /\ \A s \in Roots : file.link[s] = None => file'.link[s] = None
  BY <1>9, RefreshedInTurnIsSound DEF RunsAreWorked
<1>11. RunsFollow(runs, runs', file'.link)  BY <1>5, <1>10, SameRunsFollow
<1>. QED  BY <1>5, <1>7, <1>8, <1>10, <1>11, AskerStep

LEMMA EndRunStep ==
  ASSUME RunsAreWorked, NEW t \in RunTokens, EndRun(t)
  PROVE  RunsAreWorked' /\ EndsAreKept
<1>1. asker[t].pc = "end"  BY DEF EndRun
<1>2. PICK w \in Askers : w = asker[t]  BY <1>1, HeldRun
<1>3. UNCHANGED <<file, site, notices>> /\ asker' = [asker EXCEPT ![t] = Nobody]  BY DEF EndRun
<1>4. GoesOn(t, Nobody)  BY NobodyIsAsker DEF GoesOn
<1>5. file' \in FileRows  BY <1>3 DEF RunsAreWorked, RunsTypeOK
<1>6. RunsFollow(runs, runs', file'.link)
  <2>1. CASE Holding(t)
    <3>1. PICK old \in RunRows : old = runs[w.run]  BY <1>1, <1>2, HeldRun
    <3>2. PICK row : row = RunReleased(old, w.ends)  OBVIOUS
    <3>3. /\ runs \in Seq(RunRows) /\ OwesOpen(runs, file.link) /\ w.run \in 1..Len(runs)
      BY <1>1, <1>2, HeldRun, OwedAreOpen DEF RunsAreWorked, RunsTypeOK
    <3>4. KeepsStep(w, old) /\ w.ends # None  BY <1>1, <1>2, <2>1, <3>1, HeldRun
    <3>5. w.ends \in {"finished", "failed", "queued"}  BY <3>4 DEF Askers
    <3>6. row \in RunRows
      <4>1. CASE w.ends = "finished"  BY <3>2, <4>1 DEF RunReleased, RunRows, Over, OpenRunStates
      <4>2. CASE w.ends = "failed"  BY <3>2, <4>2 DEF RunReleased, RunRows, Over, OpenRunStates
      <4>3. CASE w.ends = "queued"
        <5>1. ("queued" \in Over) = FALSE  BY DEF Over
        <5>2. row = [old EXCEPT !.status = "queued", !.token = None, !.leased = FALSE,
                                !.endedToday = FALSE]
          BY ONLY <3>2, <4>3, <5>1, Zenon DEF RunReleased
        <5>. QED  BY <5>2 DEF RunRows, OpenRunStates
      <4>. QED  BY <3>5, <4>1, <4>2, <4>3
    <3>7. old.status = "running"  BY <1>2, <2>1, <3>1 DEF Holding
    <3>8. w.ends = "finished" => old.owes = {}  BY <1>1, <1>2, <3>4 DEF KeepsStep
    <3>9. RowFollows(old, row)
      BY <3>2, <3>7, <3>8 DEF RowFollows, RunReleased, RunRows, OpenRunStates
    <3>10. runs' = [runs EXCEPT ![w.run] = row]  BY <1>2, <2>1, <3>1, <3>2 DEF EndRun
    <3>11. RunsFollow(runs, runs', file.link)  BY <3>1, <3>3, <3>6, <3>9, <3>10, FollowsUpdate
    <3>. QED  BY <1>3, <3>11
  <2>2. CASE ~Holding(t)
    <3>1. runs' = runs  BY <2>2 DEF EndRun
    <3>. QED  BY <1>3, <3>1, SameRunsFollow
  <2>. QED  BY <2>1, <2>2
<1>. QED  BY <1>3, <1>4, <1>5, <1>6, NobodyIsAsker, AskerStep

LEMMA AskerDiesStep ==
  ASSUME RunsAreWorked, NEW t \in RunTokens, AskerDies(t)
  PROVE  RunsAreWorked' /\ EndsAreKept
<1>1. asker[t].pc # "idle"  BY DEF AskerDies
<1>2. PICK w \in Askers : w = asker[t]  BY <1>1, HeldRun
<1>3. UNCHANGED <<file, site, runs>> /\ asker' = [asker EXCEPT ![t] = Nobody]  BY DEF AskerDies
<1>4. GoesOn(t, Nobody)  BY NobodyIsAsker DEF GoesOn
<1>5. file' \in FileRows  BY <1>3 DEF RunsAreWorked, RunsTypeOK
<1>6. RunsFollow(runs, runs', file'.link)  BY <1>3, SameRunsFollow
<1>7. notices' \in {notices, notices \cup {[run |-> w.run, token |-> t]}}  BY <1>2 DEF AskerDies
<1>8. w.run \in Nat  BY DEF Askers
<1>9. notices' \subseteq notices \cup
        {n \in [run : Nat, token : RunTokens] : asker[t].pc # "idle" /\ n.run = asker[t].run}
  BY <1>1, <1>2, <1>7, <1>8
<1>. QED  BY <1>3, <1>4, <1>5, <1>6, <1>9, NobodyIsAsker, AskerStep

LEMMA SuggestStep ==
  ASSUME RunsAreWorked, NEW t \in RunTokens, NEW r \in Roots, Suggest(t, r)
  PROVE  RunsAreWorked' /\ EndsAreKept
<1>1. asker[t].pc = "suggest"  BY DEF Suggest
<1>2. PICK w \in Askers : w = asker[t]  BY <1>1, HeldRun
<1>3. PICK old \in RunRows : old = runs[w.run]  BY <1>1, <1>2, HeldRun
<1>4. PICK row : row = [old EXCEPT !.owes = @ \ {r}]  OBVIOUS
<1>5. row.owes = old.owes \ {r} /\ row.root = old.root /\ row.cursor = old.cursor
      /\ row.status = old.status /\ row.token = old.token
  BY <1>4 DEF RunRows
<1>6. row \in RunRows
  <2>1. old.owes \in SUBSET Roots  BY DEF RunRows
  <2>. QED  BY <1>4, <2>1 DEF RunRows
<1>7. RowFollows(old, row)  BY <1>4, <1>5 DEF RowFollows, RunRows
<1>8. /\ runs \in Seq(RunRows) /\ OwesOpen(runs, file.link) /\ w.run \in 1..Len(runs)
      /\ file \in FileRows
  BY <1>1, <1>2, HeldRun, OwedAreOpen DEF RunsAreWorked, RunsTypeOK
<1>9. runs' = [runs EXCEPT ![w.run] = row]
  <2>1. runs' = [runs EXCEPT ![w.run].owes = @ \ {r}]  BY <1>2 DEF Suggest
  <2>. QED  BY <1>3, <1>4, <1>8, <2>1
<1>10. RunsFollow(runs, runs', file.link)  BY <1>3, <1>6, <1>7, <1>8, <1>9, FollowsUpdate
<1>11. runs'[w.run] = row  BY <1>8, <1>9
<1>12. UNCHANGED <<site, notices>>  BY DEF Suggest
<1>13. PICK scored : scored = {q \in w.wanted[r] : copy.state[q] \in {"light", "full"}}  OBVIOUS
<1>14. PICK marks : marks = [q \in Items |->
          IF file.candidate[r][q] = "dismissed" THEN "dismissed"
          ELSE IF q \notin scored THEN None ELSE IF q \in Exact(r, scored) THEN "exact" ELSE "open"]
  OBVIOUS
<1>15. marks \in [Items -> CandidateStates]  BY <1>14 DEF CandidateStates
<1>16. PICK candidate : candidate = [file.candidate EXCEPT ![r] = marks]  OBVIOUS
<1>17. candidate \in [Roots -> [Items -> CandidateStates]]  BY <1>8, <1>15, <1>16 DEF FileRows
<1>18. file' = [file EXCEPT !.candidate = candidate]
  <2>1. file' = [file EXCEPT !.candidate[r] = [q \in Items |->
          IF @[q] = "dismissed" THEN "dismissed"
          ELSE IF q \notin scored THEN None ELSE IF q \in Exact(r, scored) THEN "exact" ELSE "open"]]
    BY <1>2, <1>13 DEF Suggest
  <2>. QED  BY <1>8, <1>14, <1>16, <2>1 DEF FileRows
<1>19. file' \in FileRows /\ file'.link = file.link  BY <1>8, <1>17, <1>18 DEF FileRows
<1>20. PICK next : next = IF w.batch = {r} THEN Worked(w) ELSE [w EXCEPT !.batch = @ \ {r}]
  OBVIOUS
<1>21. asker' = [asker EXCEPT ![t] = next]  BY <1>2, <1>20 DEF Suggest
<1>22. Holding(t) => KeepsStep(w, old)  BY <1>1, <1>2, <1>3, HeldRun
<1>23. next \in Askers /\ next.run = w.run /\ (next.pc = "end" => next.ends # None)
  <2>1. CASE w.batch = {r}
    <3>1. next = [w EXCEPT !.pc = IF old.root = None THEN "save" ELSE "end", !.ends = "finished"]
      BY <1>3, <1>20, <2>1 DEF Worked
    <3>2. next \in Askers /\ next.run = w.run /\ next.ends = "finished"  BY <3>1 DEF Askers
    <3>3. "finished" # None  BY WikidataConstants
    <3>. QED  BY <3>2, <3>3
  <2>2. CASE w.batch # {r}
    <3>1. next = [w EXCEPT !.batch = w.batch \ {r}]  BY <1>20, <2>2
    <3>2. w.batch \ {r} \in SUBSET Roots  BY DEF Askers
    <3>3. next.run = w.run /\ next.pc = w.pc  BY <3>1 DEF Askers
    <3>4. next \in Askers  BY <3>1, <3>2 DEF Askers
    <3>. QED  BY <1>1, <1>2, <3>3, <3>4
  <2>. QED  BY <2>1, <2>2
<1>24. ASSUME Holding(t)
       PROVE  KeepsStep(next, row)
  <2>1. KeepsStep(w, old)  BY <1>22, <1>24
  <2>2. w.cursor = old.cursor /\ \A s \in old.owes : s <= w.last => s \in w.batch
    BY <1>1, <1>2, <2>1 DEF KeepsStep
  <2>3. CASE w.batch = {r}
    <3>1. next = [w EXCEPT !.pc = IF old.root = None THEN "save" ELSE "end", !.ends = "finished"]
      BY <1>3, <1>20, <2>3 DEF Worked
    <3>2. /\ next.pc = IF old.root = None THEN "save" ELSE "end"
          /\ next.cursor = w.cursor /\ next.last = w.last
      BY <3>1 DEF Askers
    <3>3. old.owes \subseteq Nat /\ w.last \in Nat  BY DEF RunRows, Roots, Askers
    <3>4. \A s \in row.owes : s > w.last  BY <1>5, <2>2, <2>3, <3>3
    <3>5. OwesWhatIsOpen(old, file.link)  BY <1>1, <1>2, <1>3, HeldRun
    <3>6. old.root # None => row.owes = {}  BY <1>5, <3>5 DEF OwesWhatIsOpen
    <3>. QED  BY <1>5, <2>2, <3>2, <3>4, <3>6 DEF KeepsStep
  <2>4. CASE w.batch # {r}
    <3>1. next = [w EXCEPT !.batch = w.batch \ {r}]  BY <1>20, <2>4
    <3>2. /\ next.pc = "suggest" /\ next.cursor = w.cursor /\ next.last = w.last
          /\ next.batch = w.batch \ {r}
      BY <1>1, <1>2, <3>1 DEF Askers
    <3>. QED  BY <1>5, <2>2, <3>2 DEF KeepsStep
  <2>. QED  BY <2>3, <2>4
<1>25. GoesOn(t, next)  BY <1>1, <1>2, <1>11, <1>23, <1>24 DEF GoesOn
<1>. QED  BY <1>10, <1>12, <1>19, <1>21, <1>23, <1>25, AskerStep

LEMMA SavePlaceStep ==
  ASSUME RunsAreWorked, NEW t \in RunTokens, SavePlace(t)
  PROVE  RunsAreWorked' /\ EndsAreKept
<1>1. asker[t].pc = "save"  BY DEF SavePlace
<1>2. PICK w \in Askers : w = asker[t]  BY <1>1, HeldRun
<1>3. UNCHANGED <<file, site, notices>>  BY DEF SavePlace
<1>4. CASE ~Holding(t)
  <2>1. UNCHANGED runs /\ asker' = [asker EXCEPT ![t] = Nobody]  BY <1>4 DEF SavePlace
  <2>2. GoesOn(t, Nobody)  BY NobodyIsAsker DEF GoesOn
  <2>. QED  BY <1>3, <2>1, <2>2, NobodyIsAsker, OwnStep
<1>5. CASE Holding(t)
  <2>1. PICK old \in RunRows : old = runs[w.run]  BY <1>1, <1>2, HeldRun
  <2>2. PICK row : row = [old EXCEPT !.cursor = w.last, !.leased = TRUE]  OBVIOUS
  <2>3. w.run \in DOMAIN runs /\ runs \in Seq(RunRows) /\ DOMAIN runs = 1..Len(runs)
    BY <1>1, <1>2, HeldRun DEF RunsAreWorked, RunsTypeOK
  <2>4. row \in RunRows  BY <2>2 DEF RunRows, Askers
  <2>5. /\ row.kind = old.kind /\ row.root = old.root /\ row.cursor = w.last
        /\ row.owes = old.owes /\ row.status = old.status /\ row.token = old.token
    BY <2>2 DEF RunRows
  <2>6. runs' = [runs EXCEPT ![w.run] = row]
    <3>1. runs' = [runs EXCEPT ![w.run].cursor = w.last, ![w.run].leased = TRUE]
      BY <1>2, <1>5 DEF SavePlace
    <3>. QED  BY <2>1, <2>2, <2>3, <3>1 DEF RunRows
  <2>7. /\ runs' \in Seq(RunRows) /\ DOMAIN runs' = DOMAIN runs
        /\ \A j \in DOMAIN runs : runs'[j] = IF j = w.run THEN row ELSE runs[j]
    BY <2>3, <2>4, <2>6, ExceptSeq
  <2>8. KeepsStep(w, old) /\ OwesWhatIsOpen(old, file.link) /\ old.token = t /\ old.status = "running"
    BY <1>1, <1>2, <1>5, <2>1, HeldRun DEF Holding
  <2>9. \A r \in old.owes : r > w.last  BY <1>1, <1>2, <2>8 DEF KeepsStep
  <2>10. OwesWhatIsOpen(row, file.link)  BY <2>5, <2>8, <2>9 DEF OwesWhatIsOpen
  <2>11. EndsAreKept  BY <2>1, <2>5, <2>7 DEF EndsAreKept
  <2>12. PICK next : next = [Nobody EXCEPT !.pc = "next", !.run = w.run, !.addLabels = w.addLabels,
                                           !.cursor = w.last]
    OBVIOUS
  <2>13. next \in Askers /\ next.pc = "next" /\ next.run = w.run /\ next.cursor = w.last
    BY <2>12, NobodyIsAsker DEF Askers
  <2>14. asker' = [asker EXCEPT ![t] = next]  BY <1>2, <1>5, <2>12 DEF SavePlace
  <2>15. asker \in [RunTokens -> Askers]  BY DEF RunsAreWorked, RunsTypeOK
  <2>16. /\ asker' \in [RunTokens -> Askers] /\ asker'[t] = next
         /\ \A u \in RunTokens \ {t} : asker'[u] = asker[u]
    BY <2>13, <2>14, <2>15
  <2>17. RunsTypeOK'  BY <1>3, <2>7, <2>16 DEF RunsAreWorked, RunsTypeOK
  <2>18. \A j \in DOMAIN runs' : OwesWhatIsOpen(runs'[j], file'.link)
    BY <1>3, <2>7, <2>10 DEF RunsAreWorked
  <2>19. \A n \in notices' : n.run \in DOMAIN runs'  BY <1>3, <2>7 DEF RunsAreWorked
  <2>20. KeepsStep(next, row)  BY <2>5, <2>13 DEF KeepsStep
  <2>21. WorkerKeeps(t)'
    BY <2>3, <2>7, <2>13, <2>16, <2>20 DEF WorkerKeeps, Holding
  <2>22. ASSUME NEW u \in RunTokens \ {t}, asker[u].pc # "idle"
         PROVE  WorkerKeeps(u)'
    <3>1. PICK v : v = asker[u]  OBVIOUS
    <3>2. v.run \in DOMAIN runs /\ (v.pc = "end" => v.ends # None)
      BY <2>22, <3>1 DEF RunsAreWorked
    <3>3. ASSUME runs'[v.run].token = u, runs'[v.run].status = "running"
          PROVE  KeepsStep(v, runs'[v.run])
      <4>1. runs'[v.run] = runs[v.run]  BY <2>5, <2>7, <2>8, <3>2, <3>3
      <4>2. KeepsStep(v, runs[v.run])
        BY <2>22, <3>1, <3>3, <4>1 DEF RunsAreWorked, Holding
      <4>. QED  BY <4>1, <4>2
    <3>. QED  BY <2>7, <2>16, <3>1, <3>2, <3>3 DEF WorkerKeeps, Holding
  <2>23. \A u \in RunTokens : WorkerKeeps(u)'
    BY <2>16, <2>21, <2>22 DEF WorkerKeeps
  <2>. QED  BY <2>11, <2>17, <2>18, <2>19, <2>23 DEF RunsAreWorked, WorkerKeeps
<1>. QED  BY <1>4, <1>5
-----------------------------------------------------------------------------
(* Who holds the slot. *)

LEMMA QuietSlot ==
  ASSUME SlotIsHeld, SlotTypeOK', UNCHANGED asker, notices' \subseteq notices,
         throttle'.held = throttle.held, copy'.searched \in {copy.searched, {}}
  PROVE  SlotIsHeld'
<1>1. ASSUME NEW t \in RunTokens, throttle'.held = t
      PROVE  /\ asker'[t].pc \in ToAsk
             /\ asker'[t].pc = "search" => ~(asker'[t].batch \subseteq copy'.searched)
  BY <1>1 DEF SlotIsHeld
<1>. QED  BY <1>1 DEF SlotIsHeld

LEMMA OwnSlot ==
  ASSUME SlotIsHeld, SlotTypeOK', NEW t \in RunTokens, asker[t].pc # "idle",
         \A u \in RunTokens \ {t} : asker'[u] = asker[u],
         notices \subseteq [run : Nat, token : RunTokens],
         \/ throttle'.held = None
         \/ throttle.held # t /\ throttle'.held = throttle.held /\ copy'.searched = copy.searched,
         \/ notices' \subseteq notices
         \/ /\ asker'[t].pc = "idle"
            /\ \E n : n.token = t /\ notices' \subseteq notices \cup {n}
  PROVE  SlotIsHeld'
<1>1. ASSUME NEW u \in RunTokens, throttle'.held = u
      PROVE  /\ asker'[u].pc \in ToAsk
             /\ asker'[u].pc = "search" => ~(asker'[u].batch \subseteq copy'.searched)
  <2>1. u # None  BY WikidataConstants
  <2>2. u # t /\ throttle.held = u /\ copy'.searched = copy.searched  BY <1>1, <2>1
  <2>. QED  BY <2>2 DEF SlotIsHeld
<1>2. \A n \in notices : n.token \in RunTokens \ {t} /\ asker'[n.token].pc = "idle"
  BY DEF SlotIsHeld
<1>3. \A n \in notices' : /\ asker'[n.token].pc = "idle"
                          /\ \A m \in notices' : m.token = n.token => m = n
  <2>1. CASE notices' \subseteq notices  BY <1>2, <2>1 DEF SlotIsHeld
  <2>2. ASSUME asker'[t].pc = "idle", NEW o, o.token = t, notices' \subseteq notices \cup {o}
        PROVE  \A n \in notices' : /\ asker'[n.token].pc = "idle"
                                   /\ \A m \in notices' : m.token = n.token => m = n
    BY <1>2, <2>2 DEF SlotIsHeld
  <2>. QED  BY <2>1, <2>2
<1>. QED  BY <1>1, <1>3 DEF SlotIsHeld

LEMMA SlotStaysQuiet ==
  ASSUME RunsAreWorked, SlotIsHeld, WikidataChanges \/ Decisions \/ Queueing
  PROVE  SlotIsHeld'
<1>1. CASE WikidataChanges
  <2>3. copy \in CopyRows /\ throttle \in ThrottleRows  BY DEF SlotIsHeld, SlotTypeOK
  <2>4. copy' \in CopyRows /\ copy'.searched \in {copy.searched, {}}
    <3>1. ASSUME NEW many \in BOOLEAN, DayPasses(many)
          PROVE  copy' \in CopyRows /\ copy'.searched \in {copy.searched, {}}
      BY <2>3, <3>1 DEF DayPasses, CopyRows
    <3>. QED  BY <1>1, <2>3, <3>1 DEF WikidataChanges, ItemChanges, PauseEnds
  <2>5. throttle' \in ThrottleRows /\ throttle'.held = throttle.held
    <3>1. PICK row \in ThrottleRows : row = throttle  BY <2>3
    <3>2. \/ throttle' = row
          \/ throttle' = [row EXCEPT !.spent = 0]
          \/ throttle' = [row EXCEPT !.paused = FALSE]
      BY <1>1, <3>1 DEF WikidataChanges, ItemChanges, DayPasses, PauseEnds
    <3>3. [row EXCEPT !.spent = 0] \in ThrottleRows /\ [row EXCEPT !.spent = 0].held = row.held
      BY DEF ThrottleRows
    <3>4. [row EXCEPT !.paused = FALSE] \in ThrottleRows /\ [row EXCEPT !.paused = FALSE].held = row.held
      BY DEF ThrottleRows
    <3>. QED  BY <3>1, <3>2, <3>3, <3>4
  <2>1. SlotTypeOK' /\ throttle'.held = throttle.held /\ copy'.searched \in {copy.searched, {}}
    BY <2>4, <2>5 DEF SlotTypeOK
  <2>2. UNCHANGED <<asker, notices>>
    BY <1>1 DEF WikidataChanges, ItemChanges, DayPasses, PauseEnds
  <2>. QED  BY <2>1, <2>2, QuietSlot
<1>2. CASE Decisions
  <2>1. UNCHANGED <<copy, throttle, asker, notices>>
    BY <1>2 DEF Decisions, Unlink, AddItemNames, Link, Dismiss, ApproveExact
  <2>. QED  BY <2>1, QuietSlot DEF SlotIsHeld, SlotTypeOK
<1>3. CASE Queueing
  <2>1. UNCHANGED <<copy, throttle, asker, notices>>
    BY <1>3 DEF Queueing, RequestSearch, RequestItemRefresh, QueueSweep, StopWikidataRun, OnlyRuns
  <2>. QED  BY <2>1, QuietSlot DEF SlotIsHeld, SlotTypeOK
<1>. QED  BY <1>1, <1>2, <1>3

LEMMA HandedSlot ==
  ASSUME RunsAreWorked, SlotIsHeld, Handing \/ \E n \in notices : StartRun(n)
  PROVE  SlotIsHeld'
<1>1. ASSUME NEW i \in DOMAIN runs, RunLeaseExpires(i)
      PROVE  SlotIsHeld'
  <2>1. UNCHANGED <<copy, throttle, asker, notices>>  BY <1>1 DEF RunLeaseExpires
  <2>. QED  BY <2>1, QuietSlot DEF SlotIsHeld, SlotTypeOK
<1>2. ASSUME NEW n \in notices, LoseNotice(n)
      PROVE  SlotIsHeld'
  <2>1. UNCHANGED <<copy, throttle, asker>> /\ notices' \subseteq notices  BY <1>2 DEF LoseNotice
  <2>. QED  BY <2>1, QuietSlot DEF SlotIsHeld, SlotTypeOK
<1>3. ASSUME NEW i \in DOMAIN runs, NEW t \in RunTokens, ClaimRun(t, i)
      PROVE  SlotIsHeld'
  <2>1. UNCHANGED <<copy, throttle, asker>> /\ notices' = notices \cup {[run |-> i, token |-> t]}
    BY <1>3 DEF ClaimRun
  <2>2. asker[t].pc = "idle" /\ \A n \in notices : n.token # t  BY <1>3 DEF ClaimRun
  <2>. QED  BY <2>1, <2>2 DEF SlotIsHeld, SlotTypeOK
<1>4. ASSUME NEW n \in notices, StartRun(n)
      PROVE  SlotIsHeld'
  <2>1. UNCHANGED <<copy, throttle>> /\ notices' = notices \ {n}  BY <1>4 DEF StartRun
  <2>2. /\ asker \in [RunTokens -> Askers] /\ notices \subseteq [run : Nat, token : RunTokens]
    BY DEF RunsAreWorked, RunsTypeOK
  <2>3. \A u \in RunTokens \ {n.token} : asker'[u] = asker[u]  BY <1>4, <2>2 DEF StartRun
  <2>4. asker[n.token].pc = "idle" /\ throttle.held # n.token  BY <2>2 DEF SlotIsHeld, ToAsk
  <2>5. \A m \in notices' : m \in notices /\ m.token \in RunTokens \ {n.token}
    BY <2>1, <2>2 DEF SlotIsHeld
  <2>6. \A m \in notices' : /\ asker'[m.token].pc = "idle"
                            /\ \A k \in notices' : k.token = m.token => k = m
    BY <2>3, <2>5 DEF SlotIsHeld
  <2>7. ASSUME NEW u \in RunTokens, throttle'.held = u
        PROVE  /\ asker'[u].pc \in ToAsk
               /\ asker'[u].pc = "search" => ~(asker'[u].batch \subseteq copy'.searched)
    BY <2>1, <2>3, <2>4, <2>7 DEF SlotIsHeld
  <2>. QED  BY <2>1, <2>6, <2>7 DEF SlotIsHeld, SlotTypeOK
<1>. QED  BY <1>1, <1>2, <1>3, <1>4 DEF Handing

LEMMA SpentIsFree ==
  ASSUME NEW row \in ThrottleRows
  PROVE  Spent(row) \in ThrottleRows /\ Spent(row).held = None
<1>1. row.spent + 1 \in Nat  BY DEF ThrottleRows
<1>. QED  BY <1>1 DEF Spent, ThrottleRows

\* What an answer, and a refresh, keep of the items.
LEMMA AnswerIsKept ==
  ASSUME RunsAreWorked, SlotIsHeld, NEW t \in RunTokens, Answer(t)
  PROVE  /\ SlotTypeOK' /\ throttle'.held = None
         /\ \A u \in RunTokens \ {t} : asker'[u] = asker[u]
<1>1. asker[t].pc \in ToAsk  BY DEF Answer, SlotIsHeld
<1>2. PICK w \in Askers : w = asker[t]  BY <1>1, HeldRun DEF ToAsk
<1>3. asker \in [RunTokens -> Askers] /\ site \in [Items -> ItemStates]
  BY DEF RunsAreWorked, RunsTypeOK
<1>4. throttle' \in ThrottleRows /\ throttle'.held = None
  BY SpentIsFree DEF Answer, SlotIsHeld, SlotTypeOK
<1>5. PICK old \in CopyRows : old = copy  BY DEF SlotIsHeld, SlotTypeOK
<1>. USE DEF CopyRows
<1>6. /\ copy' \in CopyRows
      /\ \A u \in RunTokens \ {t} : asker'[u] = asker[u]
  <2>1. CASE w.pc = "search"
    <3>1. /\ asker' = [asker EXCEPT ![t].pc = "found"]
          /\ copy' = [old EXCEPT !.searched = @ \cup w.batch]
      BY <1>2, <1>5, <2>1 DEF Answer, Answered
    <3>2. old.searched \cup w.batch \in SUBSET Roots  BY DEF Askers
    <3>. QED  BY <1>3, <3>1, <3>2
  <2>2. CASE w.pc = "lightly"
    <3>1. PICK new : new = {q \in UNION Range(w.wanted) : old.state[q] = None}  OBVIOUS
    <3>2. PICK state : state = [q \in Items |-> IF q \notin new THEN old.state[q]
                                               ELSE IF site[q] = "ok" THEN "light" ELSE site[q]]
      OBVIOUS
    <3>3. /\ asker' = [asker EXCEPT ![t].pc = "suggest"]
          /\ copy' = [copy EXCEPT
                    !.state = [q \in Items |-> IF q \notin new THEN @[q]
                                               ELSE IF site[q] = "ok" THEN "light" ELSE site[q]],
                    !.aged = @ \ new]
      BY <1>2, <1>5, <2>2, <3>1 DEF Answer, Answered
    <3>4. copy' = [old EXCEPT !.state = state, !.aged = old.aged \ new]  BY <1>5, <3>2, <3>3
    <3>5. state \in [Items -> CacheStates]  BY <1>3, <3>2 DEF ItemStates, CacheStates
    <3>6. old.aged \ new \in SUBSET Items  OBVIOUS
    <3>. QED  BY <1>3, <3>3, <3>4, <3>5, <3>6
  <2>3. CASE w.pc = "info"
    BY <1>2, <1>3, <1>5, <2>3 DEF Answer, Answered
  <2>4. CASE w.pc = "fully"
    BY <1>2, <1>3, <1>5, <2>4 DEF Answer, Answered
  <2>5. CASE w.pc = "classes"
    BY <1>2, <1>3, <1>5, <2>5 DEF Answer, Answered
  <2>. QED  BY <1>1, <1>2, <2>1, <2>2, <2>3, <2>4, <2>5 DEF ToAsk
<1>. QED  BY <1>4, <1>6 DEF SlotTypeOK

LEMMA ApplyIsKept ==
  ASSUME RunsAreWorked, SlotIsHeld, NEW t \in RunTokens, Apply(t)
  PROVE  SlotTypeOK' /\ copy'.searched = copy.searched
<1>1. PICK w : w = asker[t]  OBVIOUS
<1>2. PICK old \in CopyRows : old = copy  BY DEF SlotIsHeld, SlotTypeOK
<1>. USE DEF CopyRows
<1>3. PICK stored : stored = {q \in Items : w.pages[q] \in ItemStates}  OBVIOUS
<1>4. PICK state : state = [q \in Items |-> IF q \notin stored THEN old.state[q]
                                            ELSE IF w.pages[q] = "ok" THEN "full" ELSE w.pages[q]]
  OBVIOUS
<1>5. copy' = [copy EXCEPT
          !.state = [q \in Items |-> IF q \notin stored THEN @[q]
                                     ELSE IF w.pages[q] = "ok" THEN "full" ELSE w.pages[q]],
          !.aged = @ \ (stored \cup Linked(w))]
  BY <1>1, <1>3 DEF Apply
<1>6. copy' = [old EXCEPT !.state = state, !.aged = old.aged \ (stored \cup Linked(w))]
  BY <1>2, <1>4, <1>5
<1>7. state \in [Items -> CacheStates]  BY <1>3, <1>4 DEF ItemStates, CacheStates
<1>8. old.aged \ (stored \cup Linked(w)) \in SUBSET Items  OBVIOUS
<1>9. UNCHANGED throttle  BY DEF Apply
<1>. QED  BY <1>2, <1>6, <1>7, <1>8, <1>9 DEF SlotTypeOK, SlotIsHeld

LEMMA AskedSlot ==
  ASSUME RunsAreWorked, SlotIsHeld, NEW t \in RunTokens,
         \/ TakeBatch(t) \/ RunsOutOfTime(t) \/ SearchKept(t) \/ TakeSlot(t) \/ Answer(t)
         \/ Refused(t) \/ LeaveOut(t) \/ AskClasses(t) \/ Apply(t) \/ SavePlace(t)
         \/ EndRun(t) \/ AskerDies(t)
         \/ \E r \in Roots : Suggest(t, r)
  PROVE  SlotIsHeld'
<1>1. asker \in [RunTokens -> Askers] /\ notices \subseteq [run : Nat, token : RunTokens]
  BY DEF RunsAreWorked, RunsTypeOK
<1>2. CASE \/ TakeBatch(t) \/ RunsOutOfTime(t) \/ SearchKept(t) \/ LeaveOut(t) \/ AskClasses(t)
           \/ SavePlace(t) \/ EndRun(t) \/ \E r \in Roots : Suggest(t, r)
  <2>1. UNCHANGED <<copy, throttle, notices>>
    BY <1>2 DEF TakeBatch, RunsOutOfTime, SearchKept, LeaveOut, AskClasses, SavePlace, EndRun,
                Suggest, OnlyAsker
  <2>2. \A u \in RunTokens \ {t} : asker'[u] = asker[u]
    <3>1. \E next : asker' = [asker EXCEPT ![t] = next]
      BY <1>2, <1>1 DEF TakeBatch, RunsOutOfTime, SearchKept, LeaveOut, AskClasses, SavePlace,
                        EndRun, Suggest
    <3>. QED  BY <1>1, <3>1
  <2>3. asker[t].pc # "idle" /\ throttle.held # t
    BY <1>2 DEF TakeBatch, RunsOutOfTime, SearchKept, LeaveOut, AskClasses, SavePlace, EndRun,
                Suggest, SlotIsHeld, ToAsk
  <2>4. SlotTypeOK'  BY <2>1 DEF SlotIsHeld, SlotTypeOK
  <2>. QED  BY <1>1, <2>1, <2>2, <2>3, <2>4, OwnSlot
<1>3. CASE TakeSlot(t)
  <2>1. UNCHANGED <<copy, notices>> /\ throttle.held = None /\ asker[t].pc \in ToAsk
    BY <1>3 DEF TakeSlot
  <2>2. CASE Blocked
    <3>1. UNCHANGED throttle /\ \A u \in RunTokens \ {t} : asker'[u] = asker[u]
      BY <1>1, <1>3, <2>2 DEF TakeSlot
    <3>2. SlotTypeOK'  BY <2>1, <3>1 DEF SlotIsHeld, SlotTypeOK
    <3>3. asker[t].pc # "idle"  BY <2>1 DEF ToAsk
    <3>. QED  BY <1>1, <2>1, <3>1, <3>2, <3>3, OwnSlot
  <2>3. CASE ~Blocked
    <3>1. UNCHANGED asker /\ throttle' = [throttle EXCEPT !.held = t]  BY <1>3, <2>3 DEF TakeSlot
    <3>2. SlotTypeOK' /\ throttle'.held = t
      BY <2>1, <3>1 DEF SlotIsHeld, SlotTypeOK, ThrottleRows
    <3>3. asker[t].pc = "search" => ~(asker[t].batch \subseteq copy.searched)
      BY <1>3 DEF TakeSlot
    <3>. QED  BY <2>1, <3>1, <3>2, <3>3 DEF SlotIsHeld
  <2>. QED  BY <2>2, <2>3
<1>4. CASE Answer(t)
  <2>1. asker[t].pc # "idle" /\ UNCHANGED notices  BY <1>4 DEF Answer, SlotIsHeld, ToAsk
  <2>. QED  BY <1>1, <1>4, <2>1, AnswerIsKept, OwnSlot
<1>5. CASE Refused(t)
  <2>1. asker[t].pc # "idle" /\ UNCHANGED <<notices, copy>>  BY <1>5 DEF Refused, SlotIsHeld, ToAsk
  <2>2. SlotTypeOK' /\ throttle'.held = None
    <3>1. PICK row \in ThrottleRows : row = Spent(throttle) /\ row.held = None
      BY SpentIsFree DEF SlotIsHeld, SlotTypeOK
    <3>2. throttle' = [row EXCEPT !.paused = TRUE]  BY <1>5, <3>1 DEF Refused
    <3>. QED  BY <2>1, <3>1, <3>2 DEF SlotIsHeld, SlotTypeOK, ThrottleRows
  <2>3. \A u \in RunTokens \ {t} : asker'[u] = asker[u]  BY <1>1, <1>5 DEF Refused
  <2>. QED  BY <1>1, <2>1, <2>2, <2>3, OwnSlot
<1>6. CASE Apply(t)
  <2>1. SlotTypeOK' /\ copy'.searched = copy.searched  BY <1>6, ApplyIsKept
  <2>2. UNCHANGED <<notices, throttle>>  BY <1>6 DEF Apply
  <2>3. asker[t].pc # "idle" /\ throttle.held # t  BY <1>6 DEF Apply, SlotIsHeld, ToAsk
  <2>4. \A u \in RunTokens \ {t} : asker'[u] = asker[u]  BY <1>1, <1>6 DEF Apply
  <2>. QED  BY <1>1, <2>1, <2>2, <2>3, <2>4, OwnSlot
<1>7. CASE AskerDies(t)
  <2>1. asker[t].pc # "idle" /\ UNCHANGED copy /\ asker' = [asker EXCEPT ![t] = Nobody]
    BY <1>7 DEF AskerDies
  <2>2. asker'[t].pc = "idle" /\ \A u \in RunTokens \ {t} : asker'[u] = asker[u]
    BY <1>1, <2>1, NobodyIsAsker
  <2>3. throttle' = IF throttle.held = t THEN [throttle EXCEPT !.held = None] ELSE throttle
    BY <1>7 DEF AskerDies
  <2>4. SlotTypeOK'  BY <2>1, <2>3 DEF SlotIsHeld, SlotTypeOK, ThrottleRows
  <2>5. \/ throttle'.held = None
        \/ throttle.held # t /\ throttle'.held = throttle.held
    BY <2>3 DEF SlotIsHeld, SlotTypeOK, ThrottleRows
  <2>6. PICK n : n = [run |-> asker[t].run, token |-> t]  OBVIOUS
  <2>7. n.token = t /\ notices' \subseteq notices \cup {n}  BY <1>7, <2>6 DEF AskerDies
  <2>. QED  BY <1>1, <2>1, <2>2, <2>4, <2>5, <2>7, OwnSlot
<1>. QED  BY <1>2, <1>3, <1>4, <1>5, <1>6, <1>7
-----------------------------------------------------------------------------
LEMMA AskingStep ==
  ASSUME RunsAreWorked, SlotIsHeld, Asking
  PROVE  RunsAreWorked' /\ EndsAreKept /\ SlotIsHeld'
<1>1. CASE \E n \in notices : StartRun(n)  BY <1>1, StartRunStep, HandedSlot
<1>2. ASSUME NEW t \in RunTokens,
             \/ TakeBatch(t) \/ RunsOutOfTime(t) \/ SearchKept(t) \/ TakeSlot(t) \/ Answer(t)
             \/ Refused(t) \/ LeaveOut(t) \/ AskClasses(t) \/ Apply(t) \/ SavePlace(t)
             \/ EndRun(t) \/ AskerDies(t)
             \/ \E r \in Roots : Suggest(t, r)
      PROVE  RunsAreWorked' /\ EndsAreKept /\ SlotIsHeld'
  <2>1. SlotIsHeld'  BY <1>2, AskedSlot
  <2>2. RunsAreWorked' /\ EndsAreKept
    BY <1>2, TakeBatchStep, OutOfTimeStep, SearchKeptStep, TakeSlotStep, AnswerStep, RefusedStep,
       LeaveOutStep, AskClassesStep, ApplyStep, SavePlaceStep, EndRunStep, AskerDiesStep, SuggestStep
  <2>. QED  BY <2>1, <2>2
<1>. QED  BY <1>1, <1>2 DEF Asking

LEMMA RunsAreWorkedByInit == WikidataInit => RunsAreWorked /\ SlotIsHeld
<1>. SUFFICES ASSUME WikidataInit PROVE RunsAreWorked /\ SlotIsHeld  OBVIOUS
<1>. USE DEF WikidataInit
<1>1. file \in FileRows  BY DEF FileRows, ItemOrNone, CandidateStates
<1>2. site \in [Items -> ItemStates]  BY DEF ItemStates
<1>3. runs \in Seq(RunRows) /\ DOMAIN runs = {}  OBVIOUS
<1>4. asker \in [RunTokens -> Askers] /\ \A t \in RunTokens : asker[t].pc = "idle"
  BY NobodyIsAsker
<1>5. RunsAreWorked  BY <1>1, <1>2, <1>3, <1>4 DEF RunsAreWorked, RunsTypeOK
<1>6. SlotTypeOK
  <2>1. [q \in Items |-> None] \in [Items -> CacheStates]  BY DEF CacheStates
  <2>. QED  BY <2>1 DEF SlotTypeOK, CopyRows, ThrottleRows
<1>7. \A t \in RunTokens : throttle.held # t  BY WikidataConstants
<1>. QED  BY <1>5, <1>6, <1>7 DEF SlotIsHeld

LEMMA RunsAreWorkedByNext ==
  ASSUME RunsAreWorked, SlotIsHeld, [WikidataNext]_wikidataVars
  PROVE  RunsAreWorked' /\ SlotIsHeld' /\ EndsAreKept
<1>1. CASE WikidataNext
  BY <1>1, ChangesStep, DecisionStep, QueueingStep, HandingStep, AskingStep, SlotStaysQuiet, HandedSlot
     DEF WikidataNext
<1>2. CASE UNCHANGED wikidataVars
  <2>1. UNCHANGED <<file, copy, site, runs, notices, asker, throttle>>  BY <1>2 DEF wikidataVars
  <2>2. RunsAreWorked'
    BY <2>1 DEF RunsAreWorked, RunsTypeOK, OwesWhatIsOpen, KeepsStep, Holding
  <2>. QED  BY <2>1, <2>2 DEF SlotIsHeld, SlotTypeOK, EndsAreKept
<1>. QED  BY <1>1, <1>2

\* A run of Wikidata is handed from worker to worker: one that has ended stays as it ended,
\* whoever still works on it (runs.py _update), and a sweep that is finished came to every
\* root without a link (process_run and its cursor).
THEOREM RunsDoTheirWorkHolds == WikidataSpec => RunsDoTheirWork
<1>1. WikidataInit => RunsAreWorked /\ SlotIsHeld  BY RunsAreWorkedByInit
<1>2. RunsAreWorked /\ SlotIsHeld /\ [WikidataNext]_wikidataVars => (RunsAreWorked /\ SlotIsHeld)'
  BY RunsAreWorkedByNext
<1>3. RunsAreWorked => SweepSkipsNoRoot
  BY DEF RunsAreWorked, OwesWhatIsOpen, SweepSkipsNoRoot
<1>4. RunsAreWorked /\ SlotIsHeld /\ [WikidataNext]_wikidataVars =>
        [\A i \in DOMAIN runs : runs[i].status \in Over => runs'[i].status = runs[i].status]_runs
  BY RunsAreWorkedByNext DEF EndsAreKept
<1>. QED  BY <1>1, <1>2, <1>3, <1>4, PTL DEF WikidataSpec, RunsDoTheirWork, RunEndsOnce

-----------------------------------------------------------------------------
(* Lists: what is the first part of a set in some order. *)

\* O orders the rows of F one after the other.
Orders(O, F) ==
  /\ \A x \in F : <<x, x>> \notin O
  /\ \A x, y, z \in F : <<x, y>> \in O /\ <<y, z>> \in O => <<x, z>> \in O
  /\ \A x, y \in F : x # y => <<x, y>> \in O \/ <<y, x>> \in O

BeforeIt(O, F, x) == {y \in F : <<y, x>> \in O}

LEMMA MoreBeforeIt ==
  ASSUME NEW O, NEW F, IsFiniteSet(F), Orders(O, F), NEW x \in F, NEW y \in F, <<x, y>> \in O
  PROVE  Cardinality(BeforeIt(O, F, x)) < Cardinality(BeforeIt(O, F, y))
<1>. DEFINE A == BeforeIt(O, F, x)
            B == BeforeIt(O, F, y)
<1>1. A \subseteq B /\ x \in B /\ x \notin A  BY DEF Orders, BeforeIt
<1>2. IsFiniteSet(A) /\ IsFiniteSet(B)  BY FS_Subset DEF BeforeIt
<1>3. Cardinality(A) <= Cardinality(B) /\ Cardinality(A) # Cardinality(B)
  BY ONLY <1>1, <1>2, FS_Subset
<1>4. Cardinality(A) \in Nat /\ Cardinality(B) \in Nat  BY ONLY <1>2, FS_CardinalityType
<1>. QED  BY <1>3, <1>4

LEMMA LastOfThem ==
  ASSUME NEW O, NEW F, IsFiniteSet(F), Orders(O, F), NEW G \in SUBSET F, G # {}
  PROVE  \E x \in G : \A y \in G \ {x} : <<y, x>> \in O
<1>1. IsFiniteSet(G) /\ Orders(O, G)  BY FS_Subset DEF Orders
<1>2. \A x \in G : IsFiniteSet(BeforeIt(O, G, x)) /\ Cardinality(BeforeIt(O, G, x)) \in 0..Cardinality(G)
  <2>1. SUFFICES ASSUME NEW x \in G
                 PROVE  IsFiniteSet(BeforeIt(O, G, x)) /\ Cardinality(BeforeIt(O, G, x)) \in 0..Cardinality(G)
    OBVIOUS
  <2>2. BeforeIt(O, G, x) \subseteq G  BY DEF BeforeIt
  <2>3. /\ IsFiniteSet(BeforeIt(O, G, x))
        /\ Cardinality(BeforeIt(O, G, x)) <= Cardinality(G)
    BY ONLY <1>1, <2>2, FS_Subset
  <2>. QED  BY <1>1, <2>3, FS_CardinalityType
<1>. DEFINE T == {Cardinality(BeforeIt(O, G, x)) : x \in G}
<1>3. T \subseteq 0..Cardinality(G) /\ T # {}  BY <1>2
<1>4. Cardinality(G) \in Nat  BY <1>1, FS_CardinalityType
<1>5. PICK m \in T : \A k \in T : k <= m
  <2>. HIDE DEF T
  <2>. QED  BY <1>3, <1>4, LargestNumber
<1>6. PICK x \in G : m = Cardinality(BeforeIt(O, G, x))  OBVIOUS
<1>7. ASSUME NEW y \in G \ {x}, <<y, x>> \notin O
      PROVE  FALSE
  <2>1. <<x, y>> \in O  BY <1>1, <1>7 DEF Orders
  <2>2. Cardinality(BeforeIt(O, G, x)) < Cardinality(BeforeIt(O, G, y))  BY <1>1, <2>1, MoreBeforeIt
  <2>3. Cardinality(BeforeIt(O, G, y)) <= m  BY <1>5
  <2>. QED  BY <1>2, <1>6, <2>2, <2>3
<1>. QED  BY <1>7

LEMMA FirstOfThem ==
  ASSUME NEW O, NEW F, IsFiniteSet(F), Orders(O, F), NEW G \in SUBSET F, G # {}
  PROVE  \E x \in G : \A y \in G \ {x} : <<x, y>> \in O
<1>. DEFINE R == {p \in F \X F : <<p[2], p[1]>> \in O}
<1>1. \A x, y \in F : <<x, y>> \in R <=> <<y, x>> \in O  OBVIOUS
<1>. HIDE DEF R
<1>2. Orders(R, F)  BY <1>1 DEF Orders
<1>3. PICK x \in G : \A y \in G \ {x} : <<y, x>> \in R  BY <1>2, LastOfThem
<1>. QED  BY <1>1, <1>3

LEMMA SmallerOfTwo ==
  ASSUME NEW a \in Nat, NEW b \in Nat
  PROVE  Min({a, b}) = IF a <= b THEN a ELSE b
<1>1. Min({a, b}) \in {a, b} /\ \A k \in {a, b} : Min({a, b}) <= k  BY SmallestNumber
<1>. QED  BY <1>1

\* There is a first part of as many rows as one wants, or of all.
LEMMA FirstPart ==
  ASSUME NEW O, NEW F, IsFiniteSet(F), Orders(O, F), NEW n \in Nat
  PROVE  \E S \in SUBSET F : /\ Cardinality(S) = Min({n, Cardinality(F)})
                             /\ \A x \in S, y \in F \ S : <<y, x>> \notin O
<1>. DEFINE rank(x) == Cardinality(BeforeIt(O, F, x))
            S == {x \in F : rank(x) < n}
<1>1. Cardinality(F) \in Nat  BY FS_CardinalityType
<1>2. \A x \in F : rank(x) \in Nat
  <2>1. \A x \in F : IsFiniteSet(BeforeIt(O, F, x))  BY FS_Subset DEF BeforeIt
  <2>. QED  BY <2>1, FS_CardinalityType
<1>3. \A x, y \in F : <<x, y>> \in O => rank(x) < rank(y)  BY MoreBeforeIt
<1>4. \A x \in S, y \in F \ S : <<y, x>> \notin O
  BY <1>2, <1>3
<1>5. IsFiniteSet(S)  BY FS_Subset
<1>6. Cardinality(S) <= n
  <2>1. CASE S = {}  BY <2>1, FS_EmptySet
  <2>2. CASE S # {}
    <3>1. PICK z \in S : \A y \in S \ {z} : <<y, z>> \in O
      <4>. S \in SUBSET F  OBVIOUS
      <4>. HIDE DEF S
      <4>. QED  BY <2>2, LastOfThem
    <3>2. S \ {z} \subseteq BeforeIt(O, F, z)  BY <3>1 DEF BeforeIt
    <3>3. IsFiniteSet(BeforeIt(O, F, z))  BY FS_Subset DEF BeforeIt
    <3>4. Cardinality(S \ {z}) <= rank(z)
      <4>. HIDE DEF S
      <4>. QED  BY <3>2, <3>3, FS_Subset
    <3>5. Cardinality(S \ {z}) = Cardinality(S) - 1
      <4>. HIDE DEF S
      <4>. QED  BY <1>5, <3>1, FS_RemoveElement
    <3>6. rank(z) < n /\ rank(z) \in Nat  BY <1>2, <3>1
    <3>7. Cardinality(S) \in Nat
      <4>. HIDE DEF S
      <4>. QED  BY <1>5, FS_CardinalityType
    <3>. HIDE DEF S, rank
    <3>. QED  BY <3>4, <3>5, <3>6, <3>7
  <2>. QED  BY <2>1, <2>2
<1>7. S # F => n <= Cardinality(S)
  <2>1. SUFFICES ASSUME S # F PROVE n <= Cardinality(S)  OBVIOUS
  <2>2. PICK z \in F \ S : \A y \in (F \ S) \ {z} : <<z, y>> \in O
    <3>1. PICK G \in SUBSET F : G = F \ S  OBVIOUS
    <3>2. G # {}  BY <2>1, <3>1
    <3>3. \E z \in G : \A y \in G \ {z} : <<z, y>> \in O  BY ONLY <3>2, IsFiniteSet(F), Orders(O, F), FirstOfThem
    <3>. QED  BY <3>1, <3>3
  <2>3. BeforeIt(O, F, z) \subseteq S
    <3>1. \A y \in F \ S : <<y, z>> \notin O  BY <2>2 DEF Orders
    <3>. QED  BY <3>1 DEF BeforeIt
  <2>4. rank(z) <= Cardinality(S)
    <3>. HIDE DEF S
    <3>. QED  BY <1>5, <2>3, FS_Subset
  <2>5. rank(z) >= n /\ rank(z) \in Nat  BY <1>2, <2>2
  <2>6. Cardinality(S) \in Nat
    <3>. HIDE DEF S
    <3>. QED  BY <1>5, FS_CardinalityType
  <2>. HIDE DEF S, rank
  <2>. QED  BY <2>4, <2>5, <2>6
<1>8. Cardinality(S) <= Cardinality(F) /\ Cardinality(S) \in Nat
  <2>. S \in SUBSET F  OBVIOUS
  <2>. HIDE DEF S
  <2>. QED  BY <1>5, FS_Subset, FS_CardinalityType
<1>9. Cardinality(S) = Min({n, Cardinality(F)})
  <2>1. Min({n, Cardinality(F)}) = IF n <= Cardinality(F) THEN n ELSE Cardinality(F)  BY <1>1, SmallerOfTwo
  <2>. HIDE DEF S
  <2>. QED  BY <1>1, <1>6, <1>7, <1>8, <2>1
<1>. QED  BY <1>4, <1>9

-----------------------------------------------------------------------------
(* The keys rows are sorted by, and the cursors. *)

Keys(n) == {k \in Seq(Int) : Len(k) = n}

LEMMA BeforeOrders ==
  ASSUME NEW n \in Nat
  PROVE  /\ \A k \in Keys(n) : ~Before(k, k)
         /\ \A j, k, l \in Keys(n) : Before(j, k) /\ Before(k, l) => Before(j, l)
         /\ \A k, l \in Keys(n) : k # l => Before(k, l) \/ Before(l, k)
<1>1. \A k \in Keys(n) : DOMAIN k = 1..n /\ \A i \in 1..n : k[i] \in Int  BY DEF Keys
<1>2. \A k \in Keys(n) : ~Before(k, k)  BY <1>1 DEF Before
<1>3. ASSUME NEW j \in Keys(n), NEW k \in Keys(n), NEW l \in Keys(n), Before(j, k), Before(k, l)
      PROVE  Before(j, l)
  <2>1. PICK a \in 1..n : j[a] < k[a] /\ \A i \in 1..a - 1 : j[i] = k[i]  BY <1>1, <1>3 DEF Before
  <2>2. PICK b \in 1..n : k[b] < l[b] /\ \A i \in 1..b - 1 : k[i] = l[i]  BY <1>1, <1>3 DEF Before
  <2>3. PICK c \in 1..n : c = IF a <= b THEN a ELSE b  OBVIOUS
  <2>4. j[c] < l[c]  BY <1>1, <2>1, <2>2, <2>3
  <2>5. \A i \in 1..c - 1 : j[i] = l[i]  BY <1>1, <2>1, <2>2, <2>3
  <2>. QED  BY <1>1, <2>3, <2>4, <2>5 DEF Before
<1>4. ASSUME NEW k \in Keys(n), NEW l \in Keys(n), k # l
      PROVE  Before(k, l) \/ Before(l, k)
  <2>. DEFINE T == {i \in 1..n : k[i] # l[i]}
  <2>1. T # {}
    <3>1. SUFFICES ASSUME T = {} PROVE k = l  BY <1>4
    <3>2. \A i \in 1..n : k[i] = l[i]  BY <3>1
    <3>3. k \in Seq(Int) /\ l \in Seq(Int) /\ Len(k) = Len(l) /\ Len(k) = n  BY DEF Keys
    <3>. QED  BY <3>2, <3>3, SeqEqual
  <2>2. T \subseteq Nat  OBVIOUS
  <2>3. PICK m \in T : \A i \in T : m <= i
    <3>. HIDE DEF T
    <3>. QED  BY <2>1, <2>2, LeastNumber
  <2>4. \A i \in 1..m - 1 : k[i] = l[i]  BY <2>3
  <2>5. k[m] < l[m] \/ l[m] < k[m]  BY <1>1, <2>3
  <2>. QED  BY <1>1, <2>3, <2>4, <2>5 DEF Before
<1>. QED  BY <1>2, <1>3, <1>4

-----------------------------------------------------------------------------
(* The archive that is read, and the rows of its lists. *)

Files == [ArticleIds -> Articles \cup {None}]

Summaries == [count : Nat, stories : Nat, started : 1..LastDay, ended : 1..LastDay]

RootMaps == {root \in [EntityIds -> EntityIds] : \A n \in EntityIds : root[root[n]] = root[n]}

Catalogues ==
  [event : [Stories -> Events \cup {None}], summary : [Events -> Summaries \cup {None}],
   tagged : SUBSET Sources, root : RootMaps]

\* What ReadingTypeOK says of the archive, with the rows of the events, and that a root is its own.
ArchiveIsRead ==
  /\ facts \in Files
  /\ documents \in Files
  /\ catalogue \in Catalogues
  /\ happened \in 0..MaxHappened

LEMMA ReadingSizes ==
  /\ LastArticle \in Nat \ {0} /\ LastStory \in Nat \ {0} /\ LastSource \in Nat \ {0} /\ LastName \in Nat \ {0}
  /\ LastEvent \in Nat \ {0} /\ LastDay \in Nat \ {0} /\ PageSize \in Nat \ {0} /\ LeastWeight \in Nat \ {0}
  /\ MaxHappened \in Nat
BY ReadingBounds

LEMMA ArticlesAreFinite ==
  ASSUME NEW A, A \subseteq ArticleIds \/ A \subseteq Stories \/ A \subseteq Events
  PROVE  IsFiniteSet(A) /\ Cardinality(A) \in Nat
<1>1. IsFiniteSet(ArticleIds) /\ IsFiniteSet(Stories) /\ IsFiniteSet(Events)
  BY ReadingSizes, FS_Interval DEF ArticleIds, Stories, Events
<1>2. IsFiniteSet(A)  BY <1>1, FS_Subset
<1>. QED  BY <1>2, FS_CardinalityType

\* The days of some articles: the first and the last of them are days.
LEMMA DaysOf ==
  ASSUME facts \in Files, NEW A, A \subseteq Archived, A # {}
  PROVE  /\ Max({facts[a].date : a \in A}) \in 1..LastDay
         /\ Min({facts[a].date : a \in A}) \in 1..LastDay
<1>. DEFINE T == {facts[a].date : a \in A}
<1>1. \A a \in A : facts[a] \in Articles  BY DEF Archived, Files
<1>2. T \subseteq 1..LastDay /\ T # {}  BY <1>1 DEF Articles
<1>3. LastDay \in Nat  BY ReadingSizes
<1>. HIDE DEF T
<1>4. T \subseteq 0..LastDay /\ T \subseteq Nat  BY <1>2, <1>3
<1>5. Max(T) \in T /\ Min(T) \in T  BY <1>2, <1>3, <1>4, LargestNumber, SmallestNumber
<1>. QED  BY <1>2, <1>5 DEF T

LEMMA SummaryIsTyped ==
  ASSUME facts \in Files, NEW tie, NEW e
  PROVE  SummaryOf(tie, e) \in Summaries \cup {None}
<1>. DEFINE A == ArticlesIn(tie, e)
<1>1. A \subseteq Archived /\ A \subseteq ArticleIds  BY DEF ArticlesIn, Archived
<1>2. StoriesCarrying(A) \subseteq Stories
  BY <1>1 DEF StoriesCarrying, Archived, Files, Articles
<1>3. Cardinality(A) \in Nat /\ Cardinality(StoriesCarrying(A)) \in Nat  BY <1>1, <1>2, ArticlesAreFinite
<1>4. CASE A = {}  BY <1>4 DEF SummaryOf
<1>5. CASE A # {}
  <2>1. /\ Max({facts[a].date : a \in A}) \in 1..LastDay
        /\ Min({facts[a].date : a \in A}) \in 1..LastDay
    BY <1>1, <1>5, DaysOf
  <2>. QED  BY <1>3, <1>5, <2>1 DEF SummaryOf, Summaries
<1>. QED  BY <1>4, <1>5

LEMMA ArchiveReadInit == ASSUME ReadingInit
                         PROVE  ArchiveIsRead
<1>1. facts \in Files /\ documents \in Files  BY ReadingTables, ReadingSizes DEF ReadingInit, Files, ArticleIds
<1>2. [e \in Events |-> SummaryOf(FirstEvents, e)] \in [Events -> Summaries \cup {None}]
  BY <1>1, SummaryIsTyped
<1>3. [n \in EntityIds |-> n] \in RootMaps  BY DEF RootMaps
<1>4. catalogue.root = [n \in EntityIds |-> n] /\ happened = 0  BY DEF ReadingInit
<1>5. catalogue \in Catalogues
  BY <1>2, <1>3, ReadingTables DEF ReadingInit, Catalogues
<1>. QED  BY <1>1, <1>4, <1>5, ReadingSizes DEF ArchiveIsRead

LEMMA NewFactsAreRead ==
  ASSUME ArchiveIsRead, NEW a \in ArticleIds, NEW f \in Articles, NewFacts(a, f)
  PROVE  ArchiveIsRead'
BY ReadingSizes DEF ArchiveIsRead, NewFacts, Happens, Files

LEMMA NewCatalogueIsRead ==
  ASSUME ArchiveIsRead, NEW c \in Catalogues, NewCatalogue(c)
  PROVE  ArchiveIsRead'
BY ReadingSizes DEF ArchiveIsRead, NewCatalogue, Happens

LEMMA ArchiveGoesOnIsRead ==
  ASSUME ArchiveIsRead, ArchiveGoesOn
  PROVE  ArchiveIsRead'
<1>1. CASE Discover
  <2>1. LastArticle \in ArticleIds  BY ReadingSizes DEF ArticleIds
  <2>2. FirstFacts[LastArticle] \in Articles  BY <2>1, ReadingTables
  <2>. QED  BY <1>1, <2>1, <2>2, NewFactsAreRead DEF Discover
<1>2. ASSUME NEW a \in Archived
      PROVE  a \in ArticleIds /\ facts[a] \in Articles
  BY DEF Archived, ArchiveIsRead, Files
<1>3. ASSUME NEW a \in Archived, NEW s \in Sources, Carry(a, s)
      PROVE  ArchiveIsRead'
  <2>1. [facts[a] EXCEPT !.sources = @ \union {s}] \in Articles  BY <1>2, <1>3 DEF Articles
  <2>. QED  BY <1>2, <1>3, <2>1, NewFactsAreRead DEF Carry
<1>4. ASSUME NEW a \in Archived, NEW s \in Stories, Regroup(a, s)
      PROVE  ArchiveIsRead'
  <2>1. [facts[a] EXCEPT !.story = s] \in Articles  BY <1>2, <1>4 DEF Articles
  <2>. QED  BY <1>2, <1>4, <2>1, NewFactsAreRead DEF Regroup
<1>5. ASSUME NEW a \in Archived, MoveNames(a)
      PROVE  ArchiveIsRead'
  <2>1. \A n \in EntityIds : RootOfName(n) \in EntityIds  BY DEF ArchiveIsRead, RootMaps, RootOfName, Catalogues
  <2>2. [facts[a] EXCEPT !.names = {RootOfName(n) : n \in @}] \in Articles  BY <1>2, <1>5, <2>1 DEF Articles
  <2>. QED  BY <1>2, <1>5, <2>2, NewFactsAreRead DEF MoveNames
<1>6. ASSUME NEW a \in Archived, FinishArticle(a)
      PROVE  ArchiveIsRead'
  <2>1. LastDay + 1 \in 1..LastDay + 1  BY ReadingSizes
  <2>2. [facts[a] EXCEPT !.finished = LastDay + 1] \in Articles  BY <1>2, <1>6, <2>1 DEF Articles
  <2>. QED  BY <1>2, <1>6, <2>2, NewFactsAreRead DEF FinishArticle
<1>7. ASSUME NEW a \in Archived, Deliver(a)
      PROVE  ArchiveIsRead'
  BY <1>2, <1>7, ReadingSizes DEF ArchiveIsRead, Deliver, Happens, Files
<1>8. catalogue.event \in [Stories -> Events \cup {None}] /\ catalogue.summary \in [Events -> Summaries \cup {None}]
      /\ catalogue.tagged \in SUBSET Sources /\ catalogue.root \in RootMaps
  BY DEF ArchiveIsRead, Catalogues
<1>9. \A tie, e : SummaryOf(tie, e) \in Summaries \cup {None}  BY SummaryIsTyped DEF ArchiveIsRead
<1>10. PICK c \in Catalogues : c = catalogue
  BY DEF ArchiveIsRead
<1>11. ASSUME NEW e \in Events, RefreshEvent(e)
       PROVE  ArchiveIsRead'
  <2>1. [catalogue EXCEPT !.summary[e] = SummaryOf(catalogue.event, e)] \in Catalogues
    BY <1>8, <1>9, <1>10 DEF Catalogues
  <2>. QED  BY <1>11, <2>1, NewCatalogueIsRead DEF RefreshEvent
<1>12. ASSUME NEW e \in Events, NEW s \in Stories, TieStory(s, e)
       PROVE  ArchiveIsRead'
  <2>1. PICK tie \in [Stories -> Events \cup {None}] : tie = [catalogue.event EXCEPT ![s] = e]  BY <1>8
  <2>2. PICK summary : summary = [o \in Events |-> IF o \in {e, catalogue.event[s]}
                                                  THEN SummaryOf(tie, o) ELSE catalogue.summary[o]]
    OBVIOUS
  <2>3. summary \in [Events -> Summaries \cup {None}]  BY <1>8, <1>9, <2>2
  <2>4. [catalogue EXCEPT !.event = tie, !.summary = summary] \in Catalogues
    BY <1>10, <2>3 DEF Catalogues
  <2>5. NewCatalogue([catalogue EXCEPT !.event = tie, !.summary = summary])
    BY <1>10, <1>12, <2>1, <2>2 DEF TieStory
  <2>. QED  BY <2>4, <2>5, NewCatalogueIsRead
<1>13. ASSUME NEW s \in Sources, TagSource(s)
       PROVE  ArchiveIsRead'
  <2>1. [catalogue EXCEPT !.tagged = IF s \in @ THEN @ \ {s} ELSE @ \union {s}] \in Catalogues
    BY <1>10 DEF Catalogues
  <2>. QED  BY <1>13, <2>1, NewCatalogueIsRead DEF TagSource
<1>14. ASSUME NEW n \in EntityIds, NEW m \in EntityIds, MergeNames(n, m)
       PROVE  ArchiveIsRead'
  <2>1. PICK root : root = [k \in EntityIds |-> IF catalogue.root[k] = n THEN m ELSE catalogue.root[k]]  OBVIOUS
  <2>2. root \in RootMaps  BY <1>8, <1>14, <2>1 DEF RootMaps, MergeNames, RootOfName
  <2>3. [catalogue EXCEPT !.root = root] \in Catalogues
    BY <1>10, <2>2 DEF Catalogues
  <2>4. NewCatalogue([catalogue EXCEPT !.root = root])  BY <1>10, <1>14, <2>1 DEF MergeNames
  <2>. QED  BY <2>3, <2>4, NewCatalogueIsRead
<1>. QED  BY <1>1, <1>3, <1>4, <1>5, <1>6, <1>7, <1>11, <1>12, <1>13, <1>14 DEF ArchiveGoesOn

KeyLength(r) ==
  IF \/ r.view \in Searches /\ r.sort \in {"relevance", "most_sources"}
     \/ r.view = "events" /\ r.sort = "biggest"
  THEN 3 ELSE 2

LEMMA PairsAreKeys ==
  ASSUME NEW a \in Int, NEW b \in Int
  PROVE  /\ <<a, b>> \in Keys(2)
         /\ \A c \in Int : <<c, a, b>> \in Keys(3)
BY DEF Keys

LEMMA HitsAreTyped ==
  ASSUME NEW index \in Files, NEW q, NEW a \in Hits(index, q)
  PROVE  /\ a \in ArticleIds /\ a \in Int
         /\ index[a] \in Articles /\ index[a].date \in Int /\ index[a].found \in Int
         /\ Cardinality(index[a].sources) \in Int
<1>1. a \in ArticleIds /\ index[a] \in Articles  BY DEF Hits, Files
<1>2. index[a].date \in 1..LastDay /\ index[a].found \in 1..LastDay /\ index[a].sources \subseteq Sources
  BY <1>1 DEF Articles
<1>3. IsFiniteSet(Sources)  BY ReadingSizes, FS_Interval DEF Sources
<1>4. IsFiniteSet(index[a].sources)  BY <1>2, <1>3, FS_Subset
<1>. QED  BY <1>1, <1>2, <1>4, FS_CardinalityType DEF ArticleIds

LEMMA FocusesAreHits ==
  ASSUME NEW r, NEW index
  PROVE  FocusQuery(r, index) \subseteq Hits(index, BuildQuery(r.c))
BY DEF FocusQuery, Carrying

\* The rows of the lists over the tables, when they are stories.
LEMMA StoriesAreRecent ==
  ASSUME facts \in Files, NEW A, A \subseteq Archived, NEW s \in StoriesCarrying(A)
  PROVE  s \in Stories /\ s \in Int /\ RecencyOf(s) \in Int
<1>1. PICK a \in A : s = facts[a].story /\ s # None  BY DEF StoriesCarrying
<1>2. facts[a] \in Articles  BY <1>1 DEF Archived, Files
<1>3. s \in Stories  BY <1>1, <1>2 DEF Articles
<1>4. PICK B : B = {b \in Archived : facts[b].story = s}  OBVIOUS
<1>5. B \subseteq Archived /\ B # {}  BY <1>1, <1>4
<1>6. Max({facts[b].date : b \in B}) \in 1..LastDay  BY <1>5, DaysOf
<1>7. RecencyOf(s) \in 1..LastDay  BY <1>4, <1>6 DEF RecencyOf
<1>. QED  BY <1>3, <1>7 DEF Stories

TablePages == {"compare", "event", "source", "name"}

\* The articles behind a list over the tables, or the stories of some.
LEMMA TablesAreListed ==
  ASSUME facts \in Files, NEW r \in Requests, r.view \in TablePages
  PROVE  IF r.of = "articles" THEN Behind(r) \subseteq Archived
         ELSE \E A \in SUBSET Archived : Behind(r) \subseteq StoriesCarrying(A)
<1>1. Archived \subseteq ArticleIds  BY DEF Archived
<1>2. CASE r.view = "compare"
  <2>1. Behind(r) = PartOf(SideOf(r, ByRoot(r, r.a)), SideOf(r, ByRoot(r, r.b)), r.part)
    BY <1>2 DEF Behind, FromSnapshot, Searches
  <2>2. PICK a, b, A, B : a = ByRoot(r, r.a) /\ b = ByRoot(r, r.b) /\ A = SubjectArticles(r.kind, a)
                          /\ B = SubjectArticles(r.kind, b)
    OBVIOUS
  <2>3. A \subseteq Archived /\ B \subseteq Archived  BY <2>2 DEF SubjectArticles
  <2>4. r.part \in {"a", "both", "b"}  BY <1>2, ReadingRequests
  <2>5. \A X, Y : PartOf(X, Y, r.part) \subseteq X \/ PartOf(X, Y, r.part) \subseteq Y  BY <2>4 DEF PartOf
  <2>6. Behind(r) \subseteq SideOf(r, a) \/ Behind(r) \subseteq SideOf(r, b)  BY <2>1, <2>2, <2>5
  <2>. QED  BY <2>2, <2>3, <2>6 DEF SideOf
<1>3. CASE r.view = "event"
  BY <1>3 DEF Behind, FromSnapshot, Searches, ShownAs, ArticlesOfEvent, ArticlesIn
<1>4. CASE r.view = "source"
  BY <1>4 DEF Behind, FromSnapshot, Searches, ShownAs, ArticlesOfSource
<1>5. CASE r.view = "name"
  BY <1>5 DEF Behind, FromSnapshot, Searches, ShownAs, ArticlesNaming
<1>. QED  BY <1>2, <1>3, <1>4, <1>5 DEF TablePages

Rows == ArticleIds \cup Stories \cup Events

\* A list is finite, and each row is at a place of its own in it.
LEMMA RowsHaveKeys ==
  ASSUME ArchiveIsRead, NEW r \in Requests, FromSnapshot(r) => reading.snapshot \in Files
  PROVE  /\ IsFiniteSet(Behind(r)) /\ Behind(r) \subseteq Rows
         /\ \A x \in Behind(r) : SortKey(r, x) \in Keys(KeyLength(r))
         /\ \A x, y \in Behind(r) : SortKey(r, x) = SortKey(r, y) => x = y
<1>1. CASE FromSnapshot(r)
  <2>1. PICK index, q : index \in Files /\ index = reading.snapshot /\ Behind(r) = Hits(index, q)
    BY <1>1 DEF Behind, FromSnapshot, Searches
  <2>2. \A x \in Behind(r) : SortKey(r, x) = SearchKey(index[x], x, r.sort)
    BY <1>1, <2>1 DEF SortKey, FromSnapshot, Searches
  <2>3. r.sort \in {"relevance", "newest", "oldest", "most_sources"} /\ r.view \in Searches
    BY <1>1, ReadingRequests DEF FromSnapshot
  <2>4. \A x \in Behind(r) : /\ x \in ArticleIds /\ x \in Int
                             /\ index[x].date \in Int /\ Cardinality(index[x].sources) \in Int
    BY <2>1, HitsAreTyped
  <2>5. \A x \in Behind(r) : SortKey(r, x) = IF r.sort = "newest" THEN <<-index[x].date, x>>
                                             ELSE IF r.sort = "oldest" THEN <<index[x].date, x>>
                                             ELSE IF r.sort = "relevance" THEN <<-ScoreOf[x], -index[x].date, x>>
                                             ELSE <<-Cardinality(index[x].sources), -index[x].date, x>>
    BY <2>2, <2>3 DEF SearchKey
  <2>6. ASSUME NEW x \in Behind(r)
        PROVE  SortKey(r, x) \in Keys(KeyLength(r))
    <3>1. -index[x].date \in Int /\ -Cardinality(index[x].sources) \in Int  BY <2>4
    <3>2. CASE r.sort = "most_sources"
      <4>1. SortKey(r, x) = <<-Cardinality(index[x].sources), -index[x].date, x>>  BY <2>5, <3>2
      <4>2. SortKey(r, x) \in Keys(3)  BY <2>4, <3>1, <4>1, PairsAreKeys
      <4>3. KeyLength(r) = 3  BY <2>3, <3>2 DEF KeyLength
      <4>. QED  BY <4>2, <4>3
    <3>3. CASE r.sort = "relevance"
      <4>1. SortKey(r, x) = <<-ScoreOf[x], -index[x].date, x>>  BY <2>5, <3>3
      <4>2. -ScoreOf[x] \in Int  BY <2>4, ReadingTables
      <4>3. SortKey(r, x) \in Keys(3)  BY <2>4, <3>1, <4>1, <4>2, PairsAreKeys
      <4>4. KeyLength(r) = 3  BY <2>3, <3>3 DEF KeyLength
      <4>. QED  BY <4>3, <4>4
    <3>4. CASE r.sort \in {"newest", "oldest"}
      <4>1. SortKey(r, x) = IF r.sort = "newest" THEN <<-index[x].date, x>> ELSE <<index[x].date, x>>
        BY <2>5, <3>4
      <4>2. SortKey(r, x) \in Keys(2)  BY <2>4, <3>1, <4>1, PairsAreKeys
      <4>. QED  BY <2>3, <3>4, <4>2 DEF KeyLength
    <3>. QED  BY <2>3, <3>2, <3>3, <3>4
  <2>7. \A x, y \in Behind(r) : SortKey(r, x) = SortKey(r, y) => x = y  BY <2>5
  <2>8. Behind(r) \subseteq ArticleIds  BY <2>4
  <2>. QED  BY <2>6, <2>7, <2>8, ArticlesAreFinite DEF Rows
<1>2. CASE r.view = "edge"
  <2>1. Behind(r) = Evidence(r, documents) /\ \A x : SortKey(r, x) = <<-documents[x].date, x>>
    BY <1>2 DEF Behind, SortKey, FromSnapshot, Searches, SearchKey
  <2>2. Behind(r) \subseteq Hits(documents, BuildQuery(r.c))  BY <2>1, FocusesAreHits DEF Evidence
  <2>3. \A x \in Behind(r) : x \in ArticleIds /\ x \in Int /\ documents[x].date \in Int
    BY <2>2, HitsAreTyped DEF ArchiveIsRead
  <2>4. \A x \in Behind(r) : SortKey(r, x) \in Keys(2)  BY <2>1, <2>3, PairsAreKeys
  <2>5. KeyLength(r) = 2  BY <1>2 DEF KeyLength, Searches
  <2>6. Behind(r) \subseteq ArticleIds  BY <2>3
  <2>. QED  BY <2>1, <2>4, <2>5, <2>6, ArticlesAreFinite DEF Rows
<1>3. CASE r.view = "watch"
  <2>1. Behind(r) = FinishedWithin(r) /\ \A x : SortKey(r, x) = <<-documents[x].found, -x>>
    BY <1>3 DEF Behind, SortKey, FromSnapshot, Searches
  <2>2. Behind(r) \subseteq Hits(documents, BuildQuery(r.c))  BY <2>1 DEF FinishedWithin
  <2>3. \A x \in Behind(r) : x \in ArticleIds /\ x \in Int /\ documents[x].found \in Int
    BY <2>2, HitsAreTyped DEF ArchiveIsRead
  <2>4. \A x \in Behind(r) : SortKey(r, x) \in Keys(2)  BY <2>1, <2>3, PairsAreKeys
  <2>5. KeyLength(r) = 2  BY <1>3 DEF KeyLength, Searches
  <2>6. Behind(r) \subseteq ArticleIds  BY <2>3
  <2>7. \A x, y \in Behind(r) : SortKey(r, x) = SortKey(r, y) => x = y  BY <2>1, <2>3
  <2>. QED  BY <2>4, <2>5, <2>6, <2>7, ArticlesAreFinite DEF Rows
<1>4. CASE r.view = "events"
  <2>1. Behind(r) = ListedEvents(r) /\ \A x : SortKey(r, x) = EventKey(x, r.sort)
    BY <1>4 DEF Behind, SortKey, FromSnapshot, Searches
  <2>2. ASSUME NEW x \in Behind(r)
        PROVE  x \in Events /\ x \in Int /\ catalogue.summary[x].count \in Int /\ catalogue.summary[x].ended \in Int
    <3>1. x \in Events /\ catalogue.summary[x] # None  BY <2>1, <2>2 DEF ListedEvents
    <3>2. catalogue.summary[x] \in Summaries  BY <3>1 DEF ArchiveIsRead, Catalogues
    <3>. QED  BY <3>1, <3>2 DEF Summaries, Events
  <2>3. \A x \in Behind(r) :
          SortKey(r, x) = IF r.sort = "biggest"
                          THEN <<-catalogue.summary[x].count, -catalogue.summary[x].ended, -x>>
                          ELSE <<-catalogue.summary[x].ended, -x>>
    BY <2>1 DEF EventKey
  <2>4. ASSUME NEW x \in Behind(r)
        PROVE  SortKey(r, x) \in Keys(IF r.sort = "biggest" THEN 3 ELSE 2)
    <3>1. -catalogue.summary[x].count \in Int /\ -catalogue.summary[x].ended \in Int /\ -x \in Int  BY <2>2
    <3>. QED  BY <2>3, <3>1, PairsAreKeys
  <2>5. \A x, y \in Behind(r) : SortKey(r, x) = SortKey(r, y) => x = y  BY <2>2, <2>3
  <2>6. Behind(r) \subseteq Events  BY <2>2
  <2>. QED  BY <1>4, <2>4, <2>5, <2>6, ArticlesAreFinite DEF KeyLength, Searches, Rows
<1>5. CASE r.view \in TablePages
  <2>1. KeyLength(r) = 2  BY <1>5 DEF KeyLength, Searches, TablePages
  <2>2. \A x : SortKey(r, x) = IF r.of = "articles" THEN <<-facts[x].date, -x>> ELSE <<-RecencyOf(x), -x>>
    BY <1>5 DEF SortKey, FromSnapshot, Searches, TablePages
  <2>3. facts \in Files  BY DEF ArchiveIsRead
  <2>4. CASE r.of = "articles"
    <3>1. Behind(r) \subseteq Archived  BY <1>5, <2>3, <2>4, TablesAreListed
    <3>2. \A x \in Behind(r) : x \in ArticleIds /\ x \in Int /\ facts[x].date \in Int
      BY <2>3, <3>1 DEF Archived, Files, Articles, ArticleIds
    <3>3. \A x \in Behind(r) : SortKey(r, x) \in Keys(2)  BY <2>2, <2>4, <3>2, PairsAreKeys
    <3>4. \A x, y \in Behind(r) : SortKey(r, x) = SortKey(r, y) => x = y  BY <2>2, <2>4, <3>2
    <3>5. Behind(r) \subseteq ArticleIds  BY <3>2
    <3>. QED  BY <2>1, <3>3, <3>4, <3>5, ArticlesAreFinite DEF Rows
  <2>5. CASE r.of # "articles"
    <3>1. PICK A \in SUBSET Archived : Behind(r) \subseteq StoriesCarrying(A)  BY <1>5, <2>3, <2>5, TablesAreListed
    <3>2. \A x \in Behind(r) : x \in Stories /\ x \in Int /\ RecencyOf(x) \in Int
      BY <2>3, <3>1, StoriesAreRecent
    <3>3. \A x \in Behind(r) : SortKey(r, x) \in Keys(2)  BY <2>2, <2>5, <3>2, PairsAreKeys
    <3>4. \A x, y \in Behind(r) : SortKey(r, x) = SortKey(r, y) => x = y  BY <2>2, <2>5, <3>2
    <3>5. Behind(r) \subseteq Stories  BY <3>2
    <3>. QED  BY <2>1, <3>3, <3>4, <3>5, ArticlesAreFinite DEF Rows
  <2>. QED  BY <2>4, <2>5
<1>. QED  BY <1>1, <1>2, <1>3, <1>4, <1>5, ReadingRequests DEF FromSnapshot, TablePages

-----------------------------------------------------------------------------
(* Pages: what is shown once a list has been read to its end. *)

\* A page is the first part of what is left after the cursor, and the next cursor is its end.
LEMMA PagesAreNext ==
  ASSUME ArchiveIsRead, NEW r \in Requests, FromSnapshot(r) => reading.snapshot \in Files,
         NEW after, NEW page, page = PageOf(r, after)
  PROVE  /\ page.rows \subseteq Following(r, after)
         /\ page.next = NoCursor => page.rows = Following(r, after)
         /\ page.next # NoCursor =>
              /\ page.next \in Keys(KeyLength(r))
              /\ after # NoCursor => Before(after, page.next)
              /\ \A x \in Following(r, after) : x \in page.rows <=> ~Before(page.next, SortKey(r, x))
<1>1. PICK left : left = Following(r, after)  OBVIOUS
<1>2. left \subseteq Behind(r)  BY <1>1 DEF Following
<1>3. KeyLength(r) \in Nat /\ KeyLength(r) > 0  BY DEF KeyLength
<1>4. /\ \A x \in left : SortKey(r, x) \in Keys(KeyLength(r))
      /\ \A x, y \in left : SortKey(r, x) = SortKey(r, y) => x = y
      /\ IsFiniteSet(left)
  <2>1. /\ IsFiniteSet(Behind(r))
        /\ \A x \in Behind(r) : SortKey(r, x) \in Keys(KeyLength(r))
        /\ \A x, y \in Behind(r) : SortKey(r, x) = SortKey(r, y) => x = y
    BY RowsHaveKeys
  <2>. QED  BY <1>2, <2>1, FS_Subset
<1>5. PICK O : O = {p \in left \X left : Before(SortKey(r, p[1]), SortKey(r, p[2]))}  OBVIOUS
<1>6. \A x, y \in left : <<x, y>> \in O <=> Before(SortKey(r, x), SortKey(r, y))  BY <1>5
<1>7. Orders(O, left)
  <2>1. /\ \A k \in Keys(KeyLength(r)) : ~Before(k, k)
        /\ \A j, k, l \in Keys(KeyLength(r)) : Before(j, k) /\ Before(k, l) => Before(j, l)
        /\ \A k, l \in Keys(KeyLength(r)) : k # l => Before(k, l) \/ Before(l, k)
    BY <1>3, BeforeOrders
  <2>2. \A x \in left : <<x, x>> \notin O  BY <1>4, <1>6, <2>1
  <2>3. \A x, y, z \in left : <<x, y>> \in O /\ <<y, z>> \in O => <<x, z>> \in O  BY <1>4, <1>6, <2>1
  <2>4. \A x, y \in left : x # y => <<x, y>> \in O \/ <<y, x>> \in O  BY <1>4, <1>6, <2>1
  <2>. QED  BY <2>2, <2>3, <2>4 DEF Orders
<1>8. Limit(r) \in Nat /\ Limit(r) > 0 /\ Cardinality(left) \in Nat
  BY <1>4, ReadingSizes, FS_CardinalityType DEF Limit
<1>9. PICK rows \in SUBSET left : rows = page.rows /\ AreFirst(r, rows, left)
  <2>1. page.rows = CHOOSE some \in SUBSET left : AreFirst(r, some, left)  BY <1>1 DEF PageOf
  <2>2. PICK S \in SUBSET left : /\ Cardinality(S) = Min({Limit(r), Cardinality(left)})
                                 /\ \A x \in S, y \in left \ S : <<y, x>> \notin O
    BY <1>4, <1>7, <1>8, FirstPart
  <2>3. AreFirst(r, S, left)  BY <1>6, <2>2 DEF AreFirst
  <2>. QED  BY <2>1, <2>2, <2>3
<1>10. PICK more \in BOOLEAN : more = IF r.view = "watch" THEN Cardinality(rows) = PageSize ELSE rows # left
  OBVIOUS
<1>11. Cardinality(rows) = IF Limit(r) <= Cardinality(left) THEN Limit(r) ELSE Cardinality(left)
  BY <1>8, <1>9, SmallerOfTwo DEF AreFirst
<1>12. IsFiniteSet(rows)  BY <1>4, <1>9, FS_Subset
<1>13. ~more => rows = left
  <2>1. CASE r.view = "watch"
    <3>1. Limit(r) = PageSize  BY <2>1 DEF Limit
    <3>2. ~more => Cardinality(rows) = Cardinality(left)  BY <1>10, <1>11, <2>1, <3>1
    <3>. QED  BY <1>4, <1>9, <3>2, FS_Subset
  <2>. QED  BY <1>10, <2>1
<1>14. more => rows # {}
  <2>1. ASSUME more, rows = {}
        PROVE  FALSE
    <3>1. Cardinality(rows) = 0  BY <2>1, FS_EmptySet
    <3>2. Cardinality(left) = 0  BY <1>8, <1>11, <3>1
    <3>3. left = {}  BY <1>4, <3>2, FS_EmptySet
    <3>. QED  BY <1>10, <2>1, <3>1, <3>3, ReadingSizes
  <2>. QED  BY <2>1
<1>15. CASE more
  <2>1. \E x \in rows : \A y \in rows : ~Before(SortKey(r, x), SortKey(r, y))
    <3>1. PICK x \in rows : \A y \in rows \ {x} : <<y, x>> \in O  BY <1>4, <1>7, <1>9, <1>14, <1>15, LastOfThem
    <3>2. \A y \in rows : <<x, y>> \notin O  BY <1>7, <3>1 DEF Orders
    <3>. QED  BY <1>6, <3>1, <3>2
  <2>2. PICK last \in rows : /\ \A y \in rows : ~Before(SortKey(r, last), SortKey(r, y))
                             /\ page.next = SortKey(r, last)
    <3>1. PICK last : last = CHOOSE x \in rows : \A y \in rows : ~Before(SortKey(r, x), SortKey(r, y))  OBVIOUS
    <3>2. last \in rows /\ \A y \in rows : ~Before(SortKey(r, last), SortKey(r, y))  BY <2>1, <3>1
    <3>3. page.next = IF more THEN SortKey(r, last) ELSE NoCursor
      <4>1. rows = CHOOSE some \in SUBSET left : AreFirst(r, some, left)  BY <1>1, <1>9 DEF PageOf
      <4>. QED  BY <1>1, <1>10, <3>1, <4>1 DEF PageOf
    <3>. QED  BY <1>15, <3>2, <3>3
  <2>3. page.next \in Keys(KeyLength(r))  BY <1>4, <2>2
  <2>4. page.next # NoCursor  BY <1>3, <2>3 DEF Keys, NoCursor
  <2>5. after # NoCursor => Before(after, page.next)  BY <1>1, <2>2 DEF Following
  <2>6. \A x \in left : x \in rows <=> ~Before(page.next, SortKey(r, x))
    <3>1. \A x \in left \ rows : ~Before(SortKey(r, x), SortKey(r, last))  BY <1>9 DEF AreFirst
    <3>2. \A x \in left \ rows : <<last, x>> \in O  BY <1>6, <1>7, <3>1 DEF Orders
    <3>. QED  BY <1>6, <2>2, <3>2
  <2>. QED  BY <1>1, <1>9, <2>3, <2>4, <2>5, <2>6
<1>16. CASE ~more
  <2>1. page.next = NoCursor
    <3>1. rows = CHOOSE some \in SUBSET left : AreFirst(r, some, left)  BY <1>1, <1>9 DEF PageOf
    <3>. QED  BY <1>1, <1>10, <1>16, <3>1 DEF PageOf
  <2>. QED  BY <1>1, <1>9, <1>13, <1>16, <2>1
<1>. QED  BY <1>15, <1>16

\* The pages an id has been on.
OnPages(shown, x) == {p \in DOMAIN shown : x \in shown[p]}

OnOnePage(shown, x) == \E p : OnPages(shown, x) = {p}

\* What has stayed is shown once if the cursor has passed it, and else not yet.
PagesFit(r, after, shown, stayed) ==
  IF after = NoCursor THEN shown = <<>> /\ stayed = {}
  ELSE /\ after \in Keys(KeyLength(r))
       /\ \A row \in stayed :
            /\ row[2] \in Keys(KeyLength(r))
            /\ IF Before(after, row[2]) THEN OnPages(shown, row[1]) = {} ELSE OnOnePage(shown, row[1])

\* The inductive invariant: the reading's fields, and what the pages so far have shown.
ReadingIsFit ==
  /\ reading = [asked |-> reading.asked, state |-> reading.state, prepared |-> reading.prepared,
                count |-> reading.count, begun |-> reading.begun, snapshot |-> reading.snapshot,
                after |-> reading.after, shown |-> reading.shown, stayed |-> reading.stayed]
  /\ reading.asked \in Requests \cup {None}
  /\ reading.state \in {"counting", "listing", "done", "refused"}
  /\ reading.snapshot \in Files \cup {None}
  /\ reading.shown \in Seq(SUBSET Rows)
  /\ reading.state = "counting" => reading.after = NoCursor
  /\ reading.state \in {"counting", "listing"} =>
       PagesFit(reading.asked, reading.after, reading.shown, reading.stayed)
  /\ reading.state = "done" => \A row \in reading.stayed : OnOnePage(reading.shown, row[1])

\* A page more shows its rows once more, and no others.
LEMMA OneMorePage ==
  ASSUME NEW shown \in Seq(SUBSET Rows), NEW rows \in SUBSET Rows, NEW x
  PROVE  /\ Append(shown, rows) \in Seq(SUBSET Rows)
         /\ x \notin rows => OnPages(Append(shown, rows), x) = OnPages(shown, x)
         /\ x \in rows /\ OnPages(shown, x) = {} => OnOnePage(Append(shown, rows), x)
<1>1. PICK more : more = Append(shown, rows)  OBVIOUS
<1>2. /\ more \in Seq(SUBSET Rows) /\ DOMAIN more = 1..Len(shown) + 1 /\ DOMAIN shown = 1..Len(shown)
      /\ Len(shown) \in Nat /\ more[Len(shown) + 1] = rows /\ \A p \in 1..Len(shown) : more[p] = shown[p]
  BY <1>1
<1>3. x \notin rows => OnPages(more, x) = OnPages(shown, x)  BY <1>2 DEF OnPages
<1>4. x \in rows /\ OnPages(shown, x) = {} => OnPages(more, x) = {Len(shown) + 1}  BY <1>2 DEF OnPages
<1>. QED  BY <1>1, <1>2, <1>3, <1>4 DEF OnOnePage

LEMMA FitReading ==
  ASSUME NEW asked \in Requests \cup {None}, NEW state \in {"counting", "listing", "refused"},
         NEW prepared, NEW count, NEW begun, NEW snapshot \in Files \cup {None},
         NEW after, NEW shown \in Seq(SUBSET Rows), NEW stayed,
         state = "counting" => after = NoCursor, PagesFit(asked, after, shown, stayed),
         reading' = [asked |-> asked, state |-> state, prepared |-> prepared, count |-> count, begun |-> begun,
                     snapshot |-> snapshot, after |-> after, shown |-> shown, stayed |-> stayed]
  PROVE  ReadingIsFit'
BY DEF ReadingIsFit

LEMMA NoPagesFit ==
  ASSUME NEW asked
  PROVE  <<>> \in Seq(SUBSET Rows) /\ PagesFit(asked, NoCursor, <<>>, {})
BY DEF PagesFit

\* Each page takes the cursor further: what it passes is on this page, what it has passed is not.
LEMMA ReadPageIsFit ==
  ASSUME ArchiveIsRead, ReadingIsFit, NEW r \in Requests, ReadPage(r)
  PROVE  ReadingIsFit'
<1>1. /\ reading.asked = r /\ reading.state = "listing" /\ reading.shown \in Seq(SUBSET Rows)
      /\ PagesFit(r, reading.after, reading.shown, reading.stayed)
  BY DEF ReadPage, ReadingIsFit
<1>2. FromSnapshot(r) => reading.snapshot \in Files  BY DEF ReadPage, ReadingIsFit
<1>3. PICK after, shown, stayed : after = reading.after /\ shown = reading.shown /\ stayed = reading.stayed
  OBVIOUS
<1>4. PICK page : page = PageOf(r, after)  OBVIOUS
<1>5. PICK current : current = {<<x, SortKey(r, x)>> : x \in Behind(r)}  OBVIOUS
<1>6. PICK next, rows : next = page.next /\ rows = page.rows  OBVIOUS
<1>7. PICK more, staying : /\ more = Append(shown, rows)
                           /\ staying = IF after = NoCursor THEN current ELSE stayed \intersect current
  OBVIOUS
<1>8. /\ rows \subseteq Following(r, after)
      /\ next = NoCursor => rows = Following(r, after)
      /\ next # NoCursor => /\ next \in Keys(KeyLength(r))
                            /\ after # NoCursor => Before(after, next)
                            /\ \A x \in Following(r, after) : x \in rows <=> ~Before(next, SortKey(r, x))
  BY <1>2, <1>4, <1>6, PagesAreNext
<1>9. /\ Behind(r) \subseteq Rows
      /\ \A x \in Behind(r) : SortKey(r, x) \in Keys(KeyLength(r))
  BY <1>2, RowsHaveKeys
<1>10. rows \in SUBSET Rows  BY <1>8, <1>9 DEF Following
<1>11. more \in Seq(SUBSET Rows)  BY <1>1, <1>3, <1>7, <1>10, OneMorePage
<1>12. /\ after = NoCursor => shown = <<>>
       /\ after # NoCursor =>
            /\ after \in Keys(KeyLength(r))
            /\ \A row \in stayed :
                 IF Before(after, row[2]) THEN OnPages(shown, row[1]) = {} ELSE OnOnePage(shown, row[1])
  BY <1>1, <1>3 DEF PagesFit
<1>13. shown \in Seq(SUBSET Rows) /\ more = Append(shown, rows)  BY <1>1, <1>3, <1>7
<1>14. ASSUME NEW row \in staying
       PROVE  /\ row[2] \in Keys(KeyLength(r))
              /\ IF next # NoCursor /\ Before(next, row[2]) THEN OnPages(more, row[1]) = {} ELSE OnOnePage(more, row[1])
  <2>1. PICK x \in Behind(r) : row = <<x, SortKey(r, x)>>  BY <1>5, <1>7
  <2>2. PICK k \in Keys(KeyLength(r)) : k = SortKey(r, x)  BY <1>9
  <2>3. row[1] = x /\ row[2] = k  BY <2>1, <2>2
  <2>4. /\ x \notin rows => OnPages(more, x) = OnPages(shown, x)
        /\ x \in rows /\ OnPages(shown, x) = {} => OnOnePage(more, x)
    BY ONLY <1>10, <1>13, OneMorePage
  <2>5. CASE after = NoCursor \/ Before(after, k)
    <3>1. x \in Following(r, after)  BY <2>2, <2>5 DEF Following
    <3>2. OnPages(shown, x) = {}
      <4>1. after # NoCursor => row \in stayed  BY <1>7
      <4>2. after = NoCursor => OnPages(shown, x) = {}  BY <1>12 DEF OnPages
      <4>. QED  BY <1>12, <2>3, <2>5, <4>1, <4>2
    <3>3. x \in rows => OnOnePage(more, x)  BY <2>4, <3>2
    <3>4. x \notin rows => OnPages(more, x) = {}  BY <2>4, <3>2
    <3>5. x \in rows <=> ~(next # NoCursor /\ Before(next, k))  BY <1>8, <2>2, <3>1
    <3>. QED  BY <2>3, <3>3, <3>4, <3>5
  <2>6. CASE after # NoCursor /\ ~Before(after, k)
    <3>1. x \notin rows  BY <1>8, <2>2, <2>6 DEF Following
    <3>2. OnOnePage(shown, x)  BY <1>7, <1>12, <2>3, <2>6
    <3>3. OnPages(more, x) = OnPages(shown, x)  BY <2>4, <3>1
    <3>4. OnOnePage(more, x)  BY <3>2, <3>3 DEF OnOnePage
    <3>5. ~(next # NoCursor /\ Before(next, k))
      <4>1. KeyLength(r) \in Nat  BY DEF KeyLength
      <4>2. \A j, l, m \in Keys(KeyLength(r)) : Before(j, l) /\ Before(l, m) => Before(j, m)
        BY <4>1, BeforeOrders
      <4>. QED  BY <1>8, <1>12, <2>6, <4>2
    <3>. QED  BY <2>3, <3>4, <3>5
  <2>. QED  BY <2>5, <2>6
<1>15. PICK read : read = [reading EXCEPT !.shown = more, !.stayed = staying]  OBVIOUS
<1>16. \/ reading' = [reading EXCEPT !.state = "refused"]
       \/ next = NoCursor /\ reading' = [read EXCEPT !.state = "done", !.snapshot = None]
       \/ next # NoCursor /\ reading' = [read EXCEPT !.after = next]
  <2>1. read = [reading EXCEPT !.shown = Append(@, rows),
                  !.stayed = IF reading.after = NoCursor THEN current ELSE @ \intersect current]
    BY <1>3, <1>7, <1>15
  <2>. QED  BY <1>3, <1>4, <1>5, <1>6, <2>1 DEF ReadPage, Shows
<1>17. PICK asked, state, prepared, count, begun, snapshot :
         /\ reading = [asked |-> asked, state |-> state, prepared |-> prepared, count |-> count,
                       begun |-> begun, snapshot |-> snapshot, after |-> after, shown |-> shown, stayed |-> stayed]
         /\ asked = r /\ state = "listing" /\ snapshot \in Files \cup {None}
  BY <1>1, <1>3 DEF ReadingIsFit
<1>18. CASE reading' = [reading EXCEPT !.state = "refused"]
  <2>1. reading' = [asked |-> asked, state |-> "refused", prepared |-> prepared, count |-> count,
                    begun |-> begun, snapshot |-> snapshot, after |-> after, shown |-> shown, stayed |-> stayed]
    BY <1>17, <1>18
  <2>. QED  BY <1>1, <1>3, <1>17, <2>1 DEF ReadingIsFit
<1>19. CASE next = NoCursor /\ reading' = [read EXCEPT !.state = "done", !.snapshot = None]
  <2>1. reading' = [asked |-> asked, state |-> "done", prepared |-> prepared, count |-> count,
                    begun |-> begun, snapshot |-> None, after |-> after, shown |-> more, stayed |-> staying]
    BY <1>15, <1>17, <1>19
  <2>2. \A row \in staying : OnOnePage(more, row[1])  BY <1>14, <1>19
  <2>. QED  BY <1>11, <1>17, <2>1, <2>2 DEF ReadingIsFit
<1>20. CASE next # NoCursor /\ reading' = [read EXCEPT !.after = next]
  <2>1. reading' = [asked |-> asked, state |-> "listing", prepared |-> prepared, count |-> count,
                    begun |-> begun, snapshot |-> snapshot, after |-> next, shown |-> more, stayed |-> staying]
    BY <1>15, <1>17, <1>20
  <2>2. PagesFit(r, next, more, staying)  BY <1>8, <1>14, <1>20 DEF PagesFit
  <2>. QED  BY <1>11, <1>17, <2>1, <2>2 DEF ReadingIsFit
<1>. QED  BY <1>16, <1>18, <1>19, <1>20

\* While a number is being found no page has been read.
LEMMA CountingIsFit ==
  ASSUME ReadingIsFit, NEW r \in Requests, FindExtent(r) \/ FindNodes(r) \/ ShowNumber(r)
  PROVE  ReadingIsFit'
<1>1. reading.asked = r /\ reading.state = "counting"  BY DEF FindExtent, FindNodes, ShowNumber, Counting
<1>2. PICK prepared, count, begun, snapshot, shown, stayed :
         /\ reading = [asked |-> r, state |-> "counting", prepared |-> prepared, count |-> count,
                       begun |-> begun, snapshot |-> snapshot, after |-> NoCursor, shown |-> shown, stayed |-> stayed]
         /\ snapshot \in Files \cup {None} /\ shown \in Seq(SUBSET Rows) /\ PagesFit(r, NoCursor, shown, stayed)
  BY <1>1 DEF ReadingIsFit
<1>3. \/ \E n : reading' = [reading EXCEPT !.state = "listing", !.count = n]
      \/ reading' = [reading EXCEPT !.state = "refused"]
      \/ \E p : reading' = [reading EXCEPT !.prepared = p]
  BY DEF FindExtent, FindNodes, ShowNumber, Shows
<1>4. \E p, n, s : /\ s \in {"listing", "refused", "counting"}
                   /\ reading' = [asked |-> r, state |-> s, prepared |-> p, count |-> n, begun |-> begun,
                                  snapshot |-> snapshot, after |-> NoCursor, shown |-> shown, stayed |-> stayed]
  <2>1. CASE \E n : reading' = [reading EXCEPT !.state = "listing", !.count = n]
    <3>1. PICK n : reading' = [reading EXCEPT !.state = "listing", !.count = n]  BY <2>1
    <3>. QED  BY <1>2, <3>1
  <2>2. CASE reading' = [reading EXCEPT !.state = "refused"]  BY <1>2, <2>2
  <2>3. CASE \E p : reading' = [reading EXCEPT !.prepared = p]
    <3>1. PICK p : reading' = [reading EXCEPT !.prepared = p]  BY <2>3
    <3>. QED  BY <1>2, <3>1
  <2>. QED  BY <1>3, <2>1, <2>2, <2>3
<1>. QED  BY <1>2, <1>4 DEF ReadingIsFit

LEMMA ReadsAreFit ==
  ASSUME ArchiveIsRead, ReadingIsFit, Reads
  PROVE  ArchiveIsRead' /\ ReadingIsFit'
<1>1. PICK r \in Requests : \/ Visit(r)
                            \/ FindExtent(r) \/ FindNodes(r) \/ ShowNumber(r)
                            \/ OpenSnapshot(r) \/ ReadPage(r) \/ SnapshotGone(r)
  BY DEF Reads
<1>2. UNCHANGED <<facts, documents, catalogue, happened>>
  BY <1>1 DEF Visit, FindExtent, FindNodes, ShowNumber, OpenSnapshot, ReadPage, SnapshotGone, Shows
<1>3. ArchiveIsRead'  BY <1>2 DEF ArchiveIsRead
<1>4. CASE Visit(r)
  <2>1. PICK state \in {"counting", "listing"} :
          reading' = [asked |-> r, state |-> state, prepared |-> None, count |-> None, begun |-> happened,
                      snapshot |-> None, after |-> NoCursor, shown |-> <<>>, stayed |-> {}]
    BY <1>4 DEF Visit
  <2>2. ReadingIsFit'  BY <2>1, NoPagesFit, FitReading
  <2>. QED  BY <1>3, <2>2
<1>5. CASE FindExtent(r) \/ FindNodes(r) \/ ShowNumber(r)  BY <1>3, <1>5, CountingIsFit
<1>6. CASE OpenSnapshot(r)
  <2>1. documents \in Files  BY DEF ArchiveIsRead
  <2>2. reading' = [reading EXCEPT !.snapshot = documents] /\ reading.state = "listing"
    BY <1>6 DEF OpenSnapshot, Shows
  <2>3. PICK asked, prepared, count, begun, snapshot, after, shown, stayed :
          reading = [asked |-> asked, state |-> "listing", prepared |-> prepared, count |-> count, begun |-> begun,
                     snapshot |-> snapshot, after |-> after, shown |-> shown, stayed |-> stayed]
    BY <2>2 DEF ReadingIsFit
  <2>4. reading' = [asked |-> asked, state |-> "listing", prepared |-> prepared, count |-> count, begun |-> begun,
                    snapshot |-> documents, after |-> after, shown |-> shown, stayed |-> stayed]
    BY <2>2, <2>3
  <2>5. asked \in Requests \cup {None} /\ shown \in Seq(SUBSET Rows) /\ PagesFit(asked, after, shown, stayed)
    BY <2>3 DEF ReadingIsFit
  <2>6. ReadingIsFit'  BY <2>1, <2>4, <2>5, FitReading
  <2>. QED  BY <1>3, <2>6
<1>7. CASE ReadPage(r)  BY <1>3, <1>7, ReadPageIsFit
<1>8. CASE SnapshotGone(r)
  <2>1. reading' = [reading EXCEPT !.snapshot = None, !.after = NoCursor, !.shown = <<>>, !.stayed = {}]
    BY <1>8 DEF SnapshotGone, Shows
  <2>2. PICK asked, prepared, count, begun, snapshot, after, shown, stayed :
          reading = [asked |-> asked, state |-> "listing", prepared |-> prepared, count |-> count, begun |-> begun,
                     snapshot |-> snapshot, after |-> after, shown |-> shown, stayed |-> stayed]
    BY <1>8 DEF SnapshotGone, ReadingIsFit
  <2>3. asked \in Requests \cup {None}  BY <2>2 DEF ReadingIsFit
  <2>4. reading' = [asked |-> asked, state |-> "listing", prepared |-> prepared, count |-> count, begun |-> begun,
                    snapshot |-> None, after |-> NoCursor, shown |-> <<>>, stayed |-> {}]
    BY <2>1, <2>2
  <2>5. ReadingIsFit'  BY <2>3, <2>4, NoPagesFit, FitReading
  <2>. QED  BY <1>3, <2>5
<1>. QED  BY <1>1, <1>3, <1>4, <1>5, <1>6, <1>7, <1>8

LEMMA GoingOnLeavesTheReading ==
  ASSUME ArchiveGoesOn
  PROVE  /\ UNCHANGED reading /\ happened' = happened + 1
BY DEF ArchiveGoesOn, Discover, Carry, Regroup, MoveNames, FinishArticle, NewFacts, Deliver, RefreshEvent,
       TieStory, TagSource, MergeNames, NewCatalogue, Happens

LEMMA ReadingIsAlwaysFit == ReadingSpec => [](ArchiveIsRead /\ ReadingIsFit)
<1>1. ASSUME ReadingInit
      PROVE  ArchiveIsRead /\ ReadingIsFit
  <2>1. <<>> \in Seq(SUBSET Rows)  OBVIOUS
  <2>2. ReadingIsFit  BY <1>1, <2>1 DEF ReadingInit, NoReading, ReadingIsFit, PagesFit
  <2>. QED  BY <1>1, <2>2, ArchiveReadInit
<1>2. ASSUME ArchiveIsRead, ReadingIsFit, [ReadingNext]_readingVars
      PROVE  ArchiveIsRead' /\ ReadingIsFit'
  <2>1. CASE Reads  BY <1>2, <2>1, ReadsAreFit
  <2>2. CASE ArchiveGoesOn
    <3>1. UNCHANGED reading  BY <2>2, GoingOnLeavesTheReading
    <3>2. ReadingIsFit'  BY <1>2, <3>1 DEF ReadingIsFit, PagesFit
    <3>. QED  BY <1>2, <2>2, <3>2, ArchiveGoesOnIsRead
  <2>3. CASE UNCHANGED readingVars  BY <1>2, <2>3 DEF readingVars, ArchiveIsRead, ReadingIsFit, PagesFit
  <2>. QED  BY <1>2, <2>1, <2>2, <2>3 DEF ReadingNext
<1>. QED  BY <1>1, <1>2, PTL DEF ReadingSpec

\* Whatever is read and whatever happens meanwhile, the reading and what it reads from have their types.
THEOREM ReadingTypeOKHolds == ReadingSpec => []ReadingTypeOK
<1>1. ASSUME ArchiveIsRead, ReadingIsFit
      PROVE  ReadingTypeOK
  BY <1>1 DEF ArchiveIsRead, ReadingIsFit, ReadingTypeOK, Files, Catalogues, RootMaps
<1>. QED  BY <1>1, ReadingIsAlwaysFit, PTL

\* Whatever the archive holds, however large a page is and whatever happens between two pages, a list
\* read to its end has shown exactly once each row that stayed at its place.
THEOREM PagesCoverWhatStayedHolds == ReadingSpec => []PagesCoverWhatStayed
<1>1. ASSUME ReadingIsFit
      PROVE  PagesCoverWhatStayed
  <2>1. SUFFICES ASSUME reading.state = "done", NEW row \in reading.stayed
                 PROVE  Cardinality({p \in DOMAIN reading.shown : row[1] \in reading.shown[p]}) = 1
    BY DEF PagesCoverWhatStayed
  <2>2. PICK p : OnPages(reading.shown, row[1]) = {p}  BY <1>1, <2>1 DEF ReadingIsFit, OnOnePage
  <2>. QED  BY <2>2, FS_Singleton DEF OnPages
<1>. QED  BY <1>1, ReadingIsAlwaysFit, PTL

-----------------------------------------------------------------------------
(* Numbers: the list behind one, as long as nothing changes. *)

\* The list as it is now, when the index is what a snapshot would be.
LiveBehind(r) == IF FromSnapshot(r) THEN Hits(documents, BuildQuery(SearchedFor(r))) ELSE Behind(r)

LiveKey(r, x) == IF FromSnapshot(r) THEN SearchKey(documents[x], x, r.sort) ELSE SortKey(r, x)

LEMMA QueryStays ==
  ASSUME UNCHANGED <<facts, documents, catalogue>>, NEW c
  PROVE  BuildQuery(c)' = BuildQuery(c)
<1>1. \A names : MatchIds(names)' = MatchIds(names)  BY DEF MatchIds, RootOfName
<1>2. PICK names : names = MatchIds(c.names)  OBVIOUS
<1>3. names = MatchIds(c.names)'  BY <1>1, <1>2
<1>4. PICK tagged : tagged = IF c.tagged THEN catalogue.tagged ELSE Sources  OBVIOUS
<1>5. PICK stories : stories = IF c.event = None THEN Stories \union {None}
                               ELSE {s \in Stories : catalogue.event[s] = c.event}
  OBVIOUS
<1>6. BuildQuery(c) = [c EXCEPT !.names = names, !.tagged = tagged, !.event = stories]
  BY <1>2, <1>4, <1>5 DEF BuildQuery
<1>7. BuildQuery(c)' = [c EXCEPT !.names = names, !.tagged = tagged, !.event = stories]
  <2>1. catalogue' = catalogue  OBVIOUS
  <2>. QED  BY <1>3, <1>4, <1>5, <2>1 DEF BuildQuery
<1>. QED  BY <1>6, <1>7

LEMMA HitsStay ==
  ASSUME UNCHANGED <<facts, documents, catalogue>>, NEW c
  PROVE  Hits(documents, BuildQuery(c))' = Hits(documents, BuildQuery(c))
BY QueryStays

LEMMA ArchivedStays ==
  ASSUME UNCHANGED <<facts, documents, catalogue>>
  PROVE  Archived' = Archived
BY DEF Archived

LEMMA FocusStays ==
  ASSUME UNCHANGED <<facts, documents, catalogue>>, NEW r
  PROVE  FocusQuery(r, documents)' = FocusQuery(r, documents)
<1>1. \A names : MatchIds(names)' = MatchIds(names)  BY DEF MatchIds, RootOfName
<1>2. RootOfName(r.focus)' = RootOfName(r.focus)  BY DEF RootOfName
<1>. QED  BY <1>1, <1>2, QueryStays DEF FocusQuery

LEMMA TablesStay ==
  ASSUME UNCHANGED <<facts, documents, catalogue>>
  PROVE  /\ \A A : StoriesCarrying(A)' = StoriesCarrying(A)
         /\ \A r, A : ShownAs(r, A)' = ShownAs(r, A)
         /\ \A r, ref : SideOf(r, ByRoot(r, ref))' = SideOf(r, ByRoot(r, ref))
         /\ \A e : ArticlesOfEvent(e)' = ArticlesOfEvent(e)
         /\ \A s : ArticlesOfSource(s)' = ArticlesOfSource(s)
         /\ \A n : ArticlesNaming(RootOfName(n))' = ArticlesNaming(RootOfName(n))
         /\ \A s : RecencyOf(s)' = RecencyOf(s)
<1>1. Archived' = Archived  BY ArchivedStays
<1>2. facts' = facts /\ catalogue' = catalogue  OBVIOUS
<1>3. \A A : StoriesCarrying(A)' = StoriesCarrying(A)  BY <1>2 DEF StoriesCarrying
<1>4. \A r, A : ShownAs(r, A)' = ShownAs(r, A)  BY <1>3 DEF ShownAs
<1>5. ASSUME NEW r, NEW ref
      PROVE  SideOf(r, ByRoot(r, ref))' = SideOf(r, ByRoot(r, ref))
  <2>1. ByRoot(r, ref)' = ByRoot(r, ref)  BY <1>2 DEF ByRoot, RootOfName
  <2>2. \A b : SubjectArticles(r.kind, b)' = SubjectArticles(r.kind, b)  BY <1>1, <1>2 DEF SubjectArticles
  <2>3. \A b : SideOf(r, b)' = SideOf(r, b)  BY <1>3, <2>2 DEF SideOf
  <2>. QED  BY <2>1, <2>3
<1>6. \A e : ArticlesOfEvent(e)' = ArticlesOfEvent(e)  BY <1>1, <1>2 DEF ArticlesOfEvent, ArticlesIn
<1>7. \A s : ArticlesOfSource(s)' = ArticlesOfSource(s)  BY <1>1, <1>2 DEF ArticlesOfSource
<1>8. \A n : ArticlesNaming(RootOfName(n))' = ArticlesNaming(RootOfName(n))
  BY <1>1, <1>2 DEF ArticlesNaming, RootOfName
<1>9. ASSUME NEW s
      PROVE  RecencyOf(s)' = RecencyOf(s)
  <2>1. PICK B : B = {b \in Archived : facts[b].story = s}  OBVIOUS
  <2>2. B = {b \in Archived' : facts'[b].story = s}  BY <1>1, <1>2, <2>1
  <2>3. PICK D : D = {facts[a].date : a \in B}  OBVIOUS
  <2>4. D = {facts'[a].date : a \in B}  BY <1>2, <2>3
  <2>5. RecencyOf(s) = Max(D)  BY <2>1, <2>3 DEF RecencyOf
  <2>6. RecencyOf(s)' = Max(D)  BY <2>2, <2>4 DEF RecencyOf
  <2>. QED  BY <2>5, <2>6
<1>. QED  BY <1>3, <1>4, <1>5, <1>6, <1>7, <1>8, <1>9

LEMMA BehindStays ==
  ASSUME UNCHANGED <<facts, documents, catalogue>>, NEW r \in Requests
  PROVE  LiveBehind(r)' = LiveBehind(r)
<1>1. CASE FromSnapshot(r)
  <2>1. LiveBehind(r) = Hits(documents, BuildQuery(SearchedFor(r)))  BY <1>1 DEF LiveBehind
  <2>2. LiveBehind(r)' = Hits(documents, BuildQuery(SearchedFor(r)))'  BY <1>1 DEF LiveBehind
  <2>. QED  BY <2>1, <2>2, HitsStay
<1>2. CASE ~FromSnapshot(r)
  <2>1. LiveBehind(r) = Behind(r) /\ LiveBehind(r)' = Behind(r)'  BY <1>2 DEF LiveBehind
  <2>2. CASE r.view = "edge"
    <3>1. Behind(r) = Evidence(r, documents) /\ Behind(r)' = Evidence(r, documents)'
      BY <1>2, <2>2 DEF Behind, FromSnapshot, Searches
    <3>2. \A names : MatchIds(names)' = MatchIds(names)  BY DEF MatchIds, RootOfName
    <3>3. FocusQuery(r, documents)' = FocusQuery(r, documents)  BY FocusStays
    <3>4. Evidence(r, documents)' = Evidence(r, documents)  BY <3>2, <3>3 DEF Evidence
    <3>. QED  BY <2>1, <3>1, <3>4
  <2>3. CASE r.view = "watch"
    <3>1. Behind(r) = FinishedWithin(r) /\ Behind(r)' = FinishedWithin(r)'
      BY <1>2, <2>3 DEF Behind, FromSnapshot, Searches
    <3>2. FinishedWithin(r)' = FinishedWithin(r)  BY HitsStay DEF FinishedWithin
    <3>. QED  BY <2>1, <3>1, <3>2
  <2>4. CASE r.view = "compare"
    <3>1. /\ Behind(r) = PartOf(SideOf(r, ByRoot(r, r.a)), SideOf(r, ByRoot(r, r.b)), r.part)
          /\ Behind(r)' = PartOf(SideOf(r, ByRoot(r, r.a))', SideOf(r, ByRoot(r, r.b))', r.part)
      BY <1>2, <2>4 DEF Behind, FromSnapshot, Searches
    <3>. QED  BY <2>1, <3>1, TablesStay
  <2>5. CASE r.view = "event"
    <3>1. /\ Behind(r) = ShownAs(r, ArticlesOfEvent(r.event))
          /\ Behind(r)' = ShownAs(r, ArticlesOfEvent(r.event))'
      BY <1>2, <2>5 DEF Behind, FromSnapshot, Searches
    <3>2. StoriesCarrying(ArticlesOfEvent(r.event))' = StoriesCarrying(ArticlesOfEvent(r.event))
      BY TablesStay DEF StoriesCarrying
    <3>3. ShownAs(r, ArticlesOfEvent(r.event))' = ShownAs(r, ArticlesOfEvent(r.event))
      BY <3>2, TablesStay DEF ShownAs
    <3>. QED  BY <2>1, <3>1, <3>3
  <2>6. CASE r.view = "source"
    <3>1. /\ Behind(r) = ShownAs(r, ArticlesOfSource(r.source))
          /\ Behind(r)' = ShownAs(r, ArticlesOfSource(r.source))'
      BY <1>2, <2>6 DEF Behind, FromSnapshot, Searches
    <3>2. StoriesCarrying(ArticlesOfSource(r.source))' = StoriesCarrying(ArticlesOfSource(r.source))
      BY TablesStay DEF StoriesCarrying
    <3>3. ShownAs(r, ArticlesOfSource(r.source))' = ShownAs(r, ArticlesOfSource(r.source))
      BY <3>2, TablesStay DEF ShownAs
    <3>. QED  BY <2>1, <3>1, <3>3
  <2>7. CASE r.view = "name"
    <3>1. /\ Behind(r) = ShownAs(r, ArticlesNaming(RootOfName(r.name)))
          /\ Behind(r)' = ShownAs(r, ArticlesNaming(RootOfName(r.name)))'
      BY <1>2, <2>7 DEF Behind, FromSnapshot, Searches
    <3>2. StoriesCarrying(ArticlesNaming(RootOfName(r.name)))' = StoriesCarrying(ArticlesNaming(RootOfName(r.name)))
      BY TablesStay DEF StoriesCarrying
    <3>3. ShownAs(r, ArticlesNaming(RootOfName(r.name)))' = ShownAs(r, ArticlesNaming(RootOfName(r.name)))
      BY <3>2, TablesStay DEF ShownAs
    <3>. QED  BY <2>1, <3>1, <3>3
  <2>8. CASE r.view = "events"
    <3>1. Behind(r) = ListedEvents(r) /\ Behind(r)' = ListedEvents(r)'
      BY <1>2, <2>8 DEF Behind, FromSnapshot, Searches
    <3>2. ListedEvents(r)' = ListedEvents(r)  BY DEF ListedEvents
    <3>. QED  BY <2>1, <3>1, <3>2
  <2>. QED  BY <1>2, <2>2, <2>3, <2>4, <2>5, <2>6, <2>7, <2>8, ReadingRequests DEF FromSnapshot
<1>. QED  BY <1>1, <1>2

LEMMA KeysStay ==
  ASSUME UNCHANGED <<facts, documents, catalogue>>, NEW r \in Requests, NEW x
  PROVE  LiveKey(r, x)' = LiveKey(r, x)
<1>1. CASE FromSnapshot(r)  BY <1>1 DEF LiveKey
<1>2. CASE ~FromSnapshot(r)
  <2>1. LiveKey(r, x) = SortKey(r, x) /\ LiveKey(r, x)' = SortKey(r, x)'  BY <1>2 DEF LiveKey
  <2>2. CASE r.view = "edge"
    <3>1. /\ SortKey(r, x) = SearchKey(documents[x], x, "newest")
          /\ SortKey(r, x)' = SearchKey(documents'[x], x, "newest")
      BY <1>2, <2>2 DEF SortKey, FromSnapshot, Searches
    <3>. QED  BY <2>1, <3>1
  <2>3. CASE r.view = "watch"
    <3>1. /\ SortKey(r, x) = <<-documents[x].found, -x>>
          /\ SortKey(r, x)' = <<-documents'[x].found, -x>>
      BY <1>2, <2>3 DEF SortKey, FromSnapshot, Searches
    <3>. QED  BY <2>1, <3>1
  <2>4. CASE r.view = "events"
    <3>1. SortKey(r, x) = EventKey(x, r.sort) /\ SortKey(r, x)' = EventKey(x, r.sort)'
      BY <1>2, <2>4 DEF SortKey, FromSnapshot, Searches
    <3>2. EventKey(x, r.sort)' = EventKey(x, r.sort)  BY DEF EventKey
    <3>. QED  BY <2>1, <3>1, <3>2
  <2>5. CASE r.view \notin {"edge", "watch", "events"}
    <3>1. /\ SortKey(r, x) = IF r.of = "articles" THEN <<-facts[x].date, -x>> ELSE <<-RecencyOf(x), -x>>
          /\ SortKey(r, x)' = IF r.of = "articles" THEN <<-facts'[x].date, -x>> ELSE <<-RecencyOf(x)', -x>>
      BY <1>2, <2>5 DEF SortKey, FromSnapshot, Searches
    <3>. QED  BY <2>1, <3>1, TablesStay
  <2>. QED  BY <2>2, <2>3, <2>4, <2>5
<1>. QED  BY <1>1, <1>2

LEMMA SameSize ==
  ASSUME NEW S, NEW T, IsFiniteSet(T), NEW f \in [S -> T],
         \A x, y \in S : f[x] = f[y] => x = y, \A z \in T : \E x \in S : f[x] = z
  PROVE  IsFiniteSet(S) /\ Cardinality(S) = Cardinality(T)
<1>1. f \in Injection(S, T) /\ f \in Surjection(S, T)  BY DEF Injection, Surjection, IsInjective
<1>. QED  BY <1>1, FS_Injection

\* The bars of a timeline are the matching articles, whatever its interval.
LEMMA TimelineIsTheHits ==
  ASSUME NEW index \in Files, NEW q, NEW interval
  PROVE  TimelineTotal(index, q, interval) = Cardinality(Hits(index, q))
<1>. DEFINE bar == [a \in Hits(index, q) |-> index[a].date \div interval]
            bars == {index[a].date \div interval : a \in Hits(index, q)}
            pairs == UNION {{b} \X InBucket(index, q, interval, b) : b \in bars}
            f == [p \in pairs |-> p[2]]
<1>1. \A p : p \in pairs <=> \E a \in Hits(index, q) : p = <<bar[a], a>>
  <2>1. \A b : \A a : a \in InBucket(index, q, interval, b) <=> a \in Hits(index, q) /\ bar[a] = b  BY DEF InBucket
  <2>2. bars = {bar[a] : a \in Hits(index, q)}  OBVIOUS
  <2>. HIDE DEF bar, bars
  <2>. QED  BY <2>1, <2>2
<1>2. f \in [pairs -> Hits(index, q)]  BY <1>1
<1>3. \A x, y \in pairs : f[x] = f[y] => x = y
  <2>. HIDE DEF bar, pairs
  <2>. QED  BY <1>1
<1>4. \A a \in Hits(index, q) : \E x \in pairs : f[x] = a
  <2>1. ASSUME NEW a \in Hits(index, q)
        PROVE  \E x \in pairs : f[x] = a
    <3>1. <<bar[a], a>> \in pairs  BY <1>1
    <3>. HIDE DEF bar, pairs
    <3>. QED  BY <3>1
  <2>. QED  BY <2>1
<1>5. IsFiniteSet(Hits(index, q))
  <2>1. Hits(index, q) \subseteq ArticleIds  BY DEF Hits
  <2>. QED  BY <2>1, ArticlesAreFinite
<1>6. Cardinality(pairs) = Cardinality(Hits(index, q))
  <2>. HIDE DEF pairs, f
  <2>. QED  BY <1>2, <1>3, <1>4, <1>5, SameSize
<1>. QED  BY <1>6 DEF TimelineTotal

\* The parts of a comparison are what the sizes of the sides and of both together say.
LEMMA OverlapIsThePart ==
  ASSUME NEW A, IsFiniteSet(A), NEW B, IsFiniteSet(B), NEW chosen \in {"a", "both", "b"}
  PROVE  Overlap(A, B, chosen) = Cardinality(PartOf(A, B, chosen))
<1>1. /\ Cardinality(A) \in Nat /\ Cardinality(B) \in Nat /\ Cardinality(A \cap B) \in Nat
      /\ Cardinality(A \cup B) = Cardinality(A) + Cardinality(B) - Cardinality(A \cap B)
  BY FS_Union, FS_Intersection, FS_CardinalityType
<1>2. Cardinality(A \ B) = Cardinality(A) - Cardinality(A \cap B)  BY FS_Difference
<1>3. Cardinality(B \ A) = Cardinality(B) - Cardinality(A \cap B)
  <2>1. B \cap A = A \cap B  OBVIOUS
  <2>. QED  BY <2>1, FS_Difference
<1>. QED  BY <1>1, <1>2, <1>3 DEF Overlap, PartOf

\* A root that no variant is indexed under is asked for as itself.
LEMMA RootsMatchThemselves ==
  ASSUME OnlyRootsIndexed, documents \in Files, NEW a \in ArticleIds, documents[a] # None, NEW n, RootOfName(n) = n
  PROVE  MatchIds({n}) \cap documents[a].names # {} <=> n \in documents[a].names
<1>1. \A m \in documents[a].names : RootOfName(m) = m  BY DEF OnlyRootsIndexed
<1>. QED  BY <1>1 DEF MatchIds

LEMMA EdgeIsItsEvidence ==
  ASSUME ArchiveIsRead, OnlyRootsIndexed, NEW r \in Requests, r.view = "edge", NEW drawn, r.pair \in Edges(r, documents, drawn)
  PROVE  Shared(documents, FocusQuery(r, documents), r.pair) = Cardinality(Evidence(r, documents))
<1>1. PICK found : found = FocusQuery(r, documents)  OBVIOUS
<1>2. found \subseteq Hits(documents, BuildQuery(r.c))  BY <1>1, FocusesAreHits
<1>3. \A a \in found : a \in ArticleIds /\ documents[a] # None  BY <1>2 DEF Hits
<1>4. PICK both : both = {a \in found : r.pair \subseteq documents[a].names}  OBVIOUS
<1>5. Cardinality(both) >= LeastWeight  BY <1>1, <1>4 DEF Edges, Shared
<1>6. both # {}
  <2>1. LeastWeight > 0 /\ LeastWeight \in Nat  BY ReadingSizes
  <2>. QED  BY <1>5, <2>1, FS_EmptySet
<1>7. \A n \in r.pair : RootOfName(n) = n  BY <1>3, <1>4, <1>6 DEF OnlyRootsIndexed
<1>8. documents \in Files  BY DEF ArchiveIsRead
<1>9. ASSUME NEW a \in found
      PROVE  r.pair \subseteq documents[a].names <=> \A n \in r.pair : MatchIds({n}) \cap documents[a].names # {}
  BY <1>3, <1>7, <1>8, RootsMatchThemselves
<1>10. both = Evidence(r, documents)  BY <1>1, <1>4, <1>9 DEF Evidence
<1>. QED  BY <1>1, <1>4, <1>10 DEF Shared

\* What a query asks for, field by field.
LEMMA QueryIs ==
  ASSUME NEW sources, NEW countries, NEW tagged, NEW names, NEW kinds, NEW from, NEW to, NEW stories, NEW event,
         NEW c, c = [sources |-> sources, countries |-> countries, tagged |-> tagged, names |-> names,
                     kinds |-> kinds, from |-> from, to |-> to, stories |-> stories, event |-> event],
         NEW T, T = IF tagged THEN catalogue.tagged ELSE Sources,
         NEW E, E = IF event = None THEN Stories \union {None} ELSE {s \in Stories : catalogue.event[s] = event},
         NEW M, M = MatchIds(names)
  PROVE  BuildQuery(c) = [sources |-> sources, countries |-> countries, tagged |-> T, names |-> M, kinds |-> kinds,
                          from |-> from, to |-> to, stories |-> stories, event |-> E]
<1>1. c.names = names /\ c.tagged = tagged /\ c.event = event  OBVIOUS
<1>2. M = MatchIds(c.names)  BY <1>1
<1>3. T = IF c.tagged THEN catalogue.tagged ELSE Sources  BY <1>1
<1>4. E = IF c.event = None THEN Stories \union {None} ELSE {s \in Stories : catalogue.event[s] = c.event}
  BY <1>1
<1>5. BuildQuery(c) = [c EXCEPT !.names = M, !.tagged = T, !.event = E]
  BY ONLY <1>2, <1>3, <1>4 DEF BuildQuery
<1>. QED  BY ONLY <1>5, c = [sources |-> sources, countries |-> countries, tagged |-> tagged, names |-> names,
                     kinds |-> kinds, from |-> from, to |-> to, stories |-> stories, event |-> event]

LEMMA NarrowedIs ==
  ASSUME NEW c, NEW v
  PROVE  /\ Narrowed(c, "sources", v) = [c EXCEPT !.sources = c.sources \cup {v}]
         /\ Narrowed(c, "countries", v) = [c EXCEPT !.countries = c.countries \cup {v}]
         /\ Narrowed(c, "names", v) = [c EXCEPT !.names = c.names \cup {v}]
         /\ Narrowed(c, "kinds", v) = [c EXCEPT !.kinds = c.kinds \cup {v}]
         /\ Narrowed(c, "stories", v) = [c EXCEPT !.stories = c.stories \cup {v}]
BY DEF Narrowed

LEMMA BucketsAreCarried ==
  ASSUME NEW index, NEW q, NEW group, NEW v \in Buckets(index, q, group)
  PROVE  \E a \in Hits(index, q) : v \in Values(group, index[a])
<1>1. PICK S : S = UNION {Values(group, index[a]) : a \in Hits(index, q)}  OBVIOUS
<1>2. PICK count : count = [w \in S |-> CountOf(index, q, group, w)]  OBVIOUS
<1>3. Buckets(index, q, group) = FirstOf(count, MostBuckets)  BY <1>1, <1>2 DEF Buckets
<1>4. v \in DOMAIN count  BY <1>3 DEF FirstOf
<1>. QED  BY <1>1, <1>2, <1>4

\* An article satisfies the criteria with a value of it added if it satisfies them and has the value.
LEMMA NarrowedIsCarrying ==
  ASSUME ArchiveIsRead, OnlyRootsIndexed, NEW r \in Requests, r.view = "facet", AloneOnItsRecords(r),
         r.value \in Buckets(documents, BuildQuery(r.c), r.group), NEW a \in ArticleIds, documents[a] # None
  PROVE  Satisfies(documents[a], BuildQuery(Narrowed(r.c, r.group, r.value)))
           <=> Satisfies(documents[a], BuildQuery(r.c)) /\ r.value \in Values(r.group, documents[a])
<1>1. PICK d \in Articles : d = documents[a]  BY DEF ArchiveIsRead, Files
<1>2. r.c \in SearchCriteria /\ r.group \in {"sources", "countries", "names", "kinds", "stories"}
  BY ReadingRequests DEF Searches
<1>3. PICK sources, countries, tagged, names, kinds :
         /\ sources = r.c.sources /\ countries = r.c.countries /\ tagged = r.c.tagged
         /\ names = r.c.names /\ kinds = r.c.kinds
  OBVIOUS
<1>4. PICK from, to, stories, event : from = r.c.from /\ to = r.c.to /\ stories = r.c.stories /\ event = r.c.event
  OBVIOUS
<1>5. /\ r.c = [sources |-> sources, countries |-> countries, tagged |-> tagged, names |-> names,
                kinds |-> kinds, from |-> from, to |-> to, stories |-> stories, event |-> event]
      /\ sources \in SUBSET Sources /\ tagged \in BOOLEAN /\ names \in SUBSET EntityIds
  BY <1>2, <1>3, <1>4 DEF SearchCriteria
<1>6. PICK T, E, M : /\ T = IF tagged THEN catalogue.tagged ELSE Sources
                     /\ E = IF event = None THEN Stories \union {None} ELSE {s \in Stories : catalogue.event[s] = event}
                     /\ M = MatchIds(names)
  OBVIOUS
<1>7. PICK q : q = [sources |-> sources, countries |-> countries, tagged |-> T, names |-> M, kinds |-> kinds,
                    from |-> from, to |-> to, stories |-> stories, event |-> E]
  OBVIOUS
<1>8. BuildQuery(r.c) = q  BY <1>5, <1>6, <1>7, QueryIs
<1>9. PICK v : v = r.value  OBVIOUS
<1>10. PICK w \in ArticleIds : documents[w] # None /\ v \in Values(r.group, documents[w])
  BY <1>9, BucketsAreCarried DEF Hits
<1>11. d.sources \subseteq Sources /\ d.names \subseteq EntityIds  BY DEF Articles
<1>12. CASE r.group = "sources"
  <2>1. PICK c, more : c = Narrowed(r.c, r.group, v) /\ more = r.c.sources \cup {v}  OBVIOUS
  <2>2. Narrowed(r.c, "sources", v) = [r.c EXCEPT !.sources = r.c.sources \cup {v}]  BY ONLY NarrowedIs
  <2>3. c = Narrowed(r.c, "sources", v)  BY ONLY <1>12, <2>1
  <2>4. c = [r.c EXCEPT !.sources = more]  BY ONLY <2>1, <2>2, <2>3
  <2>5. c = [sources |-> more, countries |-> countries, tagged |-> tagged,
                                     names |-> names, kinds |-> kinds, from |-> from, to |-> to, stories |-> stories,
                                     event |-> event]
    BY <1>5, <2>4
  <2>6. PICK p : p = [sources |-> more, countries |-> countries, tagged |-> T, names |-> M, kinds |-> kinds,
                      from |-> from, to |-> to, stories |-> stories, event |-> E]
    OBVIOUS
  <2>7. BuildQuery(c) = p  BY ONLY <1>6, <2>5, <2>6, QueryIs
  <2>8. sources = {} /\ countries = {} /\ ~tagged  BY <1>5, <1>12 DEF AloneOnItsRecords
  <2>9. Satisfies(d, p) <=> Satisfies(d, q) /\ v \in d.sources
    BY <2>1, <1>3, <1>4, <1>6, <1>7, <1>11, <2>6, <2>8 DEF Satisfies, SourceMatches, NameMatches
  <2>10. Values(r.group, d) = d.sources  BY <1>12 DEF Values
  <2>. QED  BY <2>1, <1>1, <1>8, <1>9, <2>7, <2>9, <2>10
<1>13. CASE r.group = "countries"
  <2>1. PICK c, more : c = Narrowed(r.c, r.group, v) /\ more = r.c.countries \cup {v}  OBVIOUS
  <2>2. Narrowed(r.c, "countries", v) = [r.c EXCEPT !.countries = r.c.countries \cup {v}]  BY ONLY NarrowedIs
  <2>3. c = Narrowed(r.c, "countries", v)  BY ONLY <1>13, <2>1
  <2>4. c = [r.c EXCEPT !.countries = more]  BY ONLY <2>1, <2>2, <2>3
  <2>5. c = [sources |-> sources, countries |-> more, tagged |-> tagged,
                                     names |-> names, kinds |-> kinds, from |-> from, to |-> to, stories |-> stories,
                                     event |-> event]
    BY <1>5, <2>4
  <2>6. PICK p : p = [sources |-> sources, countries |-> more, tagged |-> T, names |-> M, kinds |-> kinds,
                      from |-> from, to |-> to, stories |-> stories, event |-> E]
    OBVIOUS
  <2>7. BuildQuery(c) = p  BY ONLY <1>6, <2>5, <2>6, QueryIs
  <2>8. sources = {} /\ countries = {} /\ ~tagged  BY <1>5, <1>13 DEF AloneOnItsRecords
  <2>9. Satisfies(d, p) <=> Satisfies(d, q) /\ \E s \in d.sources : CountryOf[s] = v
    BY <2>1, <1>3, <1>4, <1>6, <1>7, <1>11, <2>6, <2>8 DEF Satisfies, SourceMatches, NameMatches
  <2>10. Values(r.group, d) = {CountryOf[s] : s \in d.sources}  BY <1>13 DEF Values
  <2>. QED  BY <2>1, <1>1, <1>8, <1>9, <2>7, <2>9, <2>10
<1>14. CASE r.group = "names"
  <2>1. PICK c, more : c = Narrowed(r.c, r.group, v) /\ more = r.c.names \cup {v}  OBVIOUS
  <2>2. Narrowed(r.c, "names", v) = [r.c EXCEPT !.names = r.c.names \cup {v}]  BY ONLY NarrowedIs
  <2>3. c = Narrowed(r.c, "names", v)  BY ONLY <1>14, <2>1
  <2>4. c = [r.c EXCEPT !.names = more]  BY ONLY <2>1, <2>2, <2>3
  <2>5. c = [sources |-> sources, countries |-> countries, tagged |-> tagged,
                                     names |-> more, kinds |-> kinds, from |-> from, to |-> to,
                                     stories |-> stories, event |-> event]
    BY <1>5, <2>4
  <2>6. names = {} /\ kinds = {}  BY <1>5, <1>14 DEF AloneOnItsRecords
  <2>7. PICK N : N = MatchIds({v})  OBVIOUS
  <2>8. PICK p : p = [sources |-> sources, countries |-> countries, tagged |-> T, names |-> N, kinds |-> kinds,
                      from |-> from, to |-> to, stories |-> stories, event |-> E]
    OBVIOUS
  <2>9. more = {v}  BY <1>3, <2>6, <2>1
  <2>10. BuildQuery(c) = p  BY ONLY <1>6, <2>5, <2>7, <2>8, <2>9, QueryIs
  <2>11. M = {}  BY <1>6, <2>6 DEF MatchIds
  <2>12. N # {}  BY <2>7 DEF MatchIds
  <2>13. Satisfies(d, p) <=> Satisfies(d, q) /\ N \cap d.names # {}
    BY <2>1, <1>3, <1>4, <1>7, <2>6, <2>8, <2>11, <2>12 DEF Satisfies, SourceMatches, NameMatches
  <2>14. v \in documents[w].names  BY <1>10, <1>14 DEF Values
  <2>15. RootOfName(v) = v  BY <1>10, <2>14 DEF OnlyRootsIndexed
  <2>16. N \cap d.names # {} <=> v \in d.names
    BY <1>1, <2>7, <2>15, RootsMatchThemselves DEF ArchiveIsRead
  <2>17. Values(r.group, d) = d.names  BY <1>14 DEF Values
  <2>. QED  BY <2>1, <1>1, <1>8, <1>9, <2>10, <2>13, <2>16, <2>17
<1>15. CASE r.group = "kinds"
  <2>1. PICK c, more : c = Narrowed(r.c, r.group, v) /\ more = r.c.kinds \cup {v}  OBVIOUS
  <2>2. Narrowed(r.c, "kinds", v) = [r.c EXCEPT !.kinds = r.c.kinds \cup {v}]  BY ONLY NarrowedIs
  <2>3. c = Narrowed(r.c, "kinds", v)  BY ONLY <1>15, <2>1
  <2>4. c = [r.c EXCEPT !.kinds = more]  BY ONLY <2>1, <2>2, <2>3
  <2>5. c = [sources |-> sources, countries |-> countries, tagged |-> tagged,
                                     names |-> names, kinds |-> more, from |-> from, to |-> to,
                                     stories |-> stories, event |-> event]
    BY <1>5, <2>4
  <2>6. names = {} /\ kinds = {}  BY <1>5, <1>15 DEF AloneOnItsRecords
  <2>7. PICK p : p = [sources |-> sources, countries |-> countries, tagged |-> T, names |-> M, kinds |-> more,
                      from |-> from, to |-> to, stories |-> stories, event |-> E]
    OBVIOUS
  <2>8. BuildQuery(c) = p  BY ONLY <1>6, <2>5, <2>7, QueryIs
  <2>9. M = {}  BY <1>6, <2>6 DEF MatchIds
  <2>10. Satisfies(d, p) <=> Satisfies(d, q) /\ \E n \in d.names : KindOf[n] = v
    BY <2>1, <1>3, <1>4, <1>7, <2>6, <2>7, <2>9 DEF Satisfies, SourceMatches, NameMatches
  <2>11. Values(r.group, d) = {KindOf[n] : n \in d.names}  BY <1>15 DEF Values
  <2>. QED  BY <2>1, <1>1, <1>8, <1>9, <2>8, <2>10, <2>11
<1>16. CASE r.group = "stories"
  <2>1. PICK c, more : c = Narrowed(r.c, r.group, v) /\ more = r.c.stories \cup {v}  OBVIOUS
  <2>2. Narrowed(r.c, "stories", v) = [r.c EXCEPT !.stories = r.c.stories \cup {v}]  BY ONLY NarrowedIs
  <2>3. c = Narrowed(r.c, "stories", v)  BY ONLY <1>16, <2>1
  <2>4. c = [r.c EXCEPT !.stories = more]  BY ONLY <2>1, <2>2, <2>3
  <2>5. c = [sources |-> sources, countries |-> countries, tagged |-> tagged,
                                     names |-> names, kinds |-> kinds, from |-> from, to |-> to,
                                     stories |-> more, event |-> event]
    BY <1>5, <2>4
  <2>6. stories = {}  BY <1>5, <1>16 DEF AloneOnItsRecords
  <2>7. PICK p : p = [sources |-> sources, countries |-> countries, tagged |-> T, names |-> M, kinds |-> kinds,
                      from |-> from, to |-> to, stories |-> more, event |-> E]
    OBVIOUS
  <2>8. BuildQuery(c) = p  BY ONLY <1>6, <2>5, <2>7, QueryIs
  <2>9. Satisfies(d, p) <=> Satisfies(d, q) /\ v = d.story
    BY <2>1, <1>3, <1>4, <1>7, <2>6, <2>7 DEF Satisfies, SourceMatches, NameMatches
  <2>10. \A e : Values(r.group, e) = {e.story} \ {None}  BY <1>16 DEF Values
  <2>11. v # None  BY <1>10, <2>10
  <2>. QED  BY <2>1, <1>1, <1>8, <1>9, <2>8, <2>9, <2>10, <2>11
<1>. QED  BY <1>2, <1>12, <1>13, <1>14, <1>15, <1>16

LEMMA FacetIsItsList ==
  ASSUME ArchiveIsRead, OnlyRootsIndexed, NEW r \in Requests, r.view = "facet", AloneOnItsRecords(r),
         r.value \in Buckets(documents, BuildQuery(r.c), r.group)
  PROVE  CountOf(documents, BuildQuery(r.c), r.group, r.value)
           = Cardinality(Hits(documents, BuildQuery(SearchedFor(r))))
<1>1. PICK q, p : q = BuildQuery(r.c) /\ p = BuildQuery(Narrowed(r.c, r.group, r.value))  OBVIOUS
<1>2. \A a \in ArticleIds : documents[a] # None =>
        (Satisfies(documents[a], p) <=> Satisfies(documents[a], q) /\ r.value \in Values(r.group, documents[a]))
  BY <1>1, NarrowedIsCarrying
<1>3. {a \in Hits(documents, q) : r.value \in Values(r.group, documents[a])} = Hits(documents, p)
  BY <1>2 DEF Hits
<1>4. SearchedFor(r) = Narrowed(r.c, r.group, r.value)  BY DEF SearchedFor
<1>. QED  BY <1>1, <1>3, <1>4 DEF CountOf

LEMMA SidesAreFinite ==
  ASSUME ArchiveIsRead, NEW r, NEW ref
  PROVE  IsFiniteSet(SideOf(r, ref))
<1>1. PICK A : A = SubjectArticles(r.kind, ref)  OBVIOUS
<1>2. A \subseteq Archived /\ A \subseteq ArticleIds  BY <1>1 DEF SubjectArticles, Archived
<1>3. StoriesCarrying(A) \subseteq Stories  BY <1>2, StoriesAreRecent DEF ArchiveIsRead
<1>. QED  BY <1>1, <1>2, <1>3, ArticlesAreFinite DEF SideOf

\* A number that is shown is that of the list behind it at this moment.
LEMMA NumberIsItsList ==
  ASSUME ArchiveIsRead, OnlyRootsIndexed, NEW r \in Requests, Numbered(r), AloneOnItsRecords(r), IsOffered(r)
  PROVE  Number(r) = Cardinality(LiveBehind(r))
<1>1. documents \in Files  BY DEF ArchiveIsRead
<1>2. CASE r.view = "facet"
  <2>1. r.value \in Buckets(documents, BuildQuery(r.c), r.group)  BY <1>2 DEF IsOffered
  <2>2. Number(r) = CountOf(documents, BuildQuery(r.c), r.group, r.value)  BY <1>2 DEF Number
  <2>3. LiveBehind(r) = Hits(documents, BuildQuery(SearchedFor(r)))  BY <1>2 DEF LiveBehind, FromSnapshot, Searches
  <2>. QED  BY <1>2, <2>1, <2>2, <2>3, FacetIsItsList
<1>3. CASE r.view = "timeline"
  <2>1. Number(r) = TimelineTotal(documents, BuildQuery(r.c), reading.prepared)  BY <1>3 DEF Number
  <2>2. LiveBehind(r) = Hits(documents, BuildQuery(r.c))
    BY <1>3 DEF LiveBehind, FromSnapshot, Searches, SearchedFor
  <2>. QED  BY <1>1, <2>1, <2>2, TimelineIsTheHits
<1>4. CASE r.view = "edge"
  <2>1. r.pair \in Edges(r, documents, reading.prepared)  BY <1>4 DEF IsOffered
  <2>2. Number(r) = Shared(documents, FocusQuery(r, documents), r.pair)  BY <1>4 DEF Number
  <2>3. LiveBehind(r) = Evidence(r, documents)  BY <1>4 DEF LiveBehind, FromSnapshot, Searches, Behind
  <2>. QED  BY <1>4, <2>1, <2>2, <2>3, EdgeIsItsEvidence
<1>5. CASE r.view = "watch"
  BY <1>5 DEF Number, LiveBehind, FromSnapshot, Searches, Behind
<1>6. CASE r.view = "compare"
  <2>1. PICK A, B : A = SideOf(r, ByRoot(r, r.a)) /\ B = SideOf(r, ByRoot(r, r.b))  OBVIOUS
  <2>2. IsFiniteSet(A) /\ IsFiniteSet(B)  BY <2>1, SidesAreFinite
  <2>3. Number(r) = Overlap(A, B, r.part)  BY <1>6, <2>1 DEF Number
  <2>4. LiveBehind(r) = PartOf(A, B, r.part)  BY <1>6, <2>1 DEF LiveBehind, FromSnapshot, Searches, Behind
  <2>5. r.part \in {"a", "both", "b"}  BY <1>6, ReadingRequests
  <2>. QED  BY <2>2, <2>3, <2>4, <2>5, OverlapIsThePart
<1>7. CASE r.view = "event"
  BY <1>7 DEF Number, LiveBehind, FromSnapshot, Searches, Behind
<1>8. CASE r.view = "name"
  BY <1>8 DEF Number, LiveBehind, FromSnapshot, Searches, Behind
<1>. QED  BY <1>2, <1>3, <1>4, <1>5, <1>6, <1>7, <1>8 DEF Numbered

LiveRows(r) == {<<x, LiveKey(r, x)>> : x \in LiveBehind(r)}

\* As long as nothing has changed since the question, the number is that of the list, the snapshot is
\* the index, everything in the list has stayed, and the pages show nothing else.
CountFits(r, state, count, begun, snapshot, after, shown, stayed) ==
  /\ begun \in Nat /\ begun <= happened
  /\ state = "counting" => Numbered(r)
  /\ begun = happened =>
       /\ snapshot \in {None, documents}
       /\ count # None /\ AloneOnItsRecords(r) /\ OnlyRootsIndexed => count = Cardinality(LiveBehind(r))
       /\ state = "done" \/ after # NoCursor => stayed = LiveRows(r)
       /\ \A p \in DOMAIN shown : shown[p] \subseteq LiveBehind(r)

CountIsFit ==
  IF reading.asked = None THEN reading.count = None
  ELSE CountFits(reading.asked, reading.state, reading.count, reading.begun, reading.snapshot, reading.after,
                 reading.shown, reading.stayed)

LEMMA RowsStay ==
  ASSUME UNCHANGED <<facts, documents, catalogue>>, NEW r \in Requests
  PROVE  LiveRows(r)' = LiveRows(r) /\ LiveBehind(r)' = LiveBehind(r)
<1>1. LiveBehind(r)' = LiveBehind(r)  BY BehindStays
<1>2. \A x : LiveKey(r, x)' = LiveKey(r, x)  BY KeysStay
<1>. QED  BY <1>1, <1>2 DEF LiveRows

\* What a step of the reader has to bring about.
LEMMA FitCount ==
  ASSUME UNCHANGED <<facts, documents, catalogue, happened>>, NEW r \in Requests, NEW state, NEW prepared, NEW count,
         NEW begun, NEW snapshot, NEW after, NEW shown, NEW stayed,
         CountFits(r, state, count, begun, snapshot, after, shown, stayed),
         reading' = [asked |-> r, state |-> state, prepared |-> prepared, count |-> count, begun |-> begun,
                     snapshot |-> snapshot, after |-> after, shown |-> shown, stayed |-> stayed]
  PROVE  CountIsFit'
<1>1. LiveRows(r)' = LiveRows(r) /\ LiveBehind(r)' = LiveBehind(r)  BY RowsStay
<1>2. OnlyRootsIndexed' = OnlyRootsIndexed  BY DEF OnlyRootsIndexed, RootOfName
<1>3. documents' = documents /\ happened' = happened  OBVIOUS
<1>4. CountFits(r, state, count, begun, snapshot, after, shown, stayed)'  BY <1>1, <1>2, <1>3 DEF CountFits
<1>. QED  BY <1>4, ReadingRequests DEF CountIsFit

\* The fields of a reading, each by a name.
LEMMA FieldsOfReading ==
  ASSUME ReadingIsFit, CountIsFit, NEW r \in Requests, reading.asked = r
  PROVE  \E state, prepared, count, begun, snapshot, after, shown, stayed :
           /\ reading = [asked |-> r, state |-> state, prepared |-> prepared, count |-> count,
                         begun |-> begun, snapshot |-> snapshot, after |-> after, shown |-> shown, stayed |-> stayed]
           /\ CountFits(r, state, count, begun, snapshot, after, shown, stayed)
<1>1. r # None  BY ReadingRequests
<1>. QED  BY <1>1 DEF ReadingIsFit, CountIsFit

LEMMA CountingFitsCount ==
  ASSUME ArchiveIsRead, ReadingIsFit, CountIsFit, NEW r \in Requests, FindExtent(r) \/ FindNodes(r) \/ ShowNumber(r)
  PROVE  CountIsFit'
<1>1. /\ reading.asked = r /\ reading.state = "counting" /\ UNCHANGED <<facts, documents, catalogue, happened>>
  BY DEF FindExtent, FindNodes, ShowNumber, Counting, Shows
<1>2. PICK state, prepared, count, begun, snapshot, after, shown, stayed :
           /\ reading = [asked |-> r, state |-> state, prepared |-> prepared, count |-> count,
                         begun |-> begun, snapshot |-> snapshot, after |-> after, shown |-> shown, stayed |-> stayed]
           /\ CountFits(r, state, count, begun, snapshot, after, shown, stayed)
  BY <1>1, FieldsOfReading
<1>3. Numbered(r) /\ after = NoCursor  BY <1>1, <1>2 DEF CountFits, ReadingIsFit
<1>4. CASE reading' = [reading EXCEPT !.state = "refused"]
  <2>1. reading' = [asked |-> r, state |-> "refused", prepared |-> prepared, count |-> count,
                    begun |-> begun, snapshot |-> snapshot, after |-> after, shown |-> shown, stayed |-> stayed]
    BY <1>2, <1>4
  <2>2. CountFits(r, "refused", count, begun, snapshot, after, shown, stayed)  BY <1>2, <1>3 DEF CountFits
  <2>. QED  BY <1>1, <2>1, <2>2, FitCount
<1>5. CASE \E p : reading' = [reading EXCEPT !.prepared = p]
  <2>1. PICK p : reading' = [reading EXCEPT !.prepared = p]  BY <1>5
  <2>2. reading' = [asked |-> r, state |-> state, prepared |-> p, count |-> count,
                    begun |-> begun, snapshot |-> snapshot, after |-> after, shown |-> shown, stayed |-> stayed]
    BY <1>2, <2>1
  <2>. QED  BY <1>1, <1>2, <2>2, FitCount
<1>6. CASE \E n : /\ reading' = [reading EXCEPT !.state = "listing", !.count = n]
                  /\ AloneOnItsRecords(r) /\ OnlyRootsIndexed => n = Cardinality(LiveBehind(r))
  <2>1. PICK n : /\ reading' = [reading EXCEPT !.state = "listing", !.count = n]
                 /\ AloneOnItsRecords(r) /\ OnlyRootsIndexed => n = Cardinality(LiveBehind(r))
    BY <1>6
  <2>2. reading' = [asked |-> r, state |-> "listing", prepared |-> prepared, count |-> n,
                    begun |-> begun, snapshot |-> snapshot, after |-> after, shown |-> shown, stayed |-> stayed]
    BY <1>2, <2>1
  <2>3. CountFits(r, "listing", n, begun, snapshot, after, shown, stayed)  BY <1>2, <1>3, <2>1 DEF CountFits
  <2>. QED  BY <1>1, <2>2, <2>3, FitCount
<1>7. CASE FindExtent(r)
  <2>1. r.view = "timeline"  BY <1>7 DEF FindExtent
  <2>2. CASE Hits(documents, BuildQuery(r.c)) = {}
    <3>1. reading' = [reading EXCEPT !.state = "listing", !.count = 0]  BY <1>7, <2>2 DEF FindExtent, Shows
    <3>2. LiveBehind(r) = {}  BY <2>1, <2>2 DEF LiveBehind, FromSnapshot, Searches, SearchedFor
    <3>. QED  BY <1>6, <3>1, <3>2, FS_EmptySet
  <2>3. CASE Hits(documents, BuildQuery(r.c)) # {}
    <3>1. \/ reading' = [reading EXCEPT !.state = "refused"]
          \/ \E p : reading' = [reading EXCEPT !.prepared = p]
      BY <1>7, <2>3 DEF FindExtent, Shows
    <3>. QED  BY <1>4, <1>5, <3>1
  <2>. QED  BY <2>2, <2>3
<1>8. CASE FindNodes(r)
  <2>1. \E p : reading' = [reading EXCEPT !.prepared = p]  BY <1>8 DEF FindNodes, Shows
  <2>. QED  BY <1>5, <2>1
<1>9. CASE ShowNumber(r)
  <2>1. CASE IsOffered(r) /\ ~OneSubject(r)
    <3>1. reading' = [reading EXCEPT !.state = "listing", !.count = Number(r)]  BY <1>9, <2>1 DEF ShowNumber, Shows
    <3>2. AloneOnItsRecords(r) /\ OnlyRootsIndexed => Number(r) = Cardinality(LiveBehind(r))
      BY <1>3, <2>1, NumberIsItsList
    <3>. QED  BY <1>6, <3>1, <3>2
  <2>2. CASE ~(IsOffered(r) /\ ~OneSubject(r))
    <3>1. reading' = [reading EXCEPT !.state = "refused"]  BY <1>9, <2>2 DEF ShowNumber, Shows
    <3>. QED  BY <1>4, <3>1
  <2>. QED  BY <2>1, <2>2
<1>. QED  BY <1>7, <1>8, <1>9

\* When nothing has changed a page is one of the list as it is.
LEMMA PagesOfTheLive ==
  ASSUME NEW r \in Requests, FromSnapshot(r) => reading.snapshot = documents
  PROVE  Behind(r) = LiveBehind(r) /\ {<<x, SortKey(r, x)>> : x \in Behind(r)} = LiveRows(r)
<1>1. Behind(r) = LiveBehind(r)
  <2>1. CASE FromSnapshot(r)  BY <2>1 DEF Behind, LiveBehind, FromSnapshot, Searches
  <2>. QED  BY <2>1 DEF LiveBehind
<1>2. ASSUME NEW x
      PROVE  SortKey(r, x) = LiveKey(r, x)
  <2>1. CASE FromSnapshot(r)  BY <2>1 DEF SortKey, LiveKey, FromSnapshot, Searches
  <2>. QED  BY <2>1 DEF LiveKey
<1>. QED  BY <1>1, <1>2 DEF LiveRows

LEMMA ReadPageFitsCount ==
  ASSUME ArchiveIsRead, ReadingIsFit, CountIsFit, NEW r \in Requests, ReadPage(r)
  PROVE  CountIsFit'
<1>1. /\ reading.asked = r /\ reading.state = "listing" /\ UNCHANGED <<facts, documents, catalogue, happened>>
      /\ FromSnapshot(r) => reading.snapshot # None
  BY DEF ReadPage, Shows
<1>2. PICK state, prepared, count, begun, snapshot, after, shown, stayed :
           /\ reading = [asked |-> r, state |-> state, prepared |-> prepared, count |-> count,
                         begun |-> begun, snapshot |-> snapshot, after |-> after, shown |-> shown, stayed |-> stayed]
           /\ CountFits(r, state, count, begun, snapshot, after, shown, stayed)
  BY <1>1, FieldsOfReading
<1>3. shown \in Seq(SUBSET Rows) /\ state = "listing" /\ snapshot = reading.snapshot /\ after = reading.after
  BY <1>1, <1>2 DEF ReadingIsFit
<1>4. PICK page : page = PageOf(r, after)  OBVIOUS
<1>5. PICK current : current = {<<x, SortKey(r, x)>> : x \in Behind(r)}  OBVIOUS
<1>6. PICK next, rows : next = page.next /\ rows = page.rows  OBVIOUS
<1>7. PICK more, staying : /\ more = Append(shown, rows)
                           /\ staying = IF after = NoCursor THEN current ELSE stayed \intersect current
  OBVIOUS
<1>8. FromSnapshot(r) => reading.snapshot \in Files  BY <1>1 DEF ReadingIsFit
<1>9. rows \subseteq Behind(r)
  <2>1. rows \subseteq Following(r, after)  BY <1>4, <1>6, <1>8, PagesAreNext
  <2>. QED  BY <2>1 DEF Following
<1>10. rows \in SUBSET Rows  BY <1>8, <1>9, RowsHaveKeys
<1>11. begun = happened => /\ staying = LiveRows(r)
                           /\ \A p \in DOMAIN more : more[p] \subseteq LiveBehind(r)
  <2>1. SUFFICES ASSUME begun = happened
                 PROVE  staying = LiveRows(r) /\ \A p \in DOMAIN more : more[p] \subseteq LiveBehind(r)
    OBVIOUS
  <2>2. FromSnapshot(r) => reading.snapshot = documents  BY <1>1, <1>2, <1>3, <2>1 DEF CountFits
  <2>3. Behind(r) = LiveBehind(r) /\ current = LiveRows(r)  BY <1>5, <2>2, PagesOfTheLive
  <2>4. staying = LiveRows(r)  BY <1>2, <1>7, <2>1, <2>3 DEF CountFits
  <2>5. DOMAIN more = 1..Len(shown) + 1 /\ DOMAIN shown = 1..Len(shown) /\ Len(shown) \in Nat
        /\ more[Len(shown) + 1] = rows /\ \A p \in 1..Len(shown) : more[p] = shown[p]
    BY ONLY <1>3, <1>7, <1>10
  <2>. QED  BY <1>2, <1>9, <2>1, <2>3, <2>4, <2>5 DEF CountFits
<1>12. PICK read : read = [reading EXCEPT !.shown = more, !.stayed = staying]  OBVIOUS
<1>13. \/ reading' = [reading EXCEPT !.state = "refused"]
       \/ next = NoCursor /\ reading' = [read EXCEPT !.state = "done", !.snapshot = None]
       \/ next # NoCursor /\ reading' = [read EXCEPT !.after = next]
  <2>1. read = [reading EXCEPT !.shown = Append(@, rows),
                  !.stayed = IF reading.after = NoCursor THEN current ELSE @ \intersect current]
    BY <1>2, <1>7, <1>12
  <2>. QED  BY <1>3, <1>4, <1>5, <1>6, <2>1 DEF ReadPage, Shows
<1>14. CASE reading' = [reading EXCEPT !.state = "refused"]
  <2>1. reading' = [asked |-> r, state |-> "refused", prepared |-> prepared, count |-> count,
                    begun |-> begun, snapshot |-> snapshot, after |-> after, shown |-> shown, stayed |-> stayed]
    BY <1>2, <1>14
  <2>2. CountFits(r, "refused", count, begun, snapshot, after, shown, stayed)  BY <1>2, <1>3 DEF CountFits
  <2>. QED  BY <1>1, <2>1, <2>2, FitCount
<1>15. CASE next = NoCursor /\ reading' = [read EXCEPT !.state = "done", !.snapshot = None]
  <2>1. reading' = [asked |-> r, state |-> "done", prepared |-> prepared, count |-> count,
                    begun |-> begun, snapshot |-> None, after |-> after, shown |-> more, stayed |-> staying]
    BY <1>2, <1>12, <1>15
  <2>2. CountFits(r, "done", count, begun, None, after, more, staying)  BY <1>2, <1>11 DEF CountFits
  <2>. QED  BY <1>1, <2>1, <2>2, FitCount
<1>16. CASE next # NoCursor /\ reading' = [read EXCEPT !.after = next]
  <2>1. reading' = [asked |-> r, state |-> "listing", prepared |-> prepared, count |-> count,
                    begun |-> begun, snapshot |-> snapshot, after |-> next, shown |-> more, stayed |-> staying]
    BY <1>2, <1>3, <1>12, <1>16
  <2>2. CountFits(r, "listing", count, begun, snapshot, next, more, staying)  BY <1>2, <1>11 DEF CountFits
  <2>. QED  BY <1>1, <2>1, <2>2, FitCount
<1>. QED  BY <1>13, <1>14, <1>15, <1>16

LEMMA ReadsFitCount ==
  ASSUME ArchiveIsRead, ReadingIsFit, CountIsFit, Reads
  PROVE  CountIsFit'
<1>1. PICK r \in Requests : \/ Visit(r)
                            \/ FindExtent(r) \/ FindNodes(r) \/ ShowNumber(r)
                            \/ OpenSnapshot(r) \/ ReadPage(r) \/ SnapshotGone(r)
  BY DEF Reads
<1>2. happened \in Nat  BY ReadingSizes DEF ArchiveIsRead
<1>3. CASE Visit(r)
  <2>1. UNCHANGED <<facts, documents, catalogue, happened>>  BY <1>3 DEF Visit
  <2>2. PICK state : /\ state = IF Numbered(r) THEN "counting" ELSE "listing"
                     /\ reading' = [asked |-> r, state |-> state, prepared |-> None, count |-> None, begun |-> happened,
                                    snapshot |-> None, after |-> NoCursor, shown |-> <<>>, stayed |-> {}]
    BY <1>3 DEF Visit
  <2>3. state # "done" /\ (state = "counting" => Numbered(r))  BY <2>2
  <2>4. CountFits(r, state, None, happened, None, NoCursor, <<>>, {})  BY <1>2, <2>3 DEF CountFits
  <2>. QED  BY <2>1, <2>2, <2>4, FitCount
<1>4. CASE FindExtent(r) \/ FindNodes(r) \/ ShowNumber(r)  BY <1>4, CountingFitsCount
<1>5. CASE OpenSnapshot(r) \/ SnapshotGone(r)
  <2>1. reading.asked = r /\ reading.state = "listing" /\ UNCHANGED <<facts, documents, catalogue, happened>>
    BY <1>5 DEF OpenSnapshot, SnapshotGone, Shows
  <2>2. PICK state, prepared, count, begun, snapshot, after, shown, stayed :
           /\ reading = [asked |-> r, state |-> state, prepared |-> prepared, count |-> count,
                         begun |-> begun, snapshot |-> snapshot, after |-> after, shown |-> shown, stayed |-> stayed]
           /\ CountFits(r, state, count, begun, snapshot, after, shown, stayed)
    BY <2>1, FieldsOfReading
  <2>3. state = "listing"  BY <2>1, <2>2
  <2>4. CASE OpenSnapshot(r)
    <3>1. reading' = [asked |-> r, state |-> "listing", prepared |-> prepared, count |-> count,
                      begun |-> begun, snapshot |-> documents, after |-> after, shown |-> shown, stayed |-> stayed]
      BY <2>2, <2>3, <2>4 DEF OpenSnapshot, Shows
    <3>2. CountFits(r, "listing", count, begun, documents, after, shown, stayed)  BY <2>2, <2>3 DEF CountFits
    <3>. QED  BY <2>1, <3>1, <3>2, FitCount
  <2>5. CASE SnapshotGone(r)
    <3>1. reading' = [asked |-> r, state |-> "listing", prepared |-> prepared, count |-> count,
                      begun |-> begun, snapshot |-> None, after |-> NoCursor, shown |-> <<>>, stayed |-> {}]
      BY <2>2, <2>3, <2>5 DEF SnapshotGone, Shows
    <3>2. CountFits(r, "listing", count, begun, None, NoCursor, <<>>, {})  BY <2>2, <2>3 DEF CountFits
    <3>. QED  BY <2>1, <3>1, <3>2, FitCount
  <2>. QED  BY <1>5, <2>4, <2>5
<1>6. CASE ReadPage(r)  BY <1>6, ReadPageFitsCount
<1>. QED  BY <1>1, <1>3, <1>4, <1>5, <1>6

LEMMA CountIsAlwaysFit == ReadingSpec => []CountIsFit
<1>1. ASSUME ReadingInit
      PROVE  CountIsFit
  BY <1>1 DEF CountIsFit, ReadingInit, NoReading
<1>2. ASSUME ArchiveIsRead, ReadingIsFit, CountIsFit, [ReadingNext]_readingVars
      PROVE  CountIsFit'
  <2>1. CASE Reads  BY <1>2, <2>1, ReadsFitCount
  <2>2. CASE ArchiveGoesOn
    <3>1. reading' = reading /\ happened' = happened + 1  BY <2>2, GoingOnLeavesTheReading
    <3>2. CASE reading.asked = None  BY <1>2, <3>1, <3>2 DEF CountIsFit
    <3>3. CASE reading.asked # None
      <4>1. /\ reading.begun \in Nat /\ reading.begun <= happened /\ happened \in Nat
            /\ reading.state = "counting" => Numbered(reading.asked)
        BY <1>2, <3>3, ReadingSizes DEF CountIsFit, CountFits, ArchiveIsRead
      <4>2. reading.begun # happened' /\ reading.begun <= happened'  BY <3>1, <4>1
      <4>3. /\ reading'.asked # None /\ reading'.begun \in Nat /\ reading'.begun <= happened'
            /\ reading'.state = "counting" => Numbered(reading'.asked)
            /\ reading'.begun # happened'
        BY <3>1, <3>3, <4>1, <4>2
      <4>. QED  BY <4>3 DEF CountIsFit, CountFits
    <3>. QED  BY <3>2, <3>3
  <2>3. CASE UNCHANGED readingVars
    <3>1. UNCHANGED <<facts, documents, catalogue, reading, happened>>  BY <2>3 DEF readingVars
    <3>2. CASE reading.asked = None  BY <1>2, <3>1, <3>2 DEF CountIsFit
    <3>3. CASE reading.asked # None
      <4>1. PICK r \in Requests : r = reading.asked  BY <1>2, <3>3 DEF ReadingIsFit
      <4>2. PICK state, prepared, count, begun, snapshot, after, shown, stayed :
              /\ reading = [asked |-> r, state |-> state, prepared |-> prepared, count |-> count,
                            begun |-> begun, snapshot |-> snapshot, after |-> after, shown |-> shown, stayed |-> stayed]
              /\ CountFits(r, state, count, begun, snapshot, after, shown, stayed)
        BY <1>2, <4>1, FieldsOfReading
      <4>3. reading' = [asked |-> r, state |-> state, prepared |-> prepared, count |-> count,
                        begun |-> begun, snapshot |-> snapshot, after |-> after, shown |-> shown, stayed |-> stayed]
        BY <3>1, <4>2
      <4>. QED  BY <3>1, <4>2, <4>3, FitCount
    <3>. QED  BY <3>2, <3>3
  <2>. QED  BY <1>2, <2>1, <2>2, <2>3 DEF ReadingNext
<1>. QED  BY <1>1, <1>2, ReadingIsAlwaysFit, PTL DEF ReadingSpec

\* A number that is shown is the number of rows of the list behind it, read to its end, when nothing has
\* changed since it was asked for, whatever the archive holds and whatever is asked.
THEOREM CountsMatchTheirEvidenceHolds == ReadingSpec => []CountsMatchTheirEvidence
<1>1. ASSUME ArchiveIsRead, ReadingIsFit, CountIsFit
      PROVE  CountsMatchTheirEvidence
  <2>1. SUFFICES ASSUME reading.state = "done", reading.count # None, reading.begun = happened,
                        AloneOnItsRecords(reading.asked), OnlyRootsIndexed
                 PROVE  Cardinality(RowsShown) = reading.count
    BY DEF CountsMatchTheirEvidence
  <2>2. reading.asked # None /\ reading.asked \in Requests
    BY <1>1, <2>1 DEF CountIsFit, ReadingIsFit
  <2>3. PICK r, shown, stayed : r = reading.asked /\ shown = reading.shown /\ stayed = reading.stayed  OBVIOUS
  <2>4. /\ reading.count = Cardinality(LiveBehind(r)) /\ stayed = LiveRows(r)
        /\ \A p \in DOMAIN shown : shown[p] \subseteq LiveBehind(r)
    BY <1>1, <2>1, <2>2, <2>3 DEF CountIsFit, CountFits
  <2>5. \A x \in LiveBehind(r) : OnOnePage(shown, x)
    <3>1. \A row \in stayed : OnOnePage(shown, row[1])  BY <1>1, <2>1, <2>3 DEF ReadingIsFit
    <3>2. ASSUME NEW x \in LiveBehind(r)
          PROVE  OnOnePage(shown, x)
      <4>1. PICK row : row = <<x, LiveKey(r, x)>>  OBVIOUS
      <4>2. row \in stayed /\ row[1] = x  BY <2>4, <4>1 DEF LiveRows
      <4>. QED  BY <3>1, <4>2
    <3>. QED  BY <3>2
  <2>6. PICK S : S = RowsShown  OBVIOUS
  <2>7. \A s : s \in S <=> \E p \in DOMAIN shown : \E x \in shown[p] : s = <<p, x>>  BY <2>3, <2>6 DEF RowsShown
  <2>8. PICK f : f = [s \in S |-> s[2]]  OBVIOUS
  <2>9. f \in [S -> LiveBehind(r)]  BY <2>4, <2>7, <2>8
  <2>10. ASSUME NEW s \in S, NEW t \in S, f[s] = f[t]
         PROVE  s = t
    <3>1. PICK p, x : p \in DOMAIN shown /\ x \in shown[p] /\ s = <<p, x>>  BY <2>7
    <3>2. PICK q, y : q \in DOMAIN shown /\ y \in shown[q] /\ t = <<q, y>>  BY <2>7
    <3>3. x = y  BY <2>8, <2>10, <3>1, <3>2
    <3>4. p \in OnPages(shown, x) /\ q \in OnPages(shown, x)  BY <3>1, <3>2, <3>3 DEF OnPages
    <3>5. PICK only : OnPages(shown, x) = {only}  BY <2>4, <2>5, <3>1 DEF OnOnePage
    <3>. QED  BY <3>1, <3>2, <3>3, <3>4, <3>5
  <2>11. ASSUME NEW x \in LiveBehind(r)
         PROVE  \E s \in S : f[s] = x
    <3>1. PICK p : OnPages(shown, x) = {p}  BY <2>5 DEF OnOnePage
    <3>2. p \in DOMAIN shown /\ x \in shown[p]  BY <3>1 DEF OnPages
    <3>3. <<p, x>> \in S  BY <2>7, <3>2
    <3>. QED  BY <2>8, <3>3
  <2>12. IsFiniteSet(LiveBehind(r))
    <3>1. CASE FromSnapshot(r)
      <4>1. LiveBehind(r) \subseteq ArticleIds  BY <3>1 DEF LiveBehind, Hits
      <4>. QED  BY <4>1, ArticlesAreFinite
    <3>2. CASE ~FromSnapshot(r)  BY <1>1, <2>2, <2>3, <3>2, RowsHaveKeys DEF LiveBehind
    <3>. QED  BY <3>1, <3>2
  <2>13. Cardinality(S) = Cardinality(LiveBehind(r))
    BY ONLY <2>9, <2>10, <2>11, <2>12, SameSize
  <2>. QED  BY <2>4, <2>6, <2>13
<1>. QED  BY <1>1, ReadingIsAlwaysFit, CountIsAlwaysFit, PTL

-----------------------------------------------------------------------------
(* The types of every service, and the services together. *)

\* No more runs are queued than the bound, a worker at rest has no run, and the worker that
\* holds the slot has a request left of the day's.
WikidataIsBounded ==
  /\ Len(runs) <= MaxRuns
  /\ \A t \in RunTokens : asker[t].pc = "idle" => asker[t].run = 0
  /\ throttle.spent <= DailyBudget
  /\ throttle.held # None => throttle.spent < DailyBudget

LEMMA QueueIsBounded ==
  ASSUME RunsTypeOK, RunsTypeOK', Len(runs) <= MaxRuns, [WikidataNext]_wikidataVars
  PROVE  Len(runs') <= MaxRuns
<1>1. /\ Len(runs) \in Nat /\ Len(runs') \in Nat /\ MaxRuns \in Nat
      /\ runs \in Seq(RunRows) /\ runs' \in Seq(RunRows)
  BY WikidataConstants DEF RunsTypeOK
<1>2. ASSUME DOMAIN runs' = DOMAIN runs
      PROVE  Len(runs') <= MaxRuns
  <2>1. Len(runs') = Len(runs)  BY <1>1, <1>2
  <2>. QED  BY <2>1
<1>3. CASE WikidataChanges
  <2>1. DOMAIN runs' = DOMAIN runs  BY <1>3 DEF WikidataChanges, ItemChanges, DayPasses, PauseEnds
  <2>. QED  BY <1>2, <2>1
<1>4. CASE Decisions
  BY <1>4 DEF Decisions, Unlink, AddItemNames, Link, Dismiss, ApproveExact
<1>5. CASE Queueing
  <2>1. ASSUME NEW r \in Roots, Len(runs) < MaxRuns, RequestSearch(r) \/ RequestItemRefresh(r)
        PROVE  Len(runs') <= MaxRuns
    <3>1. CASE RequestSearch(r)
      <4>1. PICK row : runs' = Append(runs, row)  BY <3>1 DEF RequestSearch
      <4>2. Len(runs') = Len(runs) + 1  BY <1>1, <4>1
      <4>. QED  BY <1>1, <2>1, <4>2
    <3>2. CASE RequestItemRefresh(r)
      <4>1. runs' = FetchQueued(runs, r, FALSE)  BY <3>2 DEF RequestItemRefresh
      <4>2. PICK row, i, added :
              runs' = IF Pending(runs, "refresh", r) = {} THEN Append(runs, row)
                      ELSE [runs EXCEPT ![i].addLabels = added]
        BY <4>1 DEF FetchQueued
      <4>3. CASE Pending(runs, "refresh", r) = {}
        <5>1. Len(runs') = Len(runs) + 1  BY <1>1, <4>2, <4>3
        <5>. QED  BY <1>1, <2>1, <5>1
      <4>4. CASE Pending(runs, "refresh", r) # {}
        <5>1. DOMAIN runs' = DOMAIN runs  BY <4>2, <4>4
        <5>. QED  BY <1>2, <5>1
      <4>. QED  BY <4>3, <4>4
    <3>. QED  BY <2>1, <3>1, <3>2
  <2>2. ASSUME NEW kind, NEW b, Len(runs) < MaxRuns, QueueSweep(kind, b)
        PROVE  Len(runs') <= MaxRuns
    <3>1. PICK row : runs' = Append(runs, row)  BY <2>2 DEF QueueSweep
    <3>2. Len(runs') = Len(runs) + 1  BY <1>1, <3>1
    <3>. QED  BY <1>1, <2>2, <3>2
  <2>3. ASSUME NEW i, StopWikidataRun(i)
        PROVE  Len(runs') <= MaxRuns
    <3>1. DOMAIN runs' = DOMAIN runs  BY <2>3 DEF StopWikidataRun
    <3>. QED  BY <1>2, <3>1
  <2>. QED  BY <1>5, <2>1, <2>2, <2>3 DEF Queueing
<1>6. CASE Handing
  <2>1. DOMAIN runs' = DOMAIN runs  BY <1>6 DEF Handing, RunLeaseExpires, ClaimRun, LoseNotice
  <2>. QED  BY <1>2, <2>1
<1>7. CASE Asking
  <2>1. DOMAIN runs' = DOMAIN runs
    BY <1>7 DEF Asking, StartRun, TakeBatch, RunsOutOfTime, SearchKept, TakeSlot, Answer, Refused,
                LeaveOut, AskClasses, Apply, SavePlace, EndRun, AskerDies, Suggest, OnlyAsker
  <2>. QED  BY <1>2, <2>1
<1>8. CASE UNCHANGED wikidataVars
  <2>1. DOMAIN runs' = DOMAIN runs  BY <1>8 DEF wikidataVars
  <2>. QED  BY <1>2, <2>1
<1>. QED  BY <1>3, <1>4, <1>5, <1>6, <1>7, <1>8 DEF WikidataNext

LEMMA RestingHaveNoRun ==
  ASSUME RunsAreWorked, SlotIsHeld, \A u \in RunTokens : asker[u].pc = "idle" => asker[u].run = 0,
         [WikidataNext]_wikidataVars, NEW u \in RunTokens, asker'[u].pc = "idle"
  PROVE  asker'[u].run = 0
<1>1. asker \in [RunTokens -> Askers] /\ Nobody.run = 0
  BY DEF RunsAreWorked, RunsTypeOK, Nobody
<1>2. ASSUME asker'[u] = asker[u] \/ asker'[u] = Nobody
      PROVE  asker'[u].run = 0
  BY <1>1, <1>2
<1>3. CASE WikidataChanges \/ Decisions \/ Queueing \/ Handing \/ UNCHANGED wikidataVars
  <2>1. asker' = asker
    BY <1>3 DEF WikidataChanges, ItemChanges, DayPasses, PauseEnds, Decisions, Unlink, AddItemNames, Link,
                Dismiss, ApproveExact, Queueing, RequestSearch, RequestItemRefresh, QueueSweep,
                StopWikidataRun, OnlyRuns, Handing, RunLeaseExpires, ClaimRun, LoseNotice, wikidataVars
  <2>. QED  BY <1>2, <2>1
<1>4. ASSUME NEW t \in RunTokens, NEW next, asker' = [asker EXCEPT ![t] = next],
             next.pc # "idle" \/ next = Nobody
      PROVE  asker'[u].run = 0
  BY <1>1, <1>2, <1>4
<1>5. ASSUME NEW n \in notices, StartRun(n)
      PROVE  asker'[u].run = 0
  <2>1. n.token \in RunTokens  BY DEF RunsAreWorked, RunsTypeOK
  <2>2. PICK row : row = runs[n.run]  OBVIOUS
  <2>3. PICK next : next = [Nobody EXCEPT !.pc = "next", !.run = n.run, !.cursor = row.cursor,
                                          !.addLabels = row.addLabels]
    OBVIOUS
  <2>4. asker' = asker \/ asker' = [asker EXCEPT ![n.token] = next]  BY <1>5, <2>2, <2>3 DEF StartRun
  <2>5. next.pc = "next"  BY <2>3, NobodyIsAsker DEF Askers
  <2>. QED  BY <1>2, <1>4, <2>1, <2>4, <2>5
<1>6. ASSUME NEW t \in RunTokens,
             \/ TakeBatch(t) \/ RunsOutOfTime(t) \/ SearchKept(t) \/ TakeSlot(t) \/ Answer(t)
             \/ Refused(t) \/ LeaveOut(t) \/ AskClasses(t) \/ Apply(t) \/ SavePlace(t)
             \/ EndRun(t) \/ AskerDies(t)
             \/ \E r \in Roots : Suggest(t, r)
      PROVE  asker'[u].run = 0
  <2>1. PICK w \in Askers : w = asker[t]  BY <1>1
  <2>2. PICK given : given = Worked(w)  OBVIOUS
  <2>3. given.pc \in {"save", "end"}  BY <2>2 DEF Worked, Askers
  <2>4. CASE TakeBatch(t)
    <3>1. PICK row : row = runs[w.run]  OBVIOUS
    <3>2. PICK batch : batch = IF row.root # None THEN {row.root} ELSE NextRoots(row.kind, w.cursor)
      OBVIOUS
    <3>3. PICK links : links = [r \in Roots |->
                  IF /\ r \in batch /\ file.link[r] # None /\ row.kind = "refresh"
                     /\ Forced(row) \/ DueItem(file.link[r])
                  THEN file.link[r] ELSE None]
      OBVIOUS
    <3>4. PICK done : done = Worked([w EXCEPT !.last = Max(batch)])  OBVIOUS
    <3>5. PICK next : next =
            IF batch = {} THEN [w EXCEPT !.pc = "end", !.ends = "finished"]
            ELSE IF row.kind = "refresh" /\ \A r \in Roots : links[r] = None THEN done
                 ELSE [w EXCEPT !.batch = batch, !.last = Max(batch), !.links = links,
                                !.pc = IF row.kind = "refresh" THEN "info" ELSE "search"]
      OBVIOUS
    <3>6. asker' = [asker EXCEPT ![t] = next]
      BY <2>1, <2>4, <3>1, <3>2, <3>3, <3>4, <3>5 DEF TakeBatch
    <3>7. done.pc \in {"save", "end"}
      <4>1. PICK last : last = Max(batch)  OBVIOUS
      <4>. QED  BY <3>4, <4>1 DEF Worked, Askers
    <3>8. next.pc # "idle"  BY <3>5, <3>7 DEF Askers
    <3>. QED  BY <1>4, <3>6, <3>8
  <2>5. ASSUME NEW pc, pc # "idle", asker'[t].pc = pc, \A v \in RunTokens \ {t} : asker'[v] = asker[v]
        PROVE  asker'[u].run = 0
    BY <1>2, <2>5
  <2>6. CASE RunsOutOfTime(t) \/ Refused(t) \/ SearchKept(t) \/ LeaveOut(t) \/ AskClasses(t)
    <3>1. asker'[t].pc # "idle" /\ \A v \in RunTokens \ {t} : asker'[v] = asker[v]
      <4>1. CASE RunsOutOfTime(t)  BY <1>1, <2>1, <4>1 DEF RunsOutOfTime, Askers
      <4>2. CASE Refused(t)  BY <1>1, <2>1, <4>2 DEF Refused, Askers
      <4>3. CASE SearchKept(t)  BY <1>1, <2>1, <4>3 DEF SearchKept, Askers
      <4>4. CASE LeaveOut(t)
        <5>1. PICK wanted : wanted = [r \in Roots |->
                     IF r \notin w.batch THEN {}
                     ELSE {q \in FoundFor[r] : /\ file.candidate[r][q] # "dismissed"
                                               /\ \A s \in Roots \ {r} : file.link[s] # q}]
          OBVIOUS
        <5>2. PICK pc : pc = IF \E q \in UNION Range(wanted) : copy.state[q] = None
                             THEN "lightly" ELSE "suggest"
          OBVIOUS
        <5>3. asker' = [asker EXCEPT ![t].wanted = wanted, ![t].pc = pc]
          BY <2>1, <4>4, <5>1, <5>2 DEF LeaveOut
        <5>4. pc # "idle"  BY <5>2
        <5>. QED  BY <1>1, <2>1, <5>3, <5>4 DEF Askers
      <4>5. CASE AskClasses(t)  BY <1>1, <2>1, <4>5 DEF AskClasses, Askers
      <4>. QED  BY <2>6, <4>1, <4>2, <4>3, <4>4, <4>5
    <3>. QED  BY <2>5, <3>1
  <2>7. CASE TakeSlot(t)
    <3>1. asker' = asker \/ asker' = [asker EXCEPT ![t].pc = "end", ![t].ends = "queued"]
      BY <2>7 DEF TakeSlot
    <3>2. CASE asker' = asker  BY <1>2, <3>2
    <3>3. CASE asker' = [asker EXCEPT ![t].pc = "end", ![t].ends = "queued"]
      <4>1. asker'[t].pc = "end" /\ \A v \in RunTokens \ {t} : asker'[v] = asker[v]
        BY <1>1, <2>1, <3>3 DEF Askers
      <4>. QED  BY <2>5, <4>1
    <3>. QED  BY <3>1, <3>2, <3>3
  <2>8. CASE Answer(t)
    <3>1. w.pc \in ToAsk  BY <2>1, <2>8 DEF Answer, SlotIsHeld
    <3>2. Answered(t)  BY <2>8 DEF Answer
    <3>3. asker'[t].pc # "idle" /\ \A v \in RunTokens \ {t} : asker'[v] = asker[v]
      <4>1. CASE w.pc = "search"
        <5>1. asker' = [asker EXCEPT ![t].pc = "found"]  BY <2>1, <3>2, <4>1 DEF Answered
        <5>. QED  BY <1>1, <2>1, <5>1 DEF Askers
      <4>2. CASE w.pc \in {"lightly", "classes"}
        <5>1. asker' = [asker EXCEPT ![t].pc = "suggest"]  BY <2>1, <3>2, <4>2 DEF Answered
        <5>. QED  BY <1>1, <2>1, <5>1 DEF Askers
      <4>3. CASE w.pc = "info"
        <5>1. PICK asked : asked = {q \in Linked(w) : NeedsFetch(q)}  OBVIOUS
        <5>2. PICK known : known = {q \in asked : \/ site[q] = "missing"
                                                  \/ site[q] = "redirected" /\ site[TurnsInto[q]] # "ok"}
          OBVIOUS
        <5>3. PICK pages : pages = [q \in Items |-> IF q \notin Linked(w) THEN None
                                                    ELSE IF q \in asked THEN site[q] ELSE "same"]
          OBVIOUS
        <5>4. PICK pc : pc = IF asked = known THEN "apply" ELSE "fully"  OBVIOUS
        <5>5. asker' = [asker EXCEPT ![t].pages = pages, ![t].pc = pc]
          BY <2>1, <3>2, <4>3, <5>1, <5>2, <5>3, <5>4 DEF Answered
        <5>6. pc # "idle"  BY <5>4
        <5>. QED  BY <1>1, <2>1, <5>5, <5>6 DEF Askers
      <4>4. CASE w.pc = "fully"
        <5>1. PICK pages : pages = [q \in Items |->
                IF \/ w.pages[q] = "ok"
                   \/ \E p \in Items \ {q} : w.pages[p] = "redirected" /\ TurnsInto[p] = q
                THEN site[q] ELSE w.pages[q]]
          OBVIOUS
        <5>2. asker' = [asker EXCEPT ![t].pc = "apply", ![t].pages = pages]
          BY <1>1, <2>1, <3>2, <4>4, <5>1 DEF Answered
        <5>. QED  BY <1>1, <2>1, <5>2 DEF Askers
      <4>. QED  BY <3>1, <4>1, <4>2, <4>3, <4>4 DEF ToAsk
    <3>. QED  BY <2>5, <3>3
  <2>9. CASE Apply(t)
    <3>1. asker' = [asker EXCEPT ![t] = given]  BY <2>1, <2>2, <2>9 DEF Apply
    <3>. QED  BY <1>4, <2>3, <3>1
  <2>10. CASE SavePlace(t)
    <3>1. PICK next : next = [Nobody EXCEPT !.pc = "next", !.run = w.run, !.addLabels = w.addLabels,
                                            !.cursor = w.last]
      OBVIOUS
    <3>2. asker' = [asker EXCEPT ![t] = next] \/ asker' = [asker EXCEPT ![t] = Nobody]
      BY <2>1, <2>10, <3>1 DEF SavePlace
    <3>3. next.pc = "next"  BY <3>1, NobodyIsAsker DEF Askers
    <3>. QED  BY <1>4, <3>2, <3>3
  <2>11. CASE EndRun(t) \/ AskerDies(t)
    <3>1. asker' = [asker EXCEPT ![t] = Nobody]  BY <2>11 DEF EndRun, AskerDies
    <3>. QED  BY <1>4, <3>1
  <2>12. ASSUME NEW r \in Roots, Suggest(t, r)
         PROVE  asker'[u].run = 0
    <3>1. PICK rest : rest = w.batch \ {r}  OBVIOUS
    <3>2. PICK next : next = IF w.batch = {r} THEN given ELSE [w EXCEPT !.batch = rest]  OBVIOUS
    <3>3. w.pc = "suggest" /\ asker' = [asker EXCEPT ![t] = next]
      BY <1>1, <2>1, <2>2, <2>12, <3>1, <3>2 DEF Suggest, Askers
    <3>4. next.pc # "idle"  BY <2>3, <3>2, <3>3 DEF Askers
    <3>. QED  BY <1>4, <3>3, <3>4
  <2>. QED  BY <1>6, <2>4, <2>6, <2>7, <2>8, <2>9, <2>10, <2>11, <2>12
<1>. QED  BY <1>3, <1>5, <1>6 DEF WikidataNext, Asking

LEMMA BudgetIsKept ==
  ASSUME SlotIsHeld, throttle.spent <= DailyBudget, throttle.held # None => throttle.spent < DailyBudget,
         [WikidataNext]_wikidataVars
  PROVE  throttle'.spent <= DailyBudget /\ (throttle'.held # None => throttle'.spent < DailyBudget)
<1>1. throttle \in ThrottleRows /\ DailyBudget \in Nat  BY WikidataConstants DEF SlotIsHeld, SlotTypeOK
<1>2. PICK row \in ThrottleRows : row = throttle  BY <1>1
<1>3. row.spent \in Nat /\ row.spent <= DailyBudget /\ (row.held # None => row.spent < DailyBudget)
  BY <1>2 DEF ThrottleRows
<1>4. /\ [row EXCEPT !.spent = 0].spent = 0 /\ [row EXCEPT !.spent = 0].held = row.held
      /\ [row EXCEPT !.paused = FALSE].spent = row.spent /\ [row EXCEPT !.paused = FALSE].held = row.held
      /\ [row EXCEPT !.held = None].spent = row.spent /\ [row EXCEPT !.held = None].held = None
      /\ \A t : [row EXCEPT !.held = t].spent = row.spent
  BY DEF ThrottleRows
<1>5. CASE throttle' = throttle  BY <1>2, <1>3, <1>5
<1>6. ASSUME NEW many, DayPasses(many)
      PROVE  throttle'.spent <= DailyBudget /\ (throttle'.held # None => throttle'.spent < DailyBudget)
  <2>1. throttle' = [row EXCEPT !.spent = 0]  BY <1>2, <1>6 DEF DayPasses
  <2>. QED  BY <1>1, <1>2, <1>3, <1>4, <2>1
<1>7. CASE PauseEnds
  <2>1. throttle' = [row EXCEPT !.paused = FALSE]  BY <1>2, <1>7 DEF PauseEnds
  <2>. QED  BY <1>3, <1>4, <2>1
<1>8. ASSUME NEW t \in RunTokens, TakeSlot(t), throttle' # throttle
      PROVE  throttle'.spent <= DailyBudget /\ (throttle'.held # None => throttle'.spent < DailyBudget)
  <2>1. throttle' = [row EXCEPT !.held = t] /\ ~(row.spent >= DailyBudget)
    BY <1>2, <1>8 DEF TakeSlot, Blocked
  <2>. QED  BY <1>1, <1>3, <1>4, <2>1
<1>9. ASSUME NEW t \in RunTokens, Answer(t) \/ Refused(t)
      PROVE  throttle'.spent <= DailyBudget /\ (throttle'.held # None => throttle'.spent < DailyBudget)
  <2>1. row.held = t /\ t # None  BY <1>2, <1>9, WikidataConstants DEF Answer, Refused
  <2>2. \/ throttle' = [row EXCEPT !.held = None, !.spent = row.spent + 1]
        \/ throttle' = [row EXCEPT !.held = None, !.spent = row.spent + 1, !.paused = TRUE]
    BY <1>2, <1>9 DEF Answer, Refused, Spent, ThrottleRows
  <2>3. throttle'.spent = row.spent + 1 /\ throttle'.held = None  BY <2>2 DEF ThrottleRows
  <2>. QED  BY <1>1, <1>3, <2>1, <2>3
<1>10. ASSUME NEW t \in RunTokens, AskerDies(t)
       PROVE  throttle'.spent <= DailyBudget /\ (throttle'.held # None => throttle'.spent < DailyBudget)
  <2>1. throttle' = [row EXCEPT !.held = None] \/ throttle' = throttle  BY <1>2, <1>10 DEF AskerDies
  <2>. QED  BY <1>2, <1>3, <1>4, <2>1
<1>11. CASE Decisions \/ Queueing \/ Handing \/ UNCHANGED wikidataVars
  <2>1. throttle' = throttle
    BY <1>11 DEF Decisions, Unlink, AddItemNames, Link, Dismiss, ApproveExact, Queueing, RequestSearch,
                 RequestItemRefresh, QueueSweep, StopWikidataRun, OnlyRuns, Handing, RunLeaseExpires,
                 ClaimRun, LoseNotice, wikidataVars
  <2>. QED  BY <1>5, <2>1
<1>12. CASE WikidataChanges  BY <1>5, <1>6, <1>7, <1>12 DEF WikidataChanges, ItemChanges
<1>13. CASE Asking
  <2>1. ASSUME NEW t \in RunTokens,
               \/ TakeBatch(t) \/ RunsOutOfTime(t) \/ SearchKept(t) \/ LeaveOut(t) \/ AskClasses(t)
               \/ Apply(t) \/ SavePlace(t) \/ EndRun(t) \/ \E r \in Roots : Suggest(t, r)
        PROVE  throttle' = throttle
    BY <2>1 DEF TakeBatch, RunsOutOfTime, SearchKept, LeaveOut, AskClasses, Apply, SavePlace,
                EndRun, Suggest, OnlyAsker
  <2>2. ASSUME NEW n, StartRun(n)
        PROVE  throttle' = throttle
    BY <2>2 DEF StartRun
  <2>. QED  BY <1>5, <1>8, <1>9, <1>10, <1>13, <2>1, <2>2 DEF Asking
<1>. QED  BY <1>11, <1>12, <1>13 DEF WikidataNext

LEMMA WikidataIsTyped == WikidataSpec => []WikidataTypeOK
<1>1. WikidataInit => RunsAreWorked /\ SlotIsHeld /\ WikidataIsBounded
  <2>1. SUFFICES ASSUME WikidataInit
                 PROVE  WikidataIsBounded
    BY RunsAreWorkedByInit
  <2>2. \A t \in RunTokens : asker[t] = Nobody /\ Nobody.run = 0  BY <2>1 DEF WikidataInit, Nobody
  <2>3. runs = <<>> /\ throttle.spent = 0 /\ throttle.held = None  BY <2>1 DEF WikidataInit
  <2>. QED  BY <2>2, <2>3, WikidataConstants DEF WikidataIsBounded
<1>2. RunsAreWorked /\ SlotIsHeld /\ WikidataIsBounded /\ [WikidataNext]_wikidataVars
        => (RunsAreWorked /\ SlotIsHeld /\ WikidataIsBounded)'
  <2>1. SUFFICES ASSUME RunsAreWorked, SlotIsHeld, WikidataIsBounded, [WikidataNext]_wikidataVars
                 PROVE  RunsAreWorked' /\ SlotIsHeld' /\ WikidataIsBounded'
    OBVIOUS
  <2>2. RunsAreWorked' /\ SlotIsHeld'  BY <2>1, RunsAreWorkedByNext
  <2>3. RunsTypeOK /\ RunsTypeOK'  BY <2>1, <2>2 DEF RunsAreWorked
  <2>4. Len(runs') <= MaxRuns  BY <2>1, <2>3, QueueIsBounded DEF WikidataIsBounded
  <2>5. \A t \in RunTokens : asker'[t].pc = "idle" => asker'[t].run = 0
    BY <2>1, RestingHaveNoRun DEF WikidataIsBounded
  <2>6. throttle'.spent <= DailyBudget /\ (throttle'.held # None => throttle'.spent < DailyBudget)
    BY <2>1, BudgetIsKept DEF WikidataIsBounded
  <2>. QED  BY <2>2, <2>4, <2>5, <2>6 DEF WikidataIsBounded
<1>3. RunsAreWorked /\ SlotIsHeld /\ WikidataIsBounded => WikidataTypeOK
  <2>1. SUFFICES ASSUME RunsAreWorked, SlotIsHeld, WikidataIsBounded
                 PROVE  WikidataTypeOK
    OBVIOUS
  <2>2. /\ file \in FileRows /\ site \in [Items -> ItemStates] /\ runs \in Seq(RunRows)
        /\ asker \in [RunTokens -> Askers]
    BY <2>1 DEF RunsAreWorked, RunsTypeOK
  <2>3. /\ copy.state \in [Items -> CacheStates] /\ copy.aged \subseteq Items /\ copy.searched \subseteq Roots
        /\ throttle.held \in RunTokens \cup {None} /\ throttle.spent \in Nat
    BY <2>1 DEF SlotIsHeld, SlotTypeOK, CopyRows, ThrottleRows
  <2>4. ASSUME NEW t \in RunTokens
        PROVE  asker[t].batch \subseteq Roots /\ asker[t].run \in 0..Len(runs)
    <3>1. asker[t].batch \subseteq Roots /\ Len(runs) \in Nat /\ DOMAIN runs = 1..Len(runs)
      BY <2>2 DEF Askers
    <3>2. asker[t].run \in DOMAIN runs \/ asker[t].run = 0
      BY <2>1 DEF RunsAreWorked, WikidataIsBounded
    <3>. QED  BY <3>1, <3>2
  <2>. QED  BY <2>1, <2>2, <2>3, <2>4, WikidataConstants DEF WikidataTypeOK, WikidataIsBounded
<1>. QED  BY <1>1, <1>2, <1>3, PTL DEF WikidataSpec

LEMMA WatchIsTyped == WatchSpec => []WatchTypeOK
<1>1. WatchInit => WatchTypes  BY CountsAtFirst DEF WatchIsTrue
<1>2. WatchTypes /\ [WatchNext]_watchVars => WatchTypes'
  <2>1. ASSUME WatchTypes, UNCHANGED watchVars
        PROVE  WatchTypes'
    BY <2>1 DEF watchVars, watchArchive, WatchTypes
  <2>. QED  BY <2>1, WatchTypesStep
<1>3. WatchTypes => WatchTypeOK
  <2>1. ASSUME WatchTypes
        PROVE  WatchTypeOK
    <3>1. NoEvaluation.token = None  BY DEF NoEvaluation
    <3>2. \A e \in Evaluators : evaluator[e].token \in WatchTokens \cup {None}
      BY <2>1, <3>1 DEF WatchTypes, Evaluations
    <3>3. delivery.pc \in {"idle", "read", "sent", "failed", "done"}  BY <2>1 DEF WatchTypes, Deliveries
    <3>. QED  BY <2>1, <3>2, <3>3 DEF WatchTypes, WatchTypeOK
  <2>. QED  BY <2>1
<1>. QED  BY <1>1, <1>2, <1>3, PTL DEF WatchSpec

LEMMA FeedIsTyped == FeedSpec => []FeedTypeOK
<1>1. FeedInit => FetchesAreAccounted /\ FeedStores  BY AccountedInit, FeedStoresInit
<1>2. FetchesAreAccounted /\ FeedStores /\ [FeedNext]_feedVars => FetchesAreAccounted' /\ FeedStores'
  BY AccountedStep, FeedStoresStep DEF FetchesAreAccounted
<1>3. FetchesAreAccounted /\ FeedStores => FeedTypeOK
  <2>1. ASSUME FetchesAreAccounted, FeedStores
        PROVE  FeedTypeOK
    <3>1. ClaimsTypeOK  BY <2>1 DEF FetchesAreAccounted
    <3>2. \A d \in archive.discoveries : archive.title[d.article] # None
      BY <2>1 DEF FeedStores, ArchiveIsWhole
    <3>3. \A t \in FetchTokens : fetcher[t].attempt \in 0..Attempts
      BY <3>1 DEF ClaimsTypeOK, Fetchers
    <3>. QED  BY <3>1, <3>2, <3>3 DEF ClaimsTypeOK, FeedTypeOK
  <2>. QED  BY <2>1
<1>. QED  BY <1>1, <1>2, <1>3, PTL DEF FeedSpec

LEMMA ProcessesAreTyped == ProcessSpec => []ProcessesTypeOK
<1>1. HistoryIsKept => ProcessesTypeOK
  BY DEF HistoryIsKept, HistoryIsSound, RowsAreRows, ProcessesTypeOK
<1>. QED  BY <1>1, KeptInit, KeptStep, PTL DEF ProcessSpec

\* The services share nothing: what one of them does is a behaviour of its own specification
\* whatever is exercised, and the theorems about each hold of them together.
THEOREM ServicesAreIndependent ==
  ServicesSpec => WatchSpec /\ FeedSpec /\ WikidataSpec /\ ProcessSpec /\ ReadingSpec
<1>1. ServicesInit => WatchInit /\ FeedInit /\ WikidataInit /\ ProcessInit /\ ReadingInit
  BY DEF ServicesInit
<1>2. [ServicesNext]_serviceVars => /\ [WatchNext]_watchVars /\ [FeedNext]_feedVars
                                    /\ [WikidataNext]_wikidataVars /\ [ProcessNext]_processVars
                                    /\ [ReadingNext]_readingVars
  <2>. SUFFICES ASSUME [ServicesNext]_serviceVars
                PROVE  /\ [WatchNext]_watchVars /\ [FeedNext]_feedVars /\ [WikidataNext]_wikidataVars
                       /\ [ProcessNext]_processVars /\ [ReadingNext]_readingVars
    OBVIOUS
  <2>1. Announcing => WatchNext
    BY SomethingIsWatched
       DEF Announcing, WatchNext, WatchedArchive, Requested, Evaluating
  <2>2. WatchedArchive \/ Requested \/ Evaluating => WatchNext  BY DEF WatchNext
  <2>3. Linking => WikidataNext
    BY DEF Linking, WikidataNext, WikidataChanges, Handing, Asking
  <2>. QED  BY <2>1, <2>2, <2>3 DEF ServicesNext, serviceVars
<1>. QED  BY <1>1, <1>2, PTL DEF ServicesSpec, WatchSpec, FeedSpec, WikidataSpec, ProcessSpec, ReadingSpec

\* The services together keep their types: a watch and its messages, a feed and what it has stored,
\* the runs and the throttle of Wikidata, a process's history, and the reader's lists.
THEOREM ServicesTypeOKHolds == ServicesSpec => []ServicesTypeOK
<1>1. WatchTypeOK /\ FeedTypeOK /\ WikidataTypeOK /\ ProcessesTypeOK /\ ReadingTypeOK => ServicesTypeOK
  BY DEF ServicesTypeOK
<1>. QED
  BY <1>1, ServicesAreIndependent, WatchIsTyped, FeedIsTyped, WikidataIsTyped, ProcessesAreTyped,
     ReadingTypeOKHolds, PTL
=============================================================================
