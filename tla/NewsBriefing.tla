----------------------------- MODULE NewsBriefing -----------------------------
(***************************************************************************)
(* The news loop, the market briefings it starts, and what a restart makes *)
(* of them (main.py, ingestion/news_adapter.py, llm/analyser.py,           *)
(* storage/repository.py).                                                 *)
(*                                                                         *)
(* A cycle reads the feeds one after the other and the Fear & Greed index  *)
(* last, files the articles, takes those it did not list in the cycle      *)
(* before for new, starts a briefing task about them and probes the LLM    *)
(* endpoint.  The task runs on its own and may still wait for the LLM when *)
(* a later cycle starts another one.                                       *)
(*                                                                         *)
(* An article is the rank of its publication time, a briefing the set of   *)
(* articles it was asked about.  A feed shows its newest articles, in that *)
(* order; one without a date would be dated anew by every read.  The LLM   *)
(* client, the subject of LLMSwitching, may fail or answer a chat.         *)
(***************************************************************************)
EXTENDS Integers, FiniteSets, Sequences

CONSTANTS
  FeedCount,    \* RSS feeds
  Window,       \* articles read of a feed: 20
  Cap,          \* articles listed at most: 60
  Tasks,        \* bound: briefing tasks that may overlap
  MaxArticles,  \* bound: articles that are ever published
  MaxRestarts,  \* bound: process restarts
  MayFail,      \* whether feeds, the index, writes and chats may fail
  HasBackend    \* whether there is an LLM backend that may be tried

ASSUME NewsAssumption ==
  /\ {FeedCount, MaxArticles, MaxRestarts} \subseteq Nat
  /\ {Window, Cap} \subseteq Nat \ {0}
  /\ MayFail \in BOOLEAN /\ HasBackend \in BOOLEAN

VARIABLES
  published,   \* the feed of each article, oldest first
  index,       \* the article of the index's reading, None before the first
  primed,      \* FearGreedAdapter._last_value is set
  filed,       \* rows of news_items
  loop,        \* the news loop: fetching, filing or filed
  unread,      \* the feed a cycle reads next
  fetched,     \* what the cycle has of the feeds
  given,       \* what it has of the index
  briefedIds,  \* _briefed_news_ids, the ids of _latest_news
  asked,       \* new articles of each briefing task, none for a free one
  waiting,     \* tasks whose chat is under way
  shown,       \* _analyser.latest_briefing
  onFile,      \* newest row of llm_briefings
  priced,      \* _current_prices has prices
  handed,      \* history: articles given to a briefing task so far
  whole,       \* history: nothing was missing from what the cycle has read
  last,        \* history: what the cycle listed last was "whole", or "other"
  saved,       \* history: the briefing shown last was saved
  restarts

sources == <<published, index>>
reading == <<unread, fetched, given, primed, whole>>
listing == <<briefedIds, handed, last>>
tasks == <<asked, waiting>>
briefings == <<shown, onFile, saved>>
vars == <<sources, filed, loop, reading, listing, tasks, briefings, priced, restarts>>

Articles == 1..MaxArticles
Feeds == 1..FeedCount
None == 0
Index == 0

Later(a, articles) == {b \in articles : b > a}

\* The n articles published last.
Newest(n, articles) == {a \in articles : Cardinality(Later(a, articles)) < n}

-----------------------------------------------------------------------------
(* The world.                                                              *)

Of(f) == {a \in 1..Len(published) : published[a] = f}

Offered(f) == Newest(Window, Of(f))

\* One article is left for the index.
Publish(f) ==
  /\ Len(published) + (IF index = None THEN 1 ELSE 0) < MaxArticles
  /\ published' = Append(published, f)
  /\ UNCHANGED <<index, filed, loop, reading, listing, tasks, briefings, priced, restarts>>

-----------------------------------------------------------------------------
(* The news loop.                                                          *)

\* What a cycle has read is gone when it ends; until the next one begins the
\* loop waits for the probe and sleeps.
Forgets == unread' = 1 /\ fetched' = {} /\ given' = None /\ whole' = TRUE

\* A feed that cannot be read yields nothing.
ReadFeed ==
  /\ loop = "fetching" /\ unread \in Feeds
  /\ unread' = unread + 1
  /\ \/ fetched' = fetched \cup Offered(unread) /\ UNCHANGED whole
     \/ MayFail /\ whole' = FALSE /\ UNCHANGED fetched
  /\ UNCHANGED <<sources, filed, loop, given, primed, listing, tasks, briefings, priced, restarts>>

\* The index yields an article, dated now, when its value is not the one read
\* last, which a restart forgets; the same value on the same day is the same
\* article.  It yields nothing when it cannot be read.
IndexYields ==
  \/ /\ primed \/ MayFail
     /\ given' = None /\ whole' = (whole /\ primed)
     /\ UNCHANGED <<sources, primed>>
  \/ /\ Len(published) < MaxArticles
     /\ published' = Append(published, Index)
     /\ index' = Len(published) + 1 /\ given' = Len(published) + 1
     /\ primed' = TRUE /\ UNCHANGED whole
  \/ /\ ~primed /\ index # None
     /\ given' = index /\ primed' = TRUE
     /\ UNCHANGED <<sources, whole>>

ReadIndex ==
  /\ loop = "fetching" /\ unread \notin Feeds
  /\ IndexYields
  /\ loop' = "filing"
  /\ UNCHANGED <<filed, unread, fetched, listing, tasks, briefings, priced, restarts>>

\* An answer of the index that is not understood ends the cycle.
CycleFails ==
  /\ loop = "fetching" /\ unread \notin Feeds /\ MayFail
  /\ Forgets
  /\ UNCHANGED <<sources, primed, filed, loop, listing, tasks, briefings, priced, restarts>>

\* An article that cannot be saved is passed over: kept is what can.
Files(kept) ==
  /\ loop = "filing"
  /\ kept \subseteq fetched \cup ({given} \ {None})
  /\ MayFail \/ fetched \cup {given} \subseteq kept \cup {None}
  /\ loop' = "filed"
  /\ filed' = filed \cup kept
  /\ UNCHANGED <<sources, reading, listing, tasks, briefings, priced, restarts>>

\* The article of the index is the newest, whenever it was filed first.
Listed ==
  IF given = None THEN Newest(Cap, fetched) ELSE {given} \cup Newest(Cap - 1, fetched)

\* Slip: what was listed before is forgotten.
OnlyNew(listed, new) == new

\* The ids are replaced, not added to, and before the task has run.
Briefed(listed, new) == listed

\* Nothing else runs while the list is made and the task is started.
Lists ==
  LET new == Listed \ briefedIds
  IN  /\ loop = "filed"
      /\ loop' = "fetching" /\ Forgets
      /\ briefedIds' = Briefed(Listed, new)
      /\ handed' = handed \cup new
      /\ last' = IF whole /\ given = None THEN "whole" ELSE "other"
      /\ \/ new = {} /\ UNCHANGED asked
         \/ \E t \in Tasks : /\ new # {} /\ asked[t] = {}
                             /\ asked' = [asked EXCEPT ![t] = new]
      /\ UNCHANGED <<sources, primed, filed, waiting, briefings, priced, restarts>>

-----------------------------------------------------------------------------
(* Briefing tasks.                                                         *)

Ended(t) == asked' = [asked EXCEPT ![t] = {}]

\* Without prices, or with no backend that may be tried, the task is over.
TaskStarts(t) ==
  /\ asked[t] # {} /\ t \notin waiting
  /\ \/ priced /\ HasBackend /\ waiting' = waiting \cup {t} /\ UNCHANGED asked
     \/ (~priced \/ ~HasBackend \/ MayFail) /\ Ended(t) /\ UNCHANGED waiting
  /\ UNCHANGED <<sources, filed, loop, reading, listing, briefings, priced, restarts>>

\* Slip: only the first briefing goes on file.
BriefsOnce(articles, kept) ==
  /\ shown' = articles /\ saved' = kept
  /\ onFile' = IF kept /\ onFile = {} THEN articles ELSE onFile

\* The briefing is shown when it arrives, whichever task asked, and saved.
Briefs(articles, kept) ==
  /\ shown' = articles /\ saved' = kept
  /\ onFile' = IF kept THEN articles ELSE onFile

\* A failure to save it is only logged.
TaskAnswered(t) ==
  /\ t \in waiting
  /\ \E kept \in BOOLEAN : (kept \/ MayFail) /\ Briefs(asked[t], kept)
  /\ Ended(t)
  /\ waiting' = waiting \ {t}
  /\ UNCHANGED <<sources, filed, loop, reading, listing, priced, restarts>>

\* No answer, or one without the fields it needs.
TaskFails(t) ==
  /\ t \in waiting /\ MayFail
  /\ Ended(t)
  /\ waiting' = waiting \ {t}
  /\ UNCHANGED <<sources, filed, loop, reading, listing, briefings, priced, restarts>>

\* The first tick of the strategy loop that sees a price.
PricesArrive ==
  /\ ~priced
  /\ priced' = TRUE
  /\ UNCHANGED <<sources, filed, loop, reading, listing, tasks, briefings, restarts>>

-----------------------------------------------------------------------------

\* Tasks and prices are gone and the index's value is forgotten; the briefing
\* is read back, and the newest articles on file count as briefed.
Restart ==
  /\ restarts < MaxRestarts
  /\ restarts' = restarts + 1
  /\ loop' = "fetching" /\ Forgets /\ primed' = FALSE
  /\ briefedIds' = Newest(Cap, filed) /\ last' = "none"
  /\ asked' = [t \in Tasks |-> {}] /\ waiting' = {}
  /\ shown' = onFile /\ saved' = TRUE
  /\ priced' = FALSE
  /\ UNCHANGED <<sources, filed, handed, onFile>>

Init ==
  /\ published = <<>> /\ index = None /\ primed = FALSE /\ filed = {}
  /\ loop = "fetching" /\ unread = 1 /\ fetched = {} /\ given = None
  /\ briefedIds = {}
  /\ asked = [t \in Tasks |-> {}] /\ waiting = {}
  /\ shown = {} /\ onFile = {} /\ priced = FALSE
  /\ handed = {} /\ whole = TRUE /\ last = "none" /\ saved = TRUE
  /\ restarts = 0

Next ==
  \/ \E f \in Feeds : Publish(f)
  \/ ReadFeed \/ ReadIndex \/ CycleFails
  \/ \E kept \in SUBSET Articles : Files(kept)
  \/ Lists
  \/ \E t \in Tasks : TaskStarts(t) \/ TaskAnswered(t) \/ TaskFails(t)
  \/ PricesArrive
  \/ Restart

Spec == Init /\ [][Next]_vars

-----------------------------------------------------------------------------

NewsTypeOK ==
  /\ published \in Seq({Index} \cup Feeds) /\ Len(published) <= MaxArticles
  /\ {index, given} \subseteq {None} \cup Articles
  /\ {filed, fetched, briefedIds, shown, onFile, handed} \subseteq SUBSET Articles
  /\ loop \in {"fetching", "filing", "filed"}
  /\ unread \in 1..FeedCount + 1
  /\ asked \in [Tasks -> SUBSET Articles] /\ waiting \subseteq Tasks
  /\ primed \in BOOLEAN /\ priced \in BOOLEAN /\ whole \in BOOLEAN /\ saved \in BOOLEAN
  /\ last \in {"none", "whole", "other"}
  /\ restarts \in 0..MaxRestarts

\* Articles that went to a briefing task before go to one again.
BriefsAgain == \E t \in Tasks : ~(asked'[t] \cap handed \subseteq asked[t])

\* main.py:916: the ids of one listing are all the loop remembers, and that is
\* enough for a cycle that reads every feed, if the last listing had every feed
\* and nothing of the index: no article is briefed that ever was, though each
\* feed shows its newest ones only, each is read at a time of its own, cycles
\* may have failed since that listing, and restarts came before it.
NothingIsBriefedTwice == [][last = "whole" /\ whole => ~BriefsAgain]_vars

\* analyser.py:460, docs/03-background-loops.md:184: a restart brings back the
\* briefing that was shown, whichever of overlapping tasks it came from, unless
\* just that one could not be saved.
RestartKeepsBriefing == [][saved /\ restarts' # restarts => shown' = shown]_vars

-----------------------------------------------------------------------------
(* Statements of the repository that the code does not keep.               *)

\* main.py:208, docs/03-background-loops.md:182: the first cycle after a
\* restart does not brief again what was briefed before it.
RestartDoesNotRebrief == [][last = "none" => ~BriefsAgain]_vars

\* docs/09-ingestion-adapters.md:223: the first cycle after a start briefs
\* everything it lists.
FirstFetchBriefsAll ==
  [][ loop = "filed" /\ last = "none" /\ last' # "none" /\ Listed # {} =>
        \E t \in Tasks : asked'[t] = Listed ]_vars

\* main.py:872: in one process, what is briefed has not been briefed before.
NewMeansUnseen == [][last # "none" => ~BriefsAgain]_vars

\* docs/09-ingestion-adapters.md:270: what is passed over for want of prices
\* counts as new in the next cycle.
SkippedStayNew ==
  [][ \A t \in Tasks :
        ~priced /\ asked[t] # {} /\ asked'[t] = {} /\ restarts' = restarts =>
          asked[t] \cap briefedIds = {} ]_vars
=============================================================================
