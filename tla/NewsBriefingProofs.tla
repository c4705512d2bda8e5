-------------------------- MODULE NewsBriefingProofs --------------------------
(***************************************************************************)
(* Proofs about NewsBriefing, for every value of its constants.            *)
(*                                                                         *)
(* That no article is briefed twice rests on what a publication does to    *)
(* what the feeds show: one article comes, the newest of all, and at most  *)
(* one goes (WindowMoves).  So of the articles that were shown before, one *)
(* that is still shown has as many later ones beside it as it had.  What   *)
(* was handed to a task and is not listed had Cap later ones, and keeps    *)
(* them as long as it is shown, whichever feeds are read in between.       *)
(***************************************************************************)
EXTENDS NewsBriefing, FiniteSetTheorems, SequenceTheorems, TLAPS

-----------------------------------------------------------------------------
(* Counting.                                                               *)

\* How many articles are later.
Rank(a, articles) == Cardinality(Later(a, articles))

LEMMA RankIsNat ==
  ASSUME NEW S, IsFiniteSet(S), NEW a
  PROVE  IsFiniteSet(Later(a, S)) /\ Rank(a, S) \in Nat
<1>1. Later(a, S) \in SUBSET S
  BY DEF Later
<1> QED BY <1>1, FS_Subset, FS_CardinalityType DEF Rank

\* A newer article has fewer later ones.
LEMMA RanksDiffer ==
  ASSUME NEW S, IsFiniteSet(S), S \subseteq Nat, NEW a \in S, NEW b \in S, a < b
  PROVE  Rank(a, S) # Rank(b, S)
<1>0. a \in Nat /\ b \in Nat
  OBVIOUS
<1>1. Later(b, S) \in SUBSET Later(a, S) /\ b \in Later(a, S) /\ b \notin Later(b, S)
  <2>1. \A c \in S : c > b => c > a
    <3> TAKE c \in S
    <3>1. c \in Nat
      OBVIOUS
    <3> QED BY <1>0, <3>1
  <2>2. b > a /\ ~(b > b)
    BY <1>0
  <2> QED BY <2>1, <2>2 DEF Later
<1>2. IsFiniteSet(Later(a, S))
  BY RankIsNat
<1> QED BY <1>1, <1>2, FS_Subset DEF Rank

\* What the newest article of all, and the loss of one, do to a rank.
LEMMA RankMoves ==
  ASSUME NEW S, IsFiniteSet(S), NEW a \in Int, NEW x \in Int, x > a, x \notin S,
         NEW gone \in SUBSET S, gone = {} \/ \E y : gone = {y}
  PROVE  Rank(a, (S \ gone) \cup {x})
           = IF \E y \in gone : y > a THEN Rank(a, S) ELSE Rank(a, S) + 1
<1> DEFINE L == Later(a, S)
           K == Later(a, S \ gone)
<1>1. IsFiniteSet(L) /\ Rank(a, S) \in Nat /\ IsFiniteSet(K)
  <2>1. IsFiniteSet(S \ gone)
    BY FS_Subset
  <2> QED BY <2>1, RankIsNat
<1>2. Later(a, (S \ gone) \cup {x}) = K \cup {x} /\ x \notin K
  BY DEF Later
<1>3. Rank(a, (S \ gone) \cup {x}) = Cardinality(K) + 1
  BY <1>1, <1>2, FS_AddElement DEF Rank
<1>4. CASE \E y \in gone : y > a
  <2>1. PICK y : gone = {y} /\ y > a
    BY <1>4
  <2>2. y \in S
    BY <2>1
  <2>3. K = L \ {y} /\ y \in L
    BY <2>1, <2>2, Zenon DEF Later
  <2>4. Rank(a, S) = Cardinality(L)
    BY DEF Rank
  <2> HIDE DEF K, L
  <2>5. Cardinality(K) = Cardinality(L) - 1
    BY <1>1, <2>3, FS_RemoveElement
  <2> QED BY <1>1, <1>3, <1>4, <2>4, <2>5
<1>5. CASE ~(\E y \in gone : y > a)
  <2>1. K = L
    BY <1>5 DEF Later
  <2> QED BY <1>3, <1>5, <2>1 DEF Rank
<1> QED BY <1>4, <1>5

\* A publication adds to a full window and takes its oldest article off.
LEMMA WindowMoves ==
  ASSUME NEW F, IsFiniteSet(F), F \subseteq Nat, NEW n \in Nat \ {0},
         NEW x \in Nat, \A a \in F : a < x
  PROVE  \E gone \in SUBSET Newest(n, F) :
           /\ gone = {} \/ \E y : gone = {y}
           /\ Newest(n, F \cup {x}) = (Newest(n, F) \ gone) \cup {x}
<1> DEFINE G == F \cup {x}
           gone == {a \in F : Rank(a, F) = n - 1}
<1>1. \A a \in F : Rank(a, F) \in Nat /\ Rank(a, G) = Rank(a, F) + 1
  <2> TAKE a \in F
  <2>1. Rank(a, (F \ {}) \cup {x}) = Rank(a, F) + 1
    <3>1. a \in Int /\ x \in Int /\ x > a /\ x \notin F /\ {} \in SUBSET F
      OBVIOUS
    <3> QED BY <3>1, RankMoves
  <2>2. (F \ {}) \cup {x} = G
    OBVIOUS
  <2> QED BY <2>1, <2>2, RankIsNat
<1>2. Rank(x, G) = 0
  <2>1. \A b \in G : ~(b > x)
    <3>1. ~(x > x) /\ \A b \in F : b < x /\ b \in Int
      OBVIOUS
    <3>2. \A b \in F : ~(b > x)
      BY <3>1
    <3> QED BY <3>1, <3>2
  <2>2. Later(x, G) = {}
    BY <2>1 DEF Later
  <2> QED BY <2>2, FS_EmptySet DEF Rank
<1>3. x \notin F
  OBVIOUS
<1> HIDE DEF G
<1>4. \A a \in G : a = x \/ a \in F
  BY DEF G
<1>5. \A a \in F : a \in G
  BY DEF G
<1>6. x \in G
  BY DEF G
<1>7. gone \in SUBSET Newest(n, F)
  BY DEF Newest, Rank
<1>8. gone = {} \/ \E y : gone = {y}
  <2>1. ASSUME NEW a \in gone, NEW b \in gone, a # b PROVE FALSE
    <3>1. a \in Nat /\ b \in Nat
      OBVIOUS
    <3>2. a < b \/ b < a
      BY <2>1, <3>1
    <3>3. Rank(a, F) = Rank(b, F)
      OBVIOUS
    <3> QED BY <3>2, <3>3, RanksDiffer
  <2> QED BY <2>1
<1>9. Newest(n, G) = (Newest(n, F) \ gone) \cup {x}
  <2>1. \A a \in F : a \in Newest(n, G) <=> a \in Newest(n, F) /\ a \notin gone
    <3> TAKE a \in F
    <3>1. a \in Newest(n, G) <=> Rank(a, F) + 1 < n
      BY <1>1, <1>5 DEF Newest, Rank
    <3>2. a \in Newest(n, F) <=> Rank(a, F) < n
      BY DEF Newest, Rank
    <3> QED BY <1>1, <3>1, <3>2
  <2>2. x \in Newest(n, G)
    BY <1>2, <1>6 DEF Newest, Rank
  <2>3. Newest(n, G) \subseteq G /\ Newest(n, F) \subseteq F
    BY DEF Newest
  <2> HIDE DEF gone
  <2> QED BY <1>3, <1>4, <2>1, <2>2, <2>3
<1> HIDE DEF gone
<1> QED BY <1>7, <1>8, <1>9 DEF G

-----------------------------------------------------------------------------
(* Types.                                                                  *)

LEMMA NewestAreListed ==
  ASSUME NEW articles, NEW n PROVE Newest(n, articles) \subseteq articles
  BY DEF Newest

\* What an article gets for a number.
LEMMA NextArticle ==
  ASSUME NewsTypeOK, Len(published) < MaxArticles
  PROVE  Len(published) + 1 \in Articles
BY NewsAssumption DEF NewsTypeOK, Articles

\* Feeds show articles.
LEMMA OfferedAreArticles ==
  ASSUME NewsTypeOK, NEW f
  PROVE  Of(f) \subseteq Articles /\ Offered(f) \subseteq Articles
<1>1. \A a \in 1..Len(published) : a \in Articles
  BY NewsAssumption DEF NewsTypeOK, Articles
<1> QED BY <1>1, NewestAreListed DEF Of, Offered

LEMMA ListedAreArticles ==
  ASSUME NewsTypeOK PROVE Listed \subseteq Articles
<1>1. Newest(Cap, fetched) \subseteq Articles /\ Newest(Cap - 1, fetched) \subseteq Articles
  BY NewestAreListed DEF NewsTypeOK
<1>2. given # None => given \in Articles
  BY DEF NewsTypeOK
<1> QED BY <1>1, <1>2 DEF Listed

LEMMA NewsTypeInit == Init => NewsTypeOK
<1> SUFFICES ASSUME Init PROVE NewsTypeOK
  OBVIOUS
<1>1. <<>> \in Seq({Index} \cup Feeds) /\ Len(<<>>) = 0 /\ 0 <= MaxArticles
  BY NewsAssumption
<1>2. [t \in Tasks |-> {}] \in [Tasks -> SUBSET Articles]
  OBVIOUS
<1>3. 0 \in 0..MaxRestarts /\ 1 \in 1..FeedCount + 1
  BY NewsAssumption
<1> QED BY <1>1, <1>2, <1>3 DEF Init, NewsTypeOK

LEMMA NewsTypeStep == NewsTypeOK /\ [Next]_vars => NewsTypeOK'
<1> SUFFICES ASSUME NewsTypeOK, [Next]_vars PROVE NewsTypeOK'
  OBVIOUS
<1> USE DEF sources, reading, listing, tasks, briefings
<1>0. 1 \in 1..FeedCount + 1
  BY NewsAssumption
<1>1. ASSUME NEW f \in {Index} \cup Feeds, Len(published) < MaxArticles,
             published' = Append(published, f)
      PROVE  published' \in Seq({Index} \cup Feeds) /\ Len(published') <= MaxArticles
  <2>1. published \in Seq({Index} \cup Feeds) /\ Len(published) \in Nat
    BY DEF NewsTypeOK
  <2> QED BY <1>1, <2>1, NewsAssumption, AppendProperties
<1>2. ASSUME NEW f \in Feeds, Publish(f) PROVE NewsTypeOK'
  <2>1. Len(published) < MaxArticles
    <3>1. Len(published) \in Nat
      BY DEF NewsTypeOK
    <3> QED BY <1>2, <3>1, NewsAssumption DEF Publish
  <2>2. published' \in Seq({Index} \cup Feeds) /\ Len(published') <= MaxArticles
    BY <1>1, <1>2, <2>1 DEF Publish
  <2> QED BY <1>2, <2>2 DEF Publish, NewsTypeOK
<1>3. CASE ReadFeed
  <2>1. fetched' \subseteq Articles
    BY <1>3, OfferedAreArticles DEF ReadFeed, NewsTypeOK
  <2>2. unread' \in 1..FeedCount + 1
    BY <1>3, NewsAssumption DEF ReadFeed, Feeds, NewsTypeOK
  <2>3. whole' \in BOOLEAN
    BY <1>3 DEF ReadFeed, NewsTypeOK
  <2> QED BY <1>3, <2>1, <2>2, <2>3 DEF ReadFeed, NewsTypeOK
<1>4. CASE ReadIndex
  <2>1. published' \in Seq({Index} \cup Feeds) /\ Len(published') <= MaxArticles
    BY <1>1, <1>4 DEF ReadIndex, IndexYields, NewsTypeOK
  <2>2. {index', given'} \subseteq {None} \cup Articles
    BY <1>4, NextArticle DEF ReadIndex, IndexYields, NewsTypeOK
  <2>3. primed' \in BOOLEAN
    BY <1>4 DEF ReadIndex, IndexYields, NewsTypeOK
  <2>4. whole' \in BOOLEAN
    BY <1>4, Zenon DEF ReadIndex, IndexYields, NewsTypeOK
  <2> QED BY <1>4, <2>1, <2>2, <2>3, <2>4 DEF ReadIndex, NewsTypeOK
<1>5. CASE CycleFails
  BY <1>0, <1>5 DEF CycleFails, Forgets, NewsTypeOK
<1>6. ASSUME NEW kept \in SUBSET Articles, Files(kept) PROVE NewsTypeOK'
  BY <1>6 DEF Files, NewsTypeOK
<1>7. CASE Lists
  <2> DEFINE new == Listed \ briefedIds
  <2>1. briefedIds' \subseteq Articles /\ new \subseteq Articles
    BY <1>7, ListedAreArticles DEF Lists, Briefed
  <2>2. asked' = asked \/ \E t \in Tasks : asked' = [asked EXCEPT ![t] = new]
    BY <1>7, Zenon DEF Lists
  <2>3. handed' = handed \cup new
    BY <1>7 DEF Lists
  <2>4. last' \in {"none", "whole", "other"}
    BY <1>7 DEF Lists
  <2>5. loop' = "fetching" /\ Forgets /\ UNCHANGED <<sources, primed, filed, waiting, briefings, priced, restarts>>
    BY <1>7 DEF Lists
  <2> HIDE DEF new
  <2>6. asked' \in [Tasks -> SUBSET Articles] /\ handed' \subseteq Articles
    BY <2>1, <2>2, <2>3 DEF NewsTypeOK
  <2> QED BY <1>0, <2>1, <2>4, <2>5, <2>6 DEF Forgets, NewsTypeOK
<1>8. ASSUME NEW t \in Tasks, TaskStarts(t) \/ TaskFails(t) PROVE NewsTypeOK'
  BY <1>8 DEF TaskStarts, TaskFails, Ended, NewsTypeOK
<1>9. ASSUME NEW t \in Tasks, TaskAnswered(t) PROVE NewsTypeOK'
  <2>1. PICK kept \in BOOLEAN : Briefs(asked[t], kept)
    BY <1>9 DEF TaskAnswered
  <2>2. saved' \in BOOLEAN /\ shown' \subseteq Articles /\ onFile' \subseteq Articles
    BY <2>1 DEF Briefs, NewsTypeOK
  <2> QED BY <1>9, <2>2 DEF TaskAnswered, Ended, NewsTypeOK
<1>10. CASE PricesArrive
  BY <1>10 DEF PricesArrive, NewsTypeOK
<1>11. CASE Restart
  <2>1. briefedIds' \subseteq Articles
    BY <1>11, NewestAreListed DEF Restart, NewsTypeOK
  <2>2. restarts' \in 0..MaxRestarts
    BY <1>11, NewsAssumption DEF Restart, NewsTypeOK
  <2>3. asked' \in [Tasks -> SUBSET Articles] /\ waiting' \subseteq Tasks
    BY <1>11 DEF Restart
  <2> QED BY <1>0, <1>11, <2>1, <2>2, <2>3 DEF Restart, Forgets, NewsTypeOK
<1>12. CASE UNCHANGED vars
  BY <1>12 DEF vars, NewsTypeOK
<1> QED
  BY <1>2, <1>3, <1>4, <1>5, <1>6, <1>7, <1>8, <1>9, <1>10, <1>11, <1>12 DEF Next

\* The feeds, the cycle, the file, the tasks and the briefings are well typed.
THEOREM NewsTypeCorrect == Spec => []NewsTypeOK
BY NewsTypeInit, NewsTypeStep, PTL DEF Spec

-----------------------------------------------------------------------------
(* What the feeds show, and what a cycle gets to see of it.                *)

Numbers == 1..Len(published)

\* Everything the feeds show.
Windows == {a \in Numbers : published[a] \in Feeds /\ a \in Offered(published[a])}

\* What the cycle has read, and what it is going to read as things are.
Sight == fetched \cup {a \in Windows : published[a] >= unread}

\* What was handed to a task and is not among the briefed ids has enough later
\* articles beside it not to be listed.
Behind(S) == \A a \in (handed \ briefedIds) \cap S : Rank(a, S) >= Cap

\* What is read comes from the feeds that were read.
Places ==
  /\ handed \subseteq Numbers
  /\ {index, given} \subseteq {None} \cup Numbers
  /\ \A a \in fetched : a \in Numbers /\ published[a] \in Feeds /\ published[a] < unread
  /\ loop # "fetching" => unread \notin Feeds

\* The listing made last left behind what it did not list.
LeftBehind ==
  /\ last = "whole" => Behind(Windows)
  /\ last = "whole" /\ whole => Behind(Sight)

\* A cycle that reads every feed sees what is still shown of what it needs, and
\* no more than is shown later than any article.
SeesAll ==
  whole => /\ \A a \in Numbers : Rank(a, Sight) <= Rank(a, Windows)
           /\ \A a \in handed \cup fetched : a \in Windows => a \in Sight

\* After a whole cycle the index yields new articles only.
IndexIsNew ==
  /\ last = "whole" => primed
  /\ loop # "fetching" /\ whole => primed
  /\ last = "whole" /\ loop # "fetching" => given = None \/ given \notin handed

NewsInv ==
  /\ NewsTypeOK /\ Places
  /\ LeftBehind /\ SeesAll /\ IndexIsNew

-----------------------------------------------------------------------------
(* Counting what is seen.                                                  *)

LEMMA NumbersAreNumbers ==
  ASSUME NewsTypeOK
  PROVE  /\ Len(published) \in Nat /\ IsFiniteSet(Numbers)
         /\ \A a \in Numbers : a \in Nat /\ a <= Len(published)
         /\ Cap \in Nat \ {0} /\ Window \in Nat \ {0}
<1>1. Len(published) \in Nat
  BY DEF NewsTypeOK
<1> QED BY <1>1, FS_Interval, NewsAssumption DEF Numbers

LEMMA SightIsFinite ==
  ASSUME NewsTypeOK, Places
  PROVE  /\ Windows \subseteq Numbers /\ IsFiniteSet(Windows)
         /\ Sight \subseteq Numbers /\ IsFiniteSet(Sight)
<1>1. Windows \subseteq Numbers /\ Sight \subseteq Numbers
  BY DEF Windows, Sight, Places
<1> QED BY <1>1, NumbersAreNumbers, FS_Subset

\* One of the newest is before no other.
LEMMA LastRank ==
  ASSUME NEW S, NEW x, \A b \in S : ~(b > x) PROVE Rank(x, S) = 0
<1>1. Later(x, S) = {}
  BY DEF Later
<1> QED BY <1>1, FS_EmptySet DEF Rank

\* A publication takes nothing back that was left behind.
LEMMA BehindMoves ==
  ASSUME NEW S, IsFiniteSet(S), NEW H, H \subseteq Int,
         NEW x \in Int, x \notin S, \A a \in H : a < x,
         NEW gone \in SUBSET S, gone = {} \/ \E y : gone = {y},
         NEW n \in Int, \A a \in H \cap S : Rank(a, S) >= n
  PROVE  \A a \in H \cap ((S \ gone) \cup {x}) : Rank(a, (S \ gone) \cup {x}) >= n
<1> SUFFICES ASSUME NEW a \in H, a \in (S \ gone) \cup {x}
             PROVE  Rank(a, (S \ gone) \cup {x}) >= n
  OBVIOUS
<1>1. a \in Int /\ x > a /\ a \in S
  <2>1. a \in Int /\ a < x
    OBVIOUS
  <2>2. a # x
    BY <2>1
  <2> QED BY <2>1, <2>2
<1>2. Rank(a, S) \in Nat /\ Rank(a, S) >= n
  BY <1>1, RankIsNat
<1>3. Rank(a, (S \ gone) \cup {x}) \in {Rank(a, S), Rank(a, S) + 1}
  BY <1>1, RankMoves
<1> QED BY <1>2, <1>3

\* What a publication does to what is shown and to what is seen.
LEMMA PublicationShows ==
  ASSUME NewsTypeOK, Places, NEW f \in {Index} \cup Feeds,
         published' = Append(published, f), UNCHANGED <<fetched, unread>>,
         NEW x, x = Len(published) + 1
  PROVE  /\ Numbers' = Numbers \cup {x}
         /\ \A a \in Numbers : published'[a] = published[a]
         /\ f = Index => Windows' = Windows /\ Sight' = Sight
         /\ f # Index =>
              \E gone \in SUBSET Windows :
                /\ gone = {} \/ \E y : gone = {y}
                /\ Windows' = (Windows \ gone) \cup {x}
                /\ \/ Sight' = Sight
                   \/ gone \subseteq Sight /\ Sight' = (Sight \ gone) \cup {x}
<1>1. /\ Len(published') = x /\ published'[x] = f
      /\ \A a \in Numbers : published'[a] = published[a]
  BY AppendProperties DEF NewsTypeOK, Numbers
<1>2. Numbers' = Numbers \cup {x} /\ x \notin Numbers /\ x \in Nat /\ \A a \in Numbers : a < x
  <2>1. Len(published) \in Nat
    BY NumbersAreNumbers
  <2>2. Numbers' = 1..Len(published) + 1
    BY <1>1 DEF Numbers
  <2> QED BY <2>1, <2>2 DEF Numbers
<1>3. Of(f)' = Of(f) \cup {x} /\ \A g : g # f => Of(g)' = Of(g)
  <2>1. \A g : Of(g)' = {a \in Numbers' : published'[a] = g}
    BY DEF Of, Numbers
  <2>2. \A g : Of(g) = {a \in Numbers : published[a] = g}
    BY DEF Of, Numbers
  <2> QED BY <1>1, <1>2, <2>1, <2>2
<1>4. \A g : g # f => Offered(g)' = Offered(g)
  BY <1>3, Zenon DEF Offered
<1>5. \A a \in Numbers : (published[a] # f) => (a \in Windows' <=> a \in Windows)
  BY <1>1, <1>2, <1>4 DEF Windows
<1>6. \A a \in fetched : a \in Numbers /\ published[a] \in Feeds /\ published[a] < unread
  BY DEF Places
<1>7. x \notin fetched
  BY <1>2, <1>6
<1>8. Windows \subseteq Numbers /\ Windows' \subseteq Numbers \cup {x}
  BY <1>2 DEF Windows
<1>9. \A a \in Windows : published[a] \in Feeds
  BY DEF Windows
<1>10. Index \notin Feeds
  BY NewsAssumption DEF Index, Feeds
<1>11. Sight' = fetched \cup {a \in Windows' : published'[a] >= unread}
  BY DEF Sight
<1>12. CASE f = Index
  <2>1. Windows' = Windows
    <3>1. x \notin Windows'
      BY <1>1, <1>10, <1>12 DEF Windows
    <3>2. \A a \in Numbers : published[a] = f => a \notin Windows /\ a \notin Windows'
      BY <1>1, <1>10, <1>12 DEF Windows
    <3> QED BY <1>5, <1>8, <3>1, <3>2
  <2>2. Sight' = Sight
    BY <1>1, <1>8, <1>11, <2>1 DEF Sight
  <2> QED BY <1>1, <1>2, <1>12, <2>1, <2>2
<1>13. CASE f # Index
  <2>1. PICK gone \in SUBSET Offered(f) :
          /\ gone = {} \/ \E y : gone = {y}
          /\ Offered(f)' = (Offered(f) \ gone) \cup {x}
    <3>1. Of(f) \subseteq Numbers
      BY DEF Of, Numbers
    <3>2. IsFiniteSet(Of(f)) /\ Of(f) \subseteq Nat /\ \A a \in Of(f) : a < x
      BY <1>2, <3>1, NumbersAreNumbers, FS_Subset
    <3>3. Window \in Nat \ {0}
      BY NumbersAreNumbers
    <3>4. Offered(f) = Newest(Window, Of(f)) /\ Offered(f)' = Newest(Window, Of(f) \cup {x})
      BY <1>3, Zenon DEF Offered
    <3> DEFINE F == Of(f)
    <3>5. IsFiniteSet(F) /\ F \subseteq Nat /\ \A a \in F : a < x
      BY <3>2
    <3>6. x \in Nat
      BY <1>2
    <3> HIDE DEF F
    <3>7. \E gone \in SUBSET Newest(Window, F) :
            /\ gone = {} \/ \E y : gone = {y}
            /\ Newest(Window, F \cup {x}) = (Newest(Window, F) \ gone) \cup {x}
      BY ONLY <3>3, <3>5, <3>6, WindowMoves
    <3> QED BY <3>4, <3>7, Zenon DEF F
  <2>2. \A a \in Numbers : published[a] = f => (a \in Windows <=> a \in Offered(f))
                                             /\ (a \in Windows' <=> a \in Offered(f)')
    BY <1>1, <1>2, <1>13 DEF Windows
  <2>3. Offered(f) \subseteq Numbers /\ \A a \in Offered(f) : published[a] = f
    BY NewestAreListed DEF Offered, Of, Numbers
  <2>4. x \in Windows'
    BY <1>1, <1>2, <1>13, <2>1 DEF Windows
  <2>5. gone \in SUBSET Windows /\ \A y \in gone : published[y] = f
    BY <2>1, <2>2, <2>3
  <2>6. Windows' = (Windows \ gone) \cup {x}
    <3>1. \A a \in Numbers : a \in Windows' <=> a \in Windows /\ a \notin gone
      <4> TAKE a \in Numbers
      <4>1. CASE published[a] = f
        BY <1>2, <2>1, <2>2, <4>1
      <4>2. CASE published[a] # f
        BY <1>5, <2>5, <4>2
      <4> QED BY <4>1, <4>2
    <3> QED BY <1>2, <1>8, <2>4, <3>1
  <2>7. CASE f >= unread
    <3>1. gone \subseteq Sight
      BY <2>5, <2>7 DEF Sight
    <3>2. \A y \in gone : y \notin fetched
      <4>1. f \in Int /\ unread \in Int
        BY <1>13 DEF Feeds, NewsTypeOK
      <4> QED BY <1>6, <2>5, <2>7, <4>1
    <3>3. Sight' = (Sight \ gone) \cup {x}
      <4>1. \A a \in Numbers : a \in Sight' <=> a \in Sight /\ a \notin gone
        BY <1>1, <1>2, <1>11, <2>6, <3>2 DEF Sight
      <4>2. x \in Sight'
        BY <1>1, <1>11, <2>4, <2>7
      <4>3. Sight' \subseteq Numbers \cup {x} /\ Sight \subseteq Numbers
        BY <1>6, <1>8, <1>11 DEF Sight
      <4> QED BY <1>2, <4>1, <4>2, <4>3
    <3> QED BY <1>1, <1>2, <1>13, <2>1, <2>5, <2>6, <3>1, <3>3
  <2>8. CASE ~(f >= unread)
    <3>1. Sight' = Sight
      <4>1. \A a \in Numbers : a \in Sight' <=> a \in Sight
        BY <1>1, <1>2, <1>11, <2>5, <2>6, <2>8 DEF Sight
      <4>2. x \notin Sight'
        BY <1>1, <1>7, <1>11, <2>8
      <4>3. Sight' \subseteq Numbers \cup {x} /\ Sight \subseteq Numbers
        BY <1>6, <1>8, <1>11 DEF Sight
      <4> QED BY <1>2, <4>1, <4>2, <4>3
    <3> QED BY <1>1, <1>2, <1>13, <2>1, <2>5, <2>6, <3>1
  <2> QED BY <2>7, <2>8
<1> QED BY <1>12, <1>13

-----------------------------------------------------------------------------
(* The steps.                                                              *)

\* Where nothing is forgotten and nothing published, as long as a cycle lasts.
Unseen == <<published, index, primed, unread, fetched, given, whole, briefedIds, handed, last>>

LEMMA NothingSeen ==
  ASSUME NewsInv, UNCHANGED Unseen, loop' = loop \/ (loop = "filing" /\ loop' = "filed")
  PROVE  Places' /\ LeftBehind' /\ SeesAll' /\ IndexIsNew'
<1>1. UNCHANGED <<Numbers, Windows, Sight>>
  BY DEF Unseen, Numbers, Windows, Sight, Offered, Of
<1>2. \A S : Behind(S)' = Behind(S)
  BY DEF Unseen, Behind
<1>3. Places'
  BY <1>1 DEF NewsInv, Places, Unseen
<1>4. LeftBehind'
  BY <1>1 DEF NewsInv, LeftBehind, Behind, Unseen
<1>5. SeesAll'
  BY <1>1 DEF NewsInv, SeesAll, Unseen
<1>6. IndexIsNew'
  BY DEF NewsInv, IndexIsNew, Unseen
<1> QED BY <1>3, <1>4, <1>5, <1>6

\* A new cycle sees what is shown.
LEMMA NewCycleSeesAll ==
  ASSUME NewsInv, NewsTypeOK', Forgets, UNCHANGED published
  PROVE  /\ Windows' = Windows /\ Sight' = Windows /\ SeesAll' /\ Numbers' = Numbers
         /\ fetched' = {} /\ given' = None
<1>1. Windows' = Windows /\ Numbers' = Numbers
  BY DEF Windows, Offered, Of, Numbers
<1>2. unread' = 1 /\ fetched' = {} /\ given' = None
  BY DEF Forgets
<1>3. \A a \in Windows : published[a] >= 1
  BY DEF Windows, Feeds
<1>4. Sight' = Windows
  BY <1>1, <1>2, <1>3 DEF Sight
<1>5. \A a \in Numbers : Rank(a, Windows) <= Rank(a, Windows)
  BY SightIsFinite, RankIsNat DEF NewsInv
<1>6. SeesAll'
  BY <1>1, <1>4, <1>5 DEF SeesAll
<1> QED BY <1>1, <1>2, <1>4, <1>6

\* A publication, by a feed or by the index.
LEMMA PublicationHolds ==
  ASSUME NewsInv, NEW f \in {Index} \cup Feeds, published' = Append(published, f),
         UNCHANGED <<unread, fetched, briefedIds, handed, last>>,
         whole' = whole \/ ~whole'
  PROVE  /\ LeftBehind' /\ SeesAll'
         /\ Numbers' = Numbers \cup {Len(published) + 1}
         /\ \A a \in Numbers : published'[a] = published[a]
         /\ handed \subseteq Numbers /\ Len(published) + 1 \notin handed
<1> DEFINE x == Len(published) + 1
<1>1. NewsTypeOK /\ Places /\ handed \subseteq Numbers
  BY DEF NewsInv, Places
<1>2. x \in Int /\ x \notin Numbers /\ \A a \in Numbers : a \in Int /\ a < x
  BY <1>1, NumbersAreNumbers
<1>3. /\ Windows \subseteq Numbers /\ IsFiniteSet(Windows)
      /\ Sight \subseteq Numbers /\ IsFiniteSet(Sight)
  BY <1>1, SightIsFinite
<1> HIDE DEF x
<1>4. /\ Numbers' = Numbers \cup {x}
      /\ \A a \in Numbers : published'[a] = published[a]
      /\ f = Index => Windows' = Windows /\ Sight' = Sight
      /\ f # Index =>
           \E gone \in SUBSET Windows :
             /\ gone = {} \/ \E y : gone = {y}
             /\ Windows' = (Windows \ gone) \cup {x}
             /\ \/ Sight' = Sight
                \/ gone \subseteq Sight /\ Sight' = (Sight \ gone) \cup {x}
  BY <1>1, PublicationShows DEF x
<1> DEFINE H == handed \ briefedIds
<1>5. H \subseteq Int /\ \A a \in H : a < x
  BY <1>1, <1>2
<1>6. Cap \in Int
  BY <1>1, NumbersAreNumbers
<1>7. \A S : Behind(S) <=> \A a \in H \cap S : Rank(a, S) >= Cap
  BY DEF Behind
<1>8. Behind(Windows)' <=> \A a \in H \cap Windows' : Rank(a, Windows') >= Cap
  BY DEF Behind
<1>9. Behind(Sight)' <=> \A a \in H \cap Sight' : Rank(a, Sight') >= Cap
  BY DEF Behind
<1> HIDE DEF H
<1>10. CASE f = Index
  <2>1. Windows' = Windows /\ Sight' = Sight
    BY <1>4, <1>10
  <2>2. LeftBehind'
    BY <1>7, <1>8, <1>9, <2>1 DEF NewsInv, LeftBehind
  <2>3. SeesAll'
    <3>1. Rank(x, Sight) = 0 /\ Rank(x, Windows) \in Nat
      <4>1. \A b \in Sight : ~(b > x)
        BY <1>2, <1>3
      <4> QED BY <1>3, <4>1, LastRank, RankIsNat
    <3>2. Rank(x, Sight) <= Rank(x, Windows)
      BY <3>1
    <3> QED BY <1>4, <2>1, <3>2 DEF NewsInv, SeesAll
  <2> QED BY <1>1, <1>2, <1>4, <2>2, <2>3 DEF x
<1>11. CASE f # Index
  <2>1. PICK gone \in SUBSET Windows :
          /\ gone = {} \/ \E y : gone = {y}
          /\ Windows' = (Windows \ gone) \cup {x}
          /\ \/ Sight' = Sight
             \/ gone \subseteq Sight /\ Sight' = (Sight \ gone) \cup {x}
    BY <1>4, <1>11
  <2>2. x \notin Windows /\ x \notin Sight
    BY <1>2, <1>3
  <2>3. LeftBehind'
    <3>1. Behind(Windows) => Behind(Windows)'
      BY <1>2, <1>3, <1>5, <1>6, <1>7, <1>8, <2>1, <2>2, BehindMoves
    <3>2. Behind(Sight) => Behind(Sight)'
      <4>1. CASE Sight' = Sight
        BY <1>7, <1>9, <4>1
      <4>2. CASE gone \subseteq Sight /\ Sight' = (Sight \ gone) \cup {x}
        BY <1>2, <1>3, <1>5, <1>6, <1>7, <1>9, <2>1, <2>2, <4>2, BehindMoves
      <4> QED BY <2>1, <4>1, <4>2
    <3> QED BY <3>1, <3>2 DEF NewsInv, LeftBehind
  <2>4. SeesAll'
    <3> SUFFICES ASSUME whole'
                 PROVE  /\ \A a \in Numbers \cup {x} : Rank(a, Sight') <= Rank(a, Windows')
                        /\ \A a \in handed \cup fetched : a \in Windows' => a \in Sight'
      BY <1>4 DEF SeesAll
    <3>1. /\ \A a \in Numbers : Rank(a, Sight) <= Rank(a, Windows)
          /\ \A a \in handed \cup fetched : a \in Windows => a \in Sight
      BY DEF NewsInv, SeesAll
    <3>2. ASSUME NEW a \in Numbers PROVE Rank(a, Sight') <= Rank(a, Windows')
      <4>1. a \in Int /\ x > a
        BY <1>2
      <4>2. Rank(a, Windows') = IF \E y \in gone : y > a THEN Rank(a, Windows)
                                ELSE Rank(a, Windows) + 1
        BY <1>2, <1>3, <2>1, <2>2, <4>1, RankMoves
      <4>3. CASE Sight' = Sight
        BY <1>3, <3>1, <4>2, <4>3, RankIsNat
      <4>4. CASE gone \subseteq Sight /\ Sight' = (Sight \ gone) \cup {x}
        <5>1. Rank(a, Sight') = IF \E y \in gone : y > a THEN Rank(a, Sight)
                                ELSE Rank(a, Sight) + 1
          BY <1>2, <1>3, <2>1, <2>2, <4>1, <4>4, RankMoves
        <5> QED BY <1>3, <3>1, <4>2, <5>1, RankIsNat
      <4> QED BY <2>1, <4>3, <4>4
    <3>3. Rank(x, Sight') <= Rank(x, Windows')
      <4>1. \A b \in Sight' : ~(b > x)
        BY <1>2, <1>3, <2>1
      <4>2. \A b \in Windows' : ~(b > x)
        BY <1>2, <1>3, <2>1
      <4> QED BY <4>1, <4>2, LastRank
    <3>4. ASSUME NEW a \in handed \cup fetched, a \in Windows' PROVE a \in Sight'
      <4>1. a # x
        BY <1>1, <1>2 DEF Places
      <4> QED BY <2>1, <3>1, <3>4, <4>1
    <3> QED BY <3>2, <3>3, <3>4
  <2> QED BY <1>1, <1>2, <1>4, <2>3, <2>4 DEF x
<1> QED BY <1>10, <1>11

\* What every step below has to keep.
Kept == Places /\ LeftBehind /\ SeesAll /\ IndexIsNew

\* What was a number stays one, and stands for an article of the same feed.
LEMMA PlacesKept ==
  ASSUME Places, Numbers \subseteq Numbers', \A a \in Numbers : published'[a] = published[a],
         UNCHANGED <<handed, unread, fetched>>,
         {index', given'} \subseteq {None} \cup Numbers',
         loop' # "fetching" => unread \notin Feeds
  PROVE  Places'
BY DEF Places

\* A feed shows one article more.
LEMMA PublishHolds ==
  ASSUME NewsInv, NEW f \in Feeds, Publish(f) PROVE Kept'
<1> USE DEF reading, listing
<1>1. /\ published' = Append(published, f)
      /\ UNCHANGED <<unread, fetched, briefedIds, handed, last, whole, loop, given, index, primed>>
  BY DEF Publish
<1>2. /\ LeftBehind' /\ SeesAll'
      /\ Numbers' = Numbers \cup {Len(published) + 1}
      /\ \A a \in Numbers : published'[a] = published[a]
  BY <1>1, PublicationHolds
<1>3. {index', given'} \subseteq {None} \cup Numbers' /\ (loop' # "fetching" => unread \notin Feeds)
  BY <1>1, <1>2 DEF NewsInv, Places
<1>4. Places'
  BY <1>1, <1>2, <1>3, PlacesKept DEF NewsInv
<1>5. IndexIsNew'
  BY <1>1 DEF NewsInv, IndexIsNew
<1> QED BY <1>2, <1>4, <1>5 DEF Kept

\* A feed that is read was seen before it is.
LEMMA ReadFeedHolds ==
  ASSUME NewsInv, ReadFeed PROVE Kept'
<1>1. /\ unread \in Feeds /\ unread' = unread + 1 /\ unread \in Int
      /\ UNCHANGED <<published, index, loop, given, primed, briefedIds, handed, last>>
  BY DEF ReadFeed, sources, listing, Feeds
<1>2. loop = "fetching"
  BY DEF ReadFeed
<1>3. Windows' = Windows /\ Numbers' = Numbers
  BY <1>1 DEF Windows, Offered, Of, Numbers
<1>4. \A a \in Windows : published[a] \in Int
  BY DEF Windows, Feeds
<1>5. Offered(unread) = {a \in Windows : published[a] = unread}
  BY <1>1, NewestAreListed DEF Windows, Offered, Of, Numbers
<1>6. fetched' = fetched \/ fetched' = fetched \cup Offered(unread)
  BY DEF ReadFeed
<1>7. Places'
  <2>1. \A a \in fetched : a \in Numbers /\ published[a] \in Feeds /\ published[a] < unread
    BY DEF NewsInv, Places
  <2>2. \A a \in Offered(unread) : a \in Numbers /\ published[a] = unread
    BY <1>5 DEF Windows
  <2>3. \A a \in fetched' : a \in Numbers' /\ published'[a] \in Feeds /\ published'[a] < unread'
    <3> TAKE a \in fetched'
    <3>1. CASE a \in fetched
      <4>1. published[a] \in Int /\ published[a] < unread
        BY <2>1, <3>1 DEF Feeds
      <4> QED BY <1>1, <1>3, <2>1, <3>1, <4>1
    <3>2. CASE a \in Offered(unread)
      BY <1>1, <1>3, <2>2, <3>2
    <3> QED BY <1>6, <3>1, <3>2
  <2> QED BY <1>1, <1>2, <1>3, <2>3 DEF NewsInv, Places
<1>8. CASE whole'
  <2>1. whole /\ fetched' = fetched \cup Offered(unread)
    BY <1>8 DEF ReadFeed
  <2>2. Sight' = Sight
    <3>1. Sight' = fetched' \cup {a \in Windows : published[a] >= unread + 1}
      BY <1>1, <1>3 DEF Sight
    <3>2. \A a \in Windows : published[a] >= unread
                             <=> published[a] >= unread + 1 \/ published[a] = unread
      BY <1>1, <1>4
    <3> QED BY <1>5, <2>1, <3>1, <3>2 DEF Sight
  <2>3. \A S : Behind(S)' = Behind(S)
    BY <1>1 DEF Behind
  <2>4. LeftBehind'
    BY <1>1, <1>3, <2>1, <2>2 DEF NewsInv, LeftBehind, Behind
  <2>5. SeesAll'
    <3>1. \A a \in fetched' : a \in Windows' => a \in Sight'
      BY <2>1, <2>2 DEF Sight
    <3>2. \A a \in handed' : a \in Windows' => a \in Sight'
      BY <1>1, <1>3, <2>1, <2>2 DEF NewsInv, SeesAll
    <3>3. \A a \in Numbers' : Rank(a, Sight') <= Rank(a, Windows')
      BY <1>3, <2>1, <2>2 DEF NewsInv, SeesAll
    <3> QED BY <3>1, <3>2, <3>3 DEF SeesAll
  <2>6. IndexIsNew'
    BY <1>1, <1>2 DEF NewsInv, IndexIsNew
  <2> QED BY <1>7, <2>4, <2>5, <2>6 DEF Kept
<1>9. CASE ~whole'
  <2>1. LeftBehind'
    BY <1>1, <1>3, <1>9 DEF NewsInv, LeftBehind, Behind
  <2>2. SeesAll' /\ IndexIsNew'
    BY <1>1, <1>2, <1>9 DEF NewsInv, SeesAll, IndexIsNew
  <2> QED BY <1>7, <2>1, <2>2 DEF Kept
<1> QED BY <1>8, <1>9

\* The index yields an article that no feed shows.
LEMMA ReadIndexHolds ==
  ASSUME NewsInv, ReadIndex PROVE Kept'
<1>1. /\ loop = "fetching" /\ loop' = "filing" /\ unread \notin Feeds
      /\ UNCHANGED <<unread, fetched, briefedIds, handed, last>>
  BY DEF ReadIndex, listing
<1>2. ASSUME UNCHANGED sources, given' \in {None, index},
             whole' => whole /\ primed',
             last = "whole" => given' = None /\ primed'
      PROVE  Kept'
  <2>1. Windows' = Windows /\ Numbers' = Numbers /\ Sight' = Sight
    BY <1>1, <1>2 DEF sources, Windows, Offered, Of, Numbers, Sight
  <2>2. Places'
    BY <1>1, <1>2, <2>1 DEF NewsInv, Places, sources
  <2>3. LeftBehind'
    BY <1>1, <1>2, <2>1 DEF NewsInv, LeftBehind, Behind
  <2>4. SeesAll'
    BY <1>1, <1>2, <2>1 DEF NewsInv, SeesAll
  <2>5. IndexIsNew'
    BY <1>1, <1>2 DEF IndexIsNew
  <2> QED BY <2>2, <2>3, <2>4, <2>5 DEF Kept
<1>3. ASSUME published' = Append(published, Index),
             index' = Len(published) + 1, given' = Len(published) + 1,
             primed', whole' = whole
      PROVE  Kept'
  <2>1. /\ LeftBehind' /\ SeesAll'
        /\ Numbers' = Numbers \cup {Len(published) + 1}
        /\ \A a \in Numbers : published'[a] = published[a]
        /\ Len(published) + 1 \notin handed
    BY <1>1, <1>3, PublicationHolds
  <2>2. Places'
    BY <1>1, <1>3, <2>1, PlacesKept DEF NewsInv
  <2>3. IndexIsNew'
    BY <1>1, <1>3, <2>1 DEF IndexIsNew
  <2> QED BY <2>1, <2>2, <2>3 DEF Kept
<1>4. last = "whole" => primed
  BY DEF NewsInv, IndexIsNew
<1>5. CASE given' = None /\ whole' = (whole /\ primed) /\ UNCHANGED <<sources, primed>>
  <2>1. whole' => whole /\ primed'
    BY <1>5, Zenon
  <2> QED BY <1>2, <1>4, <1>5, <2>1
<1>6. CASE ~primed /\ given' = index /\ primed' = TRUE /\ UNCHANGED <<sources, whole>>
  BY <1>2, <1>4, <1>6
<1> QED BY <1>3, <1>5, <1>6, Zenon DEF ReadIndex, IndexYields

\* A cycle that ends early leaves the list alone.
LEMMA CycleFailsHolds ==
  ASSUME NewsInv, NewsTypeOK', CycleFails PROVE Kept'
<1>1. /\ Forgets /\ loop = "fetching" /\ loop' = loop
      /\ UNCHANGED <<published, index, primed, briefedIds, handed, last>>
  BY DEF CycleFails, sources, listing
<1>2. /\ Windows' = Windows /\ Sight' = Windows /\ SeesAll' /\ Numbers' = Numbers
      /\ fetched' = {} /\ given' = None
  BY <1>1, NewCycleSeesAll
<1>3. Places'
  BY <1>1, <1>2 DEF NewsInv, Places
<1>4. LeftBehind'
  BY <1>1, <1>2 DEF NewsInv, LeftBehind, Behind
<1>5. IndexIsNew'
  BY <1>1 DEF NewsInv, IndexIsNew
<1> QED BY <1>2, <1>3, <1>4, <1>5 DEF Kept

\* Memory and history after a restart.
LEMMA RestartHolds ==
  ASSUME NewsInv, NewsTypeOK', Restart PROVE Kept'
<1>1. /\ Forgets /\ loop' = "fetching" /\ last' = "none"
      /\ UNCHANGED <<published, index, handed>>
  BY DEF Restart, sources
<1>2. /\ Windows' = Windows /\ Sight' = Windows /\ SeesAll' /\ Numbers' = Numbers
      /\ fetched' = {} /\ given' = None
  BY <1>1, NewCycleSeesAll
<1>3. Places'
  BY <1>1, <1>2 DEF NewsInv, Places
<1>4. LeftBehind' /\ IndexIsNew'
  BY <1>1 DEF LeftBehind, IndexIsNew
<1> QED BY <1>2, <1>3, <1>4 DEF Kept

\* When the list is made, everything has been seen, and is fetched.
LEMMA AllIsFetched ==
  ASSUME NewsInv, loop = "filed" PROVE Sight = fetched
<1>1. unread \notin Feeds /\ unread \in 1..FeedCount + 1
  BY DEF NewsInv, Places, NewsTypeOK
<1>2. \A f \in Feeds : ~(f >= unread)
  BY <1>1, NewsAssumption DEF Feeds
<1> QED BY <1>2 DEF Sight, Windows

\* What is listed and was handed over before has its id among the briefed ones.
LEMMA ListedIsNew ==
  ASSUME NewsInv, loop = "filed", last = "whole", whole
  PROVE  (Listed \ briefedIds) \cap handed = {}
<1> SUFFICES ASSUME NEW a \in Listed, a \notin briefedIds, a \in handed PROVE FALSE
  OBVIOUS
<1>1. ~(given # None /\ a = given)
  BY DEF NewsInv, IndexIsNew
<1>2. a \in Newest(Cap, fetched) \/ a \in Newest(Cap - 1, fetched)
  BY <1>1 DEF Listed
<1>3. a \in fetched /\ (Rank(a, fetched) < Cap \/ Rank(a, fetched) < Cap - 1)
  BY <1>2 DEF Newest, Rank
<1>4. Sight = fetched
  BY AllIsFetched
<1>5. Rank(a, fetched) >= Cap
  BY <1>3, <1>4 DEF NewsInv, LeftBehind, Behind
<1>6. Rank(a, fetched) \in Nat /\ Cap \in Nat
  BY <1>4, SightIsFinite, RankIsNat, NumbersAreNumbers DEF NewsInv
<1> QED BY <1>3, <1>5, <1>6

\* The list leaves behind what is older than its end.
LEMMA ListsHolds ==
  ASSUME NewsInv, NewsTypeOK', Lists PROVE Kept'
<1> DEFINE new == Listed \ briefedIds
<1>1. /\ Forgets /\ loop = "filed" /\ loop' = "fetching"
      /\ briefedIds' = Listed /\ handed' = handed \cup new
      /\ last' = IF whole /\ given = None THEN "whole" ELSE "other"
      /\ UNCHANGED <<published, index, primed>>
  BY Zenon DEF Lists, Briefed, sources
<1>2. /\ Windows' = Windows /\ Sight' = Windows /\ SeesAll' /\ Numbers' = Numbers
      /\ fetched' = {} /\ given' = None
  BY <1>1, NewCycleSeesAll
<1>3. Listed \subseteq fetched \cup ({given} \ {None})
  BY NewestAreListed DEF Listed
<1>4. Places'
  <2>1. new \subseteq Numbers
    BY <1>3 DEF NewsInv, Places
  <2> HIDE DEF new
  <2> QED BY <1>1, <1>2, <2>1 DEF NewsInv, Places
<1>5. ASSUME last' = "whole" PROVE Behind(Windows)'
  <2>1. whole /\ given = None
    BY <1>1, <1>5
  <2>2. briefedIds' = Newest(Cap, fetched)
    BY <1>1, <2>1 DEF Listed
  <2> SUFFICES ASSUME NEW a \in Windows, a \in handed \cup new, a \notin Newest(Cap, fetched)
               PROVE  Rank(a, Windows) >= Cap
    BY <1>1, <1>2, <2>2 DEF Behind
  <2>3. a \in handed
    BY <2>1 DEF Listed
  <2>4. Sight = fetched
    BY <1>1, AllIsFetched
  <2>5. a \in fetched /\ Rank(a, fetched) <= Rank(a, Windows)
    <3>1. a \in Numbers
      BY DEF Windows
    <3> QED BY <2>1, <2>3, <2>4, <3>1 DEF NewsInv, SeesAll
  <2>6. ~(Rank(a, fetched) < Cap)
    BY <2>5 DEF Newest, Rank
  <2>7. Rank(a, fetched) \in Nat /\ Rank(a, Windows) \in Nat /\ Cap \in Nat
    BY <2>4, SightIsFinite, RankIsNat, NumbersAreNumbers DEF NewsInv
  <2> QED BY <2>5, <2>6, <2>7
<1>6. LeftBehind'
  BY <1>2, <1>5 DEF LeftBehind, Behind
<1>7. IndexIsNew'
  BY <1>1 DEF NewsInv, IndexIsNew
<1> QED BY <1>2, <1>4, <1>6, <1>7 DEF Kept

-----------------------------------------------------------------------------

LEMMA NewsInvInit == Init => NewsInv
<1> SUFFICES ASSUME Init PROVE NewsInv
  OBVIOUS
<1>1. NewsTypeOK
  BY NewsTypeInit
<1>2. handed = {} /\ fetched = {} /\ index = None /\ given = None /\ loop = "fetching"
  BY DEF Init
<1>3. Places
  BY <1>2 DEF Places
<1>4. Numbers = {}
  <2>1. Len(published) = 0
    BY DEF Init
  <2> QED BY <2>1 DEF Numbers
<1>5. LeftBehind /\ SeesAll /\ IndexIsNew
  BY <1>2, <1>4 DEF Init, LeftBehind, SeesAll, IndexIsNew
<1> QED BY <1>1, <1>3, <1>5 DEF NewsInv

LEMMA NewsInvStep == NewsInv /\ [Next]_vars => NewsInv'
<1> SUFFICES ASSUME NewsInv, [Next]_vars PROVE NewsInv'
  OBVIOUS
<1>1. NewsTypeOK'
  BY NewsTypeStep DEF NewsInv
<1> SUFFICES Kept'
  BY <1>1 DEF NewsInv, Kept
<1> USE DEF sources, reading, listing, tasks, briefings
<1>2. ASSUME UNCHANGED Unseen, loop' = loop \/ (loop = "filing" /\ loop' = "filed") PROVE Kept'
  BY <1>2, NothingSeen DEF Kept
<1>3. ASSUME NEW kept \in SUBSET Articles, Files(kept) PROVE Kept'
  BY <1>2, <1>3 DEF Files, Unseen
<1>4. ASSUME NEW t \in Tasks, TaskStarts(t) \/ TaskAnswered(t) \/ TaskFails(t) PROVE Kept'
  BY <1>2, <1>4 DEF TaskStarts, TaskAnswered, TaskFails, Unseen
<1>5. CASE PricesArrive
  BY <1>2, <1>5 DEF PricesArrive, Unseen
<1>6. CASE UNCHANGED vars
  BY <1>2, <1>6 DEF vars, Unseen
<1> QED
  BY <1>1, <1>3, <1>4, <1>5, <1>6, PublishHolds, ReadFeedHolds, ReadIndexHolds,
     CycleFailsHolds, ListsHolds, RestartHolds, Zenon DEF Next

LEMMA NewsInvHolds == Spec => []NewsInv
BY NewsInvInit, NewsInvStep, PTL DEF Spec

\* main.py:916: for any number of feeds, articles, tasks and restarts, any
\* window of a feed and any length of the list, a whole cycle briefs no article
\* that ever was, if the last listing was whole and without the index.
THEOREM NoneIsBriefedTwice == Spec => NothingIsBriefedTwice
<1>1. NewsInv /\ [Next]_vars => [last = "whole" /\ whole => ~BriefsAgain]_vars
  <2> SUFFICES ASSUME NewsInv, [Next]_vars, last = "whole", whole, NEW t \in Tasks
               PROVE  asked'[t] \cap handed \subseteq asked[t]
    BY DEF BriefsAgain
  <2>0. asked \in [Tasks -> SUBSET Articles]
    BY DEF NewsInv, NewsTypeOK
  <2>1. CASE Lists
    <3> DEFINE new == Listed \ briefedIds
    <3>1. asked' = asked \/ \E u \in Tasks : asked' = [asked EXCEPT ![u] = new]
      BY <2>1, Zenon DEF Lists
    <3>2. new \cap handed = {}
      BY <2>1, ListedIsNew DEF Lists
    <3> HIDE DEF new
    <3> QED BY <2>0, <3>1, <3>2
  <2>2. ASSUME NEW u \in Tasks, TaskStarts(u) \/ TaskAnswered(u) \/ TaskFails(u)
        PROVE  asked'[t] \cap handed \subseteq asked[t]
    BY <2>0, <2>2 DEF TaskStarts, TaskAnswered, TaskFails, Ended
  <2>3. CASE Restart
    BY <2>0, <2>3 DEF Restart
  <2>4. CASE asked' = asked
    BY <2>4
  <2> QED
    BY <2>1, <2>2, <2>3, <2>4
       DEF Next, Publish, ReadFeed, ReadIndex, CycleFails, Files, PricesArrive, vars, tasks
<1> QED
  BY <1>1, NewsInvHolds, PTL DEF Spec, NothingIsBriefedTwice

-----------------------------------------------------------------------------
(* The briefing.                                                           *)

\* A briefing that was saved is the one on file.
OnFileInv == saved => shown = onFile

LEMMA OnFileStep == OnFileInv /\ [Next]_vars => OnFileInv'
<1> SUFFICES ASSUME OnFileInv, [Next]_vars PROVE OnFileInv'
  OBVIOUS
<1> USE DEF OnFileInv, briefings
<1>1. ASSUME NEW t \in Tasks, TaskAnswered(t) PROVE OnFileInv'
  BY <1>1 DEF TaskAnswered, Briefs
<1>2. CASE Restart
  BY <1>2 DEF Restart
<1>3. CASE UNCHANGED briefings
  BY <1>3
<1> QED
  BY <1>1, <1>2, <1>3
     DEF Next, Publish, ReadFeed, ReadIndex, CycleFails, Files, Lists, TaskStarts, TaskFails,
         PricesArrive, vars

\* analyser.py:460: a restart brings back the briefing that was shown, for any
\* number of overlapping tasks, unless that one could not be saved.
THEOREM BriefingSurvives == Spec => RestartKeepsBriefing
<1>1. Init => OnFileInv
  BY DEF Init, OnFileInv
<1>2. OnFileInv /\ [Next]_vars => [saved /\ restarts' # restarts => shown' = shown]_vars
  <2> SUFFICES ASSUME OnFileInv, [Next]_vars, saved, restarts' # restarts PROVE shown' = shown
    OBVIOUS
  <2>1. CASE Restart
    BY <2>1 DEF Restart, OnFileInv
  <2>2. restarts' = restarts \/ Restart
    BY DEF Next, Publish, ReadFeed, ReadIndex, CycleFails, Files, Lists, TaskStarts,
           TaskAnswered, TaskFails, PricesArrive, vars
  <2> QED BY <2>1, <2>2
<1> QED BY <1>1, <1>2, OnFileStep, PTL DEF Spec, RestartKeepsBriefing
==============================================================================
