------------------------------ MODULE Preparation ------------------------------
(***************************************************************************)
(* recsys/project: what the data sets of MovieLens, Netflix and the OCN    *)
(* become before any recommender sees them.  Users and items get numbers   *)
(* from 0, movies are listed by year, and the ratings are split into those *)
(* to train with and those to test with, by a random shuffle of all of     *)
(* them, or of each user's.                                                *)
(*                                                                         *)
(* A data set's rating is [user, item, rating, time], in the order of the  *)
(* files; a movie's line has fields that are sequences of tokens.  Dates   *)
(* and times are numbers already.  std::sort and QuickSortMT may put equal *)
(* elements in any order: here they stay as they were.                     *)
(***************************************************************************)
EXTENDS Ratings

Paren == Char("(")
Dash  == Char("-")

ByTime(ratings) == SortSeq(ratings, LAMBDA r, s : r.time < s.time)
ByUserAndItem(ratings) ==
    SortSeq(ratings, LAMBDA r, s : r.user < s.user \/ (r.user = s.user /\ r.item < s.item))
ByYear(movies) == SortSeq(movies, LAMBDA m, n : m.year < n.year)

FirstAt(s, token) == SelectInSeq(s, LAMBDA t : t = token)
LastAt(s, token) == SelectLastInSeq(s, LAMBDA t : t = token)

-----------------------------------------------------------------------------
(* Reading movies.  The year is in a field of its own, or the title ends   *)
(* with it in parentheses.                                                 *)

Title100K(title) ==
    IF title = <<Char("unknown")>> THEN title ELSE SubSeq(title, 1, FirstAt(title, Paren) - 1)
Year100K(date) == IF date = <<>> THEN 9999 ELSE date[LastAt(date, Dash) + 1].value

Title1M(title) == SubSeq(title, 1, LastAt(title, Paren) - 1)
Year1M(title) == title[LastAt(title, Paren) + 1].value

Title10M(title) == Title1M(title)
Year10M(title) == Year1M(title)

ItemInfo100K(lines) ==
    ByYear([i \in DOMAIN lines |->
        [id |-> lines[i].id, title |-> Title100K(lines[i].title), year |-> Year100K(lines[i].date)]])
ItemInfo1M(lines) ==
    ByYear([i \in DOMAIN lines |->
        [id |-> lines[i].id, title |-> Title1M(lines[i].title), year |-> Year1M(lines[i].title)]])
ItemInfo10M(lines) ==
    ByYear([i \in DOMAIN lines |->
        [id |-> lines[i].id, title |-> Title10M(lines[i].title), year |-> Year10M(lines[i].title)]])

Ratings100K(lines) == ByTime(lines)
Ratings1M(lines) == ByTime(lines)
Ratings10M(lines) == ByTime(lines)

\* Netflix's lines are split at commas: a title ends at its first one.
NetflixItemInfo(lines) ==
    ByYear([i \in DOMAIN lines |->
        LET comma == FirstAt(lines[i].title, Char(","))
        IN [id |-> lines[i].id, year |-> Last(lines[i].date).value,
            title |-> IF comma = 0 THEN lines[i].title ELSE SubSeq(lines[i].title, 1, comma - 1)]])

\* Every item's ratings are a file of their own.
NetflixRatings(files) ==
    ByTime(FlattenSeq([f \in DOMAIN files |->
        [k \in DOMAIN files[f].lines |->
            [user |-> files[f].lines[k].user, item |-> files[f].item,
             rating |-> files[f].lines[k].rating, time |-> files[f].lines[k].time]]]))

\* The sessions of the files between two dates that were long enough.
OcnSessions(files, from, to, threshold) ==
    FlattenSeq([f \in DOMAIN files |->
        IF files[f].date \in from..to
        THEN SelectSeq(files[f].lines, LAMBDA session : session.rating >= threshold) ELSE <<>>])

-----------------------------------------------------------------------------
(* Numbers for users and items, in the order of their first ratings.       *)

IdMapping(ids) ==
    FoldLeft(LAMBDA m, x : IF x \in DOMAIN m THEN m ELSE m @@ (x :> Cardinality(DOMAIN m)), <<>>, ids)

UserIds(ratings) == IdMapping([i \in DOMAIN ratings |-> ratings[i].user])
ItemIds(ratings) == IdMapping([i \in DOMAIN ratings |-> ratings[i].item])

MovielensUserIds(ratings) == UserIds(ratings)
MovielensItemIds(ratings) == ItemIds(ratings)
NetflixUserIds(ratings) == UserIds(ratings)
NetflixItemIds(ratings) == ItemIds(ratings)

\* The OCN's ratings have the new numbers from the start.
OcnRatings(sessions) ==
    [i \in DOMAIN sessions |-> [sessions[i] EXCEPT !.user = UserIds(sessions)[@], !.item = ItemIds(sessions)[@]]]
OcnUserIds(sessions) == UserIds(sessions)
OcnItemIds(sessions) == ItemIds(sessions)

\* movie.txt lists the movies that were rated.
MovieData(movies, itemIds) ==
    LET valid == SelectSeq(movies, LAMBDA m : m.id \in DOMAIN itemIds)
    IN [count |-> Len(valid), rows |-> [i \in DOMAIN valid |-> [valid[i] EXCEPT !.id = itemIds[@]]]]

MovielensMovieData(movies, itemIds) == MovieData(movies, itemIds)
NetflixMovieData(movies, itemIds) == MovieData(movies, itemIds)

\* A line with the numbers of ratings, users and items, and the ratings.
RatingFile(ratings, userIds, itemIds) ==
    WriteLine(<<Len(ratings), Cardinality(DOMAIN userIds), Cardinality(DOMAIN itemIds)>>)
    \o FlattenSeq([i \in DOMAIN ratings |->
           WriteLine(<<userIds[ratings[i].user], itemIds[ratings[i].item], ratings[i].rating, ratings[i].time>>)])

-----------------------------------------------------------------------------
(* Splitting.                                                              *)

\* Element i is exchanged with one not before it.
RandomShuffle(s, picks) ==
    FoldLeft(LAMBDA t, i : [t EXCEPT ![i] = t[picks[i]], ![picks[i]] = t[i]], s, [i \in DOMAIN s |-> i])

\* What may be drawn when the elements from i to limit[i] are shuffled.
Picks(limit) == {p \in [DOMAIN limit -> DOMAIN limit] : \A i \in DOMAIN limit : p[i] \in i..limit[i]}

SplitPos(n, ratio) == (n * ratio[1]) \div ratio[2]

AllLimit(ratings) == [i \in DOMAIN ratings |-> Len(ratings)]

SplitAll(ratings, ratio, picks) ==
    LET shuffled == RandomShuffle(ratings, picks)
        pos == SplitPos(Len(ratings), ratio)
    IN [train |-> ByTime(SubSeq(shuffled, 1, pos)), test |-> ByTime(SubSeq(shuffled, pos + 1, Len(shuffled)))]

RunEnd(sorted, i) == Max({j \in DOMAIN sorted : sorted[j].user = sorted[i].user})
RunBegin(sorted, i) == Min({j \in DOMAIN sorted : sorted[j].user = sorted[i].user})

UserLimit(ratings) == LET sorted == ByUserAndItem(ratings) IN [i \in DOMAIN sorted |-> RunEnd(sorted, i)]

\* Mutant of SplitUser: the position is not counted from the user's first rating.
SplitUserFromStart(ratings, ratio, picks) ==
    LET sorted == RandomShuffle(ByUserAndItem(ratings), picks)
        early(i) == i - 1 < SplitPos(RunEnd(sorted, i) - RunBegin(sorted, i) + 1, ratio)
        pick(test) == LET at == SelectSeq([i \in DOMAIN sorted |-> i], LAMBDA i : early(i) # test)
                      IN [k \in DOMAIN at |-> sorted[at[k]]]
    IN [train |-> pick(FALSE), test |-> pick(TRUE)]

SplitUser(ratings, ratio, picks) ==
    LET sorted == RandomShuffle(ByUserAndItem(ratings), picks)
        early(i) == i - RunBegin(sorted, i) < SplitPos(RunEnd(sorted, i) - RunBegin(sorted, i) + 1, ratio)
        pick(test) == LET at == SelectSeq([i \in DOMAIN sorted |-> i], LAMBDA i : early(i) # test)
                      IN [k \in DOMAIN at |-> sorted[at[k]]]
    IN [train |-> pick(FALSE), test |-> pick(TRUE)]

\* The lines of probe.txt: an item, then users who rated it.
TestRatingSet(probe) ==
    FoldLeft(LAMBDA s, line : IF line.kind = "item" THEN [s EXCEPT !.item = line.id]
                              ELSE [s EXCEPT !.set = @ \cup {<<line.id, s.item>>}],
             [set |-> {}, item |-> -1], probe).set

IsTestRating(r, probe) == <<r.user, r.item>> \in TestRatingSet(probe)

SplitProbe(ratings, probe) ==
    [train |-> SelectSeq(ratings, LAMBDA r : ~IsTestRating(r, probe)),
     test |-> SelectSeq(ratings, LAMBDA r : IsTestRating(r, probe))]

-----------------------------------------------------------------------------
(* Prepare.  A split is [method, ratio, picks, probe].                     *)

MovielensSplitAll(ratings, split) == SplitAll(ratings, split.ratio, split.picks)
MovielensSplitUser(ratings, split) == SplitUser(ratings, split.ratio, split.picks)
NetflixSplitAll(ratings, split) == SplitAll(ratings, split.ratio, split.picks)
NetflixSplitUser(ratings, split) == SplitUser(ratings, split.ratio, split.picks)
OcnSplitAll(ratings, split) == SplitAll(ratings, split.ratio, split.picks)
OcnSplitUser(ratings, split) == SplitUser(ratings, split.ratio, split.picks)

\* rating.txt, rating_train.txt and rating_test.txt.
RatingFiles(ratings, parts, userIds, itemIds) ==
    [all |-> RatingFile(ratings, userIds, itemIds),
     train |-> RatingFile(parts.train, userIds, itemIds), test |-> RatingFile(parts.test, userIds, itemIds)]

MovielensRatingData(ratings, userIds, itemIds, split) ==
    RatingFiles(ratings, CASE split.method = "byAll" -> MovielensSplitAll(ratings, split)
                           [] split.method = "byUser" -> MovielensSplitUser(ratings, split), userIds, itemIds)

NetflixRatingData(ratings, userIds, itemIds, split) ==
    RatingFiles(ratings, CASE split.method = "byProbe" -> SplitProbe(ratings, split.probe)
                           [] split.method = "byAll" -> NetflixSplitAll(ratings, split)
                           [] split.method = "byUser" -> NetflixSplitUser(ratings, split), userIds, itemIds)

Itself(n) == [id \in Ids(n) |-> id]

OcnRatingData(ratings, numUser, numItem, split) ==
    RatingFiles(ratings, CASE split.method = "byAll" -> OcnSplitAll(ratings, split)
                           [] split.method = "byUser" -> OcnSplitUser(ratings, split), Itself(numUser), Itself(numItem))

MovielensPrepare(input, split) ==
    LET movies == CASE input.kind = "100k" -> ItemInfo100K(input.movies)
                    [] input.kind = "1m" -> ItemInfo1M(input.movies)
                    [] input.kind = "10m" -> ItemInfo10M(input.movies)
        ratings == CASE input.kind = "100k" -> Ratings100K(input.ratings)
                     [] input.kind = "1m" -> Ratings1M(input.ratings)
                     [] input.kind = "10m" -> Ratings10M(input.ratings)
        userIds == MovielensUserIds(ratings)
        itemIds == MovielensItemIds(ratings)
    IN [users |-> userIds, items |-> itemIds, movies |-> MovielensMovieData(movies, itemIds),
        files |-> MovielensRatingData(ratings, userIds, itemIds, split)]

NetflixPrepare(input, split) ==
    LET ratings == NetflixRatings(input.ratings)
        userIds == NetflixUserIds(ratings)
        itemIds == NetflixItemIds(ratings)
    IN [users |-> userIds, items |-> itemIds, movies |-> NetflixMovieData(NetflixItemInfo(input.movies), itemIds),
        files |-> NetflixRatingData(ratings, userIds, itemIds, split)]

\* There are no movies to list.
OcnPrepare(input, split) ==
    LET sessions == OcnSessions(input.ratings, input.from, input.to, input.threshold)
        userIds == OcnUserIds(sessions)
        itemIds == OcnItemIds(sessions)
    IN [users |-> userIds, items |-> itemIds, movies |-> [count |-> 0, rows |-> <<>>],
        files |-> OcnRatingData(OcnRatings(sessions), Cardinality(DOMAIN userIds), Cardinality(DOMAIN itemIds), split)]

\* What is in rating.txt, in its order, before numbers are given.
RawRatings(input) ==
    CASE input.kind \in {"100k", "1m", "10m"} -> ByTime(input.ratings)
      [] input.kind = "netflix" -> NetflixRatings(input.ratings)
      [] input.kind = "ocn" -> OcnSessions(input.ratings, input.from, input.to, input.threshold)

Prepare(input, split) ==
    CASE input.kind \in {"100k", "1m", "10m"} -> MovielensPrepare(input, split)
      [] input.kind = "netflix" -> NetflixPrepare(input, split)
      [] input.kind = "ocn" -> OcnPrepare(input, split)
=============================================================================
