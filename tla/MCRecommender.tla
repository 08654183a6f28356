----------------------------- MODULE MCRecommender -----------------------------
(* Small data sets for the programs of recsys/.                            *)
EXTENDS RecommenderCalls

MCScore(k) == [u \in User |-> [i \in Item |-> (i * (u + k)) % 3]]
MCSimilarity == [i \in Item |-> [j \in Item |-> ((i + j) % 2) + i * j]]
Rating(S) == [i \in S |-> 1 + (i % 2)]
\* One user has rated two items, one of them with 0; another's test is empty.
MCDataset(a, b, k) ==
    [train |-> [u \in User |-> IF u = 0 THEN (a :> 1) @@ (b :> 0) ELSE Rating({a, u})],
     test |-> [u \in User |-> IF u = 1 THEN <<>> ELSE Rating({b, 0})],
     score |-> MCScore(k), similarity |-> MCSimilarity]

MCOption(accelerate, measures, sizes) == [accelerate |-> accelerate, measures |-> measures, sizes |-> sizes]
Every == {"rating", "ranking", "coverage", "novelty", "diversity"}
MCEvaluations ==
    {[dataset |-> MCDataset(a, b, k), option |-> MCOption(FALSE, Every, sizes)] :
        a, b \in Item, k \in 1..2, sizes \in {<<1, 2>>, <<3, 2>>, <<2, 1>>}}
    \cup {[dataset |-> MCDataset(1, 2, 1), option |-> MCOption(TRUE, Every, sizes)] : sizes \in {<<1, 2>>, <<3, 2>>}}
    \cup {[dataset |-> MCDataset(0, 0, 1), option |-> MCOption(FALSE, {}, <<>>)]}

\* Two users and three items, in order and not, with and without gaps.
Pairs == <<<<0, 0>>, <<0, 1>>, <<0, 2>>, <<1, 0>>, <<1, 1>>, <<1, 2>>>>
ListOf(order, rating(_)) ==
    RatingList(2, 3, [k \in DOMAIN order |-> RatingRecord(Pairs[order[k]][1], Pairs[order[k]][2], rating(order[k]))])
MCRatingLists ==
    {ListOf(order, LAMBDA k : 6 + 6 * ((k * m) % 3)) :
        order \in UNION {SetToAllKPermutations(S) : S \in {{}, {2}, {1, 5}, {2, 4, 6}}}, m \in 1..2}
    \cup {ListOf(order, LAMBDA k : 6 + 6 * ((k * 2) % 3)) : order \in SetToAllKPermutations({1, 2, 5, 6})}
    \cup {ListOf(order, LAMBDA k : 6 + 6 * ((k * m) % 4)) : order \in {<<6, 1, 5, 2, 4, 3>>, <<3, 4, 2, 6, 1>>}, m \in 1..3}

\* Four ratings of three users and three items, in no order; one movie is
\* not rated, and one session is too short.
Raw(user, item, rating, time) == [user |-> user, item |-> item, rating |-> rating, time |-> time]
MCRaw == <<Raw(7, 20, 3, 40), Raw(5, 30, 4, 10), Raw(7, 10, 5, 20), Raw(7, 30, 1, 30)>>
Movie(id, title, date) == [id |-> id, title |-> title, date |-> date]
Titled(name, year) == <<Char(name), Paren, Number(year), Char(")")>>
DateOf(year) == <<Number(1), Dash, Char("Jan"), Dash, Number(year)>>
MCMovies ==
    <<Movie(10, Titled("a", 1999), DateOf(1999)), Movie(30, <<Char("b"), Paren>> \o Titled("c", 1995), DateOf(1995)),
      Movie(40, Titled("d", 1990), DateOf(1990)), Movie(20, Titled("e", 1995), DateOf(1995))>>
Unknown == Movie(20, <<Char("unknown")>>, <<>>)
MCNetflixMovies ==
    <<Movie(10, <<Char("a"), Char(","), Char("b")>>, <<Number(1999)>>), Movie(20, <<Char("c")>>, <<Number(1990)>>),
      Movie(30, <<Char("d")>>, <<Number(1990)>>)>>
MCNetflixFiles ==
    [f \in 1..3 |-> [item |-> 10 * f, lines |-> SelectSeq(MCRaw, LAMBDA r : r.item = 10 * f)]]
MCOcnFiles ==
    <<[date |-> 1, lines |-> <<Raw(9, 10, 6, 1)>>],
      [date |-> 2, lines |-> MCRaw], [date |-> 3, lines |-> <<Raw(7, 30, 6, 50)>>]>>
MCRawData ==
    {[kind |-> "100k", movies |-> [MCMovies EXCEPT ![4] = Unknown], ratings |-> MCRaw],
     [kind |-> "netflix", movies |-> MCNetflixMovies, ratings |-> MCNetflixFiles],
     [kind |-> "ocn", movies |-> <<>>, ratings |-> MCOcnFiles, from |-> 2, to |-> 3, threshold |-> 3]}
    \cup {[kind |-> kind, movies |-> MCMovies, ratings |-> MCRaw] : kind \in {"1m", "10m"}}
MCRatios == {<<1, 2>>, <<4, 5>>}
MCProbes ==
    {<<>>, <<[kind |-> "item", id |-> 20], [kind |-> "user", id |-> 7],
             [kind |-> "item", id |-> 30], [kind |-> "user", id |-> 5], [kind |-> "user", id |-> 7]>>}

\* What is learnt.  The sigmoid is a function of whole numbers to whole
\* numbers around 0 and 1.
MCSigmoid(x) == CASE x % 3 = 0 -> 2 [] x % 3 = 1 -> -1 [] OTHER -> 1
MCNormCoff(n) == n + 1

Features == <<<<1, 2>>, <<-3, 0>>, <<2, -1>>>>
DataWith(extra, more(_), n) == DataOf(2, extra, [i \in 1..n |-> Sample(Features[i], more(i))])
MCDatamodels ==
    {[kind |-> "plain", model |-> DataWith(<<>>, LAMBDA i : <<>>, n)] : n \in 0..3}
    \cup {[kind |-> "class", model |-> DataWith(<<2>>, LAMBDA i : <<i % 2>>, n)] : n \in 0..3}
    \cup {[kind |-> "value", model |-> DataWith(<<>>, LAMBDA i : <<i - 5>>, n)] : n \in 0..3}
    \cup {[kind |-> "target", model |-> DataWith(<<k>>, LAMBDA i : [j \in 1..k |-> i * j - 4], n)] : n \in 0..3, k \in 1..2}

\* Big-endian.
BigEndian(n) == Reverse(WriteBinary(n, Narrow))
ImageFile(n, rows, cols, magic) ==
    FlattenSeq(<<BigEndian(magic), BigEndian(n), BigEndian(rows), BigEndian(cols)>>)
    \o [k \in 1..n * rows * cols |-> (37 * k) % 100]
LabelFile(n, magic) == BigEndian(magic) \o BigEndian(n) \o [k \in 1..n |-> (3 * k) % 10]
MCPictures ==
    {[image |-> ImageFile(n, size[1], size[2], 2051), label |-> LabelFile(n, 2049)] :
        n \in 1..2, size \in {<<1, 1>>, <<2, 3>>, <<3, 1>>}}

MCNetworks ==
    RandomInits(<<2, 1>>, {-1, 1})
    \cup {net \in RandomInits(<<2, 2>>, {-1, 1}) : net.biases = <<<<1, -1>>>>}
    \cup {net \in RandomInits(<<1, 2, 1>>, {-1, 1}) : net.biases = <<<<1, 1>>, <<-1>>>>}
    \cup {Network(<<2, 2, 2>>, <<Matrix(2, 2, <<1, -1, 0, 1>>), Matrix(2, 2, <<-1, 1, 1, a>>)>>, <<<<1, 0>>, <<b, 1>>>>) :
              a, b \in {-1, 1}}
    \cup {Network(<<1, 1, 2, 2>>, <<Matrix(1, 1, <<1>>), Matrix(2, 1, <<1, -1>>), Matrix(2, 2, <<-1, 1, 1, a>>)>>,
                  <<<<0>>, <<1, 0>>, <<b, 1>>>>) : a, b \in {-1, 1}}
Labelled(dim, class, n) ==
    DataOf(dim, <<class>>, [i \in 1..n |-> Sample(SubSeq(Features[i], 1, dim), <<i % class>>)])
MCLabelledSamples == {Labelled(1, 1, 2), Labelled(2, 1, 2), Labelled(1, 2, 2), Labelled(2, 2, 2)}
BpOption(rate, lambda, every) == [learningRate |-> rate, lambda |-> lambda, iterationCheckStep |-> every, method |-> "simple"]
MCBpOptions == {BpOption(1, 1, 2), BpOption(2, 1, 0)}
\* A hidden unit, then two of them.
MCSharedTrainings ==
    {[net |-> Network(<<1, 1, 1>>, <<Matrix(1, 1, <<1>>), Matrix(1, 1, <<-1>>)>>, <<<<1>>, <<0>>>>),
      samples |-> Labelled(1, 1, 2), option |-> o] : o \in MCBpOptions}
    \cup {[net |-> Network(<<1, 2, 1>>, <<Matrix(2, 1, <<1, -1>>), Matrix(1, 2, <<-1, 1>>)>>, <<<<1, 1>>, <<-1>>>>),
           samples |-> Labelled(1, 1, 2), option |-> BpOption(2, 1, 0)]}

\* Two users of three items; one is not rated.
EncodedList == ListOf(<<1, 2, 4>>, LAMBDA k : k)
MCAutoEncoders ==
    {[list |-> EncodedList, codeType |-> codeType,
      model |-> LET n == IF codeType = "user" THEN 3 ELSE 2 IN
                AutoEncoderModel(n, hidden, Matrix(hidden, n, [k \in 1..hidden * n |-> ((m * k) % 3) - 1]), [k \in 1..hidden |-> m],
                                 Matrix(n, hidden, [k \in 1..hidden * n |-> 1 - (k % 2)]), [k \in 1..n |-> k - m],
                                 [s \in 1..5 - n |-> [k \in 1..hidden |-> 0]])] :
        codeType \in {"user", "item"}, hidden \in 1..2, m \in 1..2}
MCAutoEncoderOptions ==
    {[learningRate |-> rate, lambda |-> lambda, normalize |-> normalize, monitorStep |-> every, accelerate |-> FALSE] :
        rate \in 1..2, lambda \in 0..1, normalize \in BOOLEAN, every \in {0, 1}}

CodeOf(n, m) == [k \in 1..n |-> IF (k * m) % 5 < 3 THEN 1 ELSE 0]
MCCodePairs ==
    {<<v, w>> : v, w \in {CodeOf(3, m) : m \in 0..3}}
    \cup {<<CodeOf(n, m), [k \in 1..n |-> IF k % j = 0 THEN 1 ELSE 0]>> : n \in {31, 32, 33, 64}, m \in 0..2, j \in {1, 2, 65}}

FeatureOf(dim, m) == [x \in 0..2 |-> [d \in 1..dim |-> (((x + 1) * d * m) % 3) - 1]]
UserFeatures(dim, m) == [u \in 0..1 |-> FeatureOf(dim, m)[u]]
SvdParam(dim, lambda, userBias, itemBias, average, sigmoid) ==
    [dim |-> dim, userFeature |-> lambda, itemFeature |-> 1, userBias |-> userBias, itemBias |-> itemBias,
     useAverage |-> average, useSigmoid |-> sigmoid]
SvdOption(every, shuffle, rows, columns, random) ==
    [learningRate |-> 1, monitorStep |-> every, useRandomShuffle |-> shuffle, numUserBlock |-> rows, numItemBlock |-> columns,
     randomInit |-> random]
\* A model of two users and three items, all different.
SavedModel(param) ==
    SVDModel(3, [u \in 0..1 |-> [d \in 1..param.dim |-> IF d = u + 1 THEN 1 ELSE 0]],
             [i \in 0..2 |-> [d \in 1..param.dim |-> IF d = i THEN 1 ELSE 0]],
             IF UseUserBias(param) THEN [u \in 0..1 |-> u] ELSE <<>>, IF UseItemBias(param) THEN [i \in 0..2 |-> 1 - i] ELSE <<>>)
SvdTraining(order, param, o, m) ==
    [list |-> ListOf(order, LAMBDA k : k), param |-> param, option |-> o, users |-> UserFeatures(2, m),
     items |-> FeatureOf(2, 1), saved |-> SavedModel(param)]
MCSvdRestarts ==
    {SvdTraining(<<1, 2, 4>>, SvdParam(2, 1, 1, 0, average, FALSE), SvdOption(0, shuffle, 1, 2, FALSE), 2) :
        average \in BOOLEAN, shuffle \in BOOLEAN}
MCSvdTrainings ==
    {SvdTraining(<<1, 2, 4>>, SvdParam(2, 1, bias[1], bias[2], average, sigmoid), o, 2) :
        bias \in {<<-1, -1>>, <<1, -1>>, <<0, 1>>}, average \in BOOLEAN, sigmoid \in BOOLEAN,
        o \in {SvdOption(1, TRUE, 2, 1, TRUE), SvdOption(0, FALSE, 1, 2, TRUE)}}
    \cup {SvdTraining(<<6, 1, 5, 2>>, SvdParam(2, 0, 1, 2, FALSE, TRUE), SvdOption(1, TRUE, 2, 2, TRUE), 1)}
    \cup MCSvdRestarts
MCLearntModels ==
    {[list |-> ListOf(order, LAMBDA k : k), users |-> [u \in 0..1 |-> <<u, 1, m>>], items |-> [i \in 0..2 |-> <<i * m, 2, i>>]] :
        order \in {<<1, 2, 3, 4>>, <<6, 1, 5, 2>>, <<6, 5, 4>>}, m \in 1..2}
MCNeighborNumbers == 0..2
=============================================================================
