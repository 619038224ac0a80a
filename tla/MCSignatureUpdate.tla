--------------------------- MODULE MCSignatureUpdate ---------------------------
EXTENDS SignatureUpdate, TLC

CONSTANTS v1, v2

\* Two published category files: v2 drops the "ads" category and
\* renumbers "games".
MCTagIndex == (v1 :> ("ads" :> 1 @@ "games" :> 2)) @@ (v2 :> ("games" :> 1))

\* 10-ads.conf lists example suffix "y"; 20-games.conf lists "x.y".
AdsFile == [tag |-> "ads", doms |-> {<<"y">>}]
GamesFile == [tag |-> "games", doms |-> {<<"x", "y">>}]

MCDotFiles == {AdsFile, GamesFile}

MCRemovableGames == {GamesFile}

MCRemovableAll == MCDotFiles

MCInitFiles == {"absent", v1}

\* A domain under each listing, one under a listed parent only, and one
\* that nothing lists.
MCQueries == {<<"w", "x", "y">>, <<"w", "y">>, <<"y">>, <<"w">>}

====
