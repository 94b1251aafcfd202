---------------------------- MODULE MCDiscovery ----------------------------
(* A season pack whose sidecars are marked by episode, by folder or not at  *)
(* all, a film in a folder of its own, and a film in a download folder.     *)
EXTENDS Discovery, TLC

F(folder, stem, suffix) == [folder |-> folder, stem |-> stem, suffix |-> suffix]

Root(stem, suffix) == F(<<>>, stem, suffix)

E1 == Root(<<"english", "club", "s01e01">>, ".mkv")
E2 == Root(<<"english", "club", "s01e02">>, ".mkv")
Film == Root(<<"1917", "2019">>, ".mkv")

\* Marked, and the first language word of its name is the show's.
Named == Root(<<"english", "club", "1x01", "rus">>, ".srt")
Signs == F(<<<<"signs", "rus">>, <<"eng", "sound">>>>, <<"english", "club", "s01e01">>, ".ass")
\* The second season's sidecar of the same episode number.
Late == Root(<<"english", "club", "s02e02", "eng">>, ".srt")
Untold == Root(<<"english", "club", "s01e02">>, ".mka")
Index == Root(<<"english", "club", "s01e02", "rhs">>, ".idx")
Sub == Companion(Index)
\* In no episode's name.
Unmarked == F(<<<<"subs">>>>, <<"2", "eng">>, ".srt")

FilmSub == Root(<<"1917", "2019", "rus">>, ".srt")
FilmSample == F(<<<<"proof", "1">>>>, <<"sample">>, ".mkv")
Other == F(<<<<"other">>>>, <<"2012", "1080p">>, ".mkv")
OtherSub == F(<<<<"other">>>>, <<"2012", "rus">>, ".srt")
Trailer == F(<<<<"trailers">>>>, <<"2012", "eng">>, ".srt")
Deep == F(<<<<"c">>, <<"b">>, <<"a">>>>, <<"1917", "eng">>, ".srt")

Pack == {E1, E2, Named, Signs, Late, Untold, Unmarked}
PackWithPair == {E1, E2, Untold, Index, Sub}
OwnFolder == {Film, FilmSub, FilmSample, Trailer, Deep}
SharedFolder == {Film, FilmSub, Other, OtherSub}

MCVideos == {E1, E2, Film}
Episode(n) == [season |-> 1, episodes |-> {n}]
MCEpisodeOf == (E1 :> Episode(1)) @@ (E2 :> Episode(2)) @@ (Film :> NoEpisode)
MCLayouts == {Pack, PackWithPair, OwnFolder, SharedFolder}
MCLeaving == {E1, E2, Sub, Untold}
MCArriving == {Other}
MCDeclares == (Untold :> "fr") @@ (Index :> "xx")

Modes(mode, named) == [mode |-> mode, nameTracks |-> named]
MCSettings == {Modes("off", FALSE), Modes("fallback", FALSE), Modes("fallback", TRUE),
               Modes("always", FALSE), Modes("verify", TRUE)}

Says(f, language, title) == [file |-> f, language |-> language, title |-> title]
Label == [name |-> "Label", qualifiers |-> <<>>]
MCItems == {Says(Named, "rus", Label), Says(Untold, Undetermined, NoTitle),
            Says(Untold, "eng", NoTitle), Says(FilmSub, "eng", Label),
            Says(Root(<<"passwd">>, ".srt"), "eng", Label)}

MCSxxEyy == [s01e01 |-> Episode(1), s01e02 |-> Episode(2),
             s02e02 |-> [season |-> 2, episodes |-> {2}]]
MCNxNN == ("1x01" :> Episode(1))
MCNumbered == {"s01e01", "s01e02", "s02e02", "1x01", "1917", "2019", "2012", "1080p", "1", "2"}
MCAlias == [english |-> "eng", eng |-> "eng", rus |-> "rus", fr |-> "fre"]
MCEpisodeTokens == {"s01e01", "s01e02", "s02e02", "1", "2", "1917", "2012", "2019"}

-----------------------------------------------------------------------------
(* What the files really are. *)

MCRelease == [f \in Files \cup Videos |->
    IF f \in Pack \cup PackWithPair THEN "club" ELSE IF f \in OwnFolder THEN "1917" ELSE "2012"]

Marked == (Named :> "rus") @@ (Signs :> "rus") @@ (Late :> "eng") @@ (Untold :> "fre")
       @@ (Unmarked :> "eng") @@ (FilmSub :> "rus") @@ (Deep :> "eng") @@ (OtherSub :> "rus")
       @@ (Trailer :> "eng")

MCSpoken == [f \in Files |-> IF f \in DOMAIN Marked THEN Marked[f] ELSE Undetermined]

\* What the theorems about such folders suppose of them.
ASSUME FoldersAreOrdinary ==
    CompleteRelease /\ AllOwnDescribed /\ StrangersAreSeen /\ NamesAreTrue /\ TagsAreTrue
=============================================================================
