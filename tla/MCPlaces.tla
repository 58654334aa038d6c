------------------------------ MODULE MCPlaces ------------------------------
EXTENDS Places

CONSTANTS cafe, cafeteria, ca

\* Two spots whose differences have either sign and take up to four
\* characters of the encoding.
Home == <<1200, -77>>
Station == <<-31, 20004>>

MCSpots == {Home, Station}
MCFound == (cafe :> {Home, Station}) @@ (cafeteria :> {})

\* Eight points out, four points back, and nowhere to go.
MCRoad ==
    (<<Home, Station>> :> <<Home, <<1100, -93>>, <<1100, 0>>, <<900, 16>>, <<32, 1055>>,
                            <<-1, 19000>>, <<-31, 19999>>, Station>>)
    @@ (<<Station, Home>> :> <<Station, <<0, 0>>, <<1000, -100>>, Home>>)
    @@ (<<Home, Home>> :> <<Home, Home>>)
    @@ (<<Station, Station>> :> <<Station, Station>>)
=============================================================================
