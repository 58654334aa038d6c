---------------------------- MODULE RouteService ----------------------------
(***************************************************************************)
(* src/frontend/src/utils/routeService.js: a route arrives as an encoded   *)
(* polyline, is decoded into points, and some of them become markers.      *)
(* Coordinates are the integers of the encoding, in units of 1e-5 degrees; *)
(* a character is the number it stands for (its code minus 63).            *)
(***************************************************************************)
EXTENDS Integers, Sequences, SequencesExt

-----------------------------------------------------------------------------
\* What the service sends (external): the differences of successive points,
\* latitude first, the sign in the lowest bit, five bits a character, lowest
\* first, and 32 added to every character but a number's last.
ZigZag(n) == IF n < 0 THEN -2 * n - 1 ELSE 2 * n

Chunks(n) ==
    LET chunks[k \in Nat] == IF k < 32 THEN <<k>> ELSE <<32 + (k % 32)>> \o chunks[k \div 32]
    IN  chunks[n]

Number(d) == Chunks(ZigZag(d))

Before(points, i) == IF i = 1 THEN <<0, 0>> ELSE points[i - 1]

Send(before, points, i) ==
    before \o Number(points[i][1] - Before(points, i)[1]) \o Number(points[i][2] - Before(points, i)[2])

Encode(points) ==
    LET sent[i \in 0..Len(points)] == IF i = 0 THEN <<>> ELSE Send(sent[i - 1], points, i)
    IN  sent[Len(points)]

\* decodePolyline.  The state of its loops: the bits of the number so far, the
\* weight of the next five (1 << shift), which of the two inner loops runs, the
\* sums, and the points so far.  The script's integers have 32 bits; no number
\* of a road needs more than 27 of them.
Decoding == [result |-> 0, weight |-> 1, loop |-> "lat", lat |-> 0, lng |-> 0, points |-> <<>>]

\* Mutant: the sign is dropped.
UnsignedOnly(result) == result \div 2

\* ~(result >> 1) is -(result >> 1) - 1.
Signed(result) == IF result % 2 = 1 THEN -(result \div 2) - 1 ELSE result \div 2

\* The end of an inner loop: the number is added to its sum, and the second one
\* completes a point.
AddNumber(s, result) ==
    IF s.loop = "lat" THEN [s EXCEPT !.result = 0, !.weight = 1, !.loop = "lng", !.lat = @ + Signed(result)]
    ELSE LET lng == s.lng + Signed(result) IN
         [s EXCEPT !.result = 0, !.weight = 1, !.loop = "lat", !.lng = lng,
                   !.points = Append(@, <<s.lat, lng>>)]

NextChar(s, b) ==
    LET result == s.result + (b % 32) * s.weight IN
    IF b >= 32 THEN [s EXCEPT !.result = result, !.weight = @ * 32] ELSE AddNumber(s, result)

\* The states after 0, 1, ... characters.
Decoder(encoded) ==
    LET after[i \in 0..Len(encoded)] ==
            IF i = 0 THEN Decoding ELSE NextChar(after[i - 1], encoded[i])
    IN  after

DecodePolyline(encoded) == Decoder(encoded)[Len(encoded)].points

-----------------------------------------------------------------------------
\* getRouteWaypoints: every step-th point, the last point excepted.
GetRouteWaypoints(coordinates, count) ==
    LET n == Len(coordinates)
        step == n \div (count + 1)
        kept == {i \in 1..count : i * step < n - 1}    \* 1..k for some k
    IN  IF n < 3 THEN <<>> ELSE [i \in kept |-> coordinates[i * step + 1]]
=============================================================================
