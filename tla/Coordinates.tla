---------------------------- MODULE Coordinates -----------------------------
(***************************************************************************)
(* Coordinates of a location: what CoordinateField makes of a number, and  *)
(* which locations the box of a map request finds (src/apps/locations).    *)
(* Numbers are decimals with more digits than the six the table stores;    *)
(* they are counted in units of the last digit sent, stored ones in units  *)
(* of the sixth.                                                           *)
(***************************************************************************)
EXTENDS Integers

CONSTANTS
    Grain,     \* units sent per unit stored: a power of ten
    Degree,    \* units stored per degree: 10^6
    MaxCoef    \* the largest number of max_digits digits: 10^9 - 1

\* What the settings of the fields are like.
DigitsOK ==
    /\ Grain \in Nat \ {0} /\ Degree \in Nat \ {0} /\ MaxCoef \in Nat
    /\ 180 * Degree <= MaxCoef

-----------------------------------------------------------------------------
Magnitude(x) == IF x < 0 THEN -x ELSE x

\* quantize() with ROUND_HALF_UP: to the nearest, and from the middle away from zero.
Quantize(x) ==
    LET m == (2 * Magnitude(x) + Grain) \div (2 * Grain) IN IF x < 0 THEN -m ELSE m

\* validate_precision: the context has max_digits digits, the rounded number must fit.
Fits(x) == Magnitude(Quantize(x)) <= MaxCoef

\* min_value and max_value are compared with what validate_precision returned.
Accepted(x, limit) ==
    /\ Fits(x)
    /\ -limit * Degree <= Quantize(x) /\ Quantize(x) <= limit * Degree

\* validate_bbox; the borders have as many digits as the client likes.
ValidBox(box) ==
    /\ -180 * Degree * Grain <= box.minLng /\ box.minLng <= box.maxLng
    /\ box.maxLng <= 180 * Degree * Grain
    /\ -90 * Degree * Grain <= box.minLat /\ box.minLat <= box.maxLat
    /\ box.maxLat <= 90 * Degree * Grain

\* The filters of the map: a location is on the map if its stored coordinates are in the box.
InBox(lng, lat, box) ==
    /\ box.minLng <= lng * Grain /\ lng * Grain <= box.maxLng
    /\ box.minLat <= lat * Grain /\ lat * Grain <= box.maxLat
=============================================================================
