------------------------------ MODULE LossyMap ------------------------------
(***************************************************************************)
(* The contents of a cache, for those who use it: a map that may forget.    *)
(* Whatever it is told to hold, it holds that or nothing, and whoever asks  *)
(* is told what it holds or nothing.                                        *)
(***************************************************************************)
CONSTANTS
    Keys,
    Values,
    Nothing         \* no value

VARIABLE content    \* what is remembered for each key

MapInit == content = [k \in Keys |-> Nothing]

\* content becomes new, but for keys that are forgotten on the way.
Becomes(new) ==
    /\ content' \in [Keys -> Values \cup {Nothing}]
    /\ \A k \in Keys : content'[k] \in {new[k], Nothing}

Written(k, v) == Becomes([content EXCEPT ![k] = v])

Erased(gone) == Becomes([k \in Keys |-> IF k \in gone THEN Nothing ELSE content[k]])

\* The answers to one who asks for k
Told(k) == {content[k], Nothing}
=============================================================================
