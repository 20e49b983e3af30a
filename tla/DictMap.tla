------------------------------ MODULE DictMap ------------------------------
(***************************************************************************)
(* What the dictionaries of smilelib promise their callers: a finite set   *)
(* of key/value pairs, no two of which have the same key, together with    *)
(* the value the last call returned.  It has no heap, no buckets and no    *)
(* resizing; Int32Dict.tla is shown to implement it.                       *)
(***************************************************************************)
CONSTANTS Keys,    \* the keys a client uses
          Values,  \* the pointers a client stores
          NULL     \* the null pointer: never returned for a missing value by
                   \* accident, since a client may store it too

VARIABLES pairs,   \* the set of <<key, value>> pairs
          ret      \* what the last call returned

vars == <<pairs, ret>>

PairOf(k)  == {p \in pairs : p[1] = k}
Absent(k)  == PairOf(k) = {}

Init == pairs = {} /\ ret = TRUE

(* Add a new pair; fail when the key already exists.                        *)
Add(k, v) ==
  IF Absent(k)
    THEN pairs' = pairs \cup {<<k, v>>} /\ ret' = TRUE
    ELSE UNCHANGED pairs /\ ret' = FALSE

(* Create or update: TRUE when the key already existed.                     *)
SetValue(k, v) ==
  /\ pairs' = (pairs \ PairOf(k)) \cup {<<k, v>>}
  /\ ret' = ~Absent(k)

(* Update only: TRUE when the key existed.                                  *)
ReplaceValue(k, v) ==
  IF Absent(k)
    THEN UNCHANGED pairs /\ ret' = FALSE
    ELSE pairs' = (pairs \ PairOf(k)) \cup {<<k, v>>} /\ ret' = TRUE

Remove(k) ==
  /\ pairs' = pairs \ PairOf(k)
  /\ ret' = ~Absent(k)

GetValue(k) ==
  /\ UNCHANGED pairs
  /\ \/ Absent(k) /\ ret' = NULL
     \/ \E p \in PairOf(k) : ret' = p[2]

Clear == pairs' = {} /\ ret' = TRUE

Next ==
  \/ \E k \in Keys, v \in Values : Add(k, v) \/ SetValue(k, v) \/ ReplaceValue(k, v)
  \/ \E k \in Keys : Remove(k) \/ GetValue(k)
  \/ Clear

Spec == Init /\ [][Next]_vars
=============================================================================
