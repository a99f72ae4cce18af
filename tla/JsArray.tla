------------------------------ MODULE JsArray -------------------------------
(***************************************************************************)
(* JavaScript array idioms of the code, as operators on sequences.         *)
(***************************************************************************)
EXTENDS Naturals, SequencesExt

(* array.splice(array.indexOf(x), 1), for an array whose entries are       *)
(* distinct (so that the first index of x is the only one).  When x is     *)
(* absent, indexOf is -1 and splice removes the LAST entry.                *)
SpliceOut(s, x) ==
    IF Contains(s, x)
    THEN RemoveAt(s, CHOOSE i \in DOMAIN s : s[i] = x)
    ELSE Front(s)
=============================================================================
