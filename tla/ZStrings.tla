-------------------------------- MODULE ZStrings --------------------------------
(***************************************************************************)
(* Strings that end with a nul: basic_zstring (zstring.hpp), which never   *)
(* computes its length, and basic_zstring_view (zstring_view.hpp).  A      *)
(* string in memory is the sequence of its characters from where it        *)
(* starts, with the nul and what may lie behind it; the characters are     *)
(* numbers, in the order of Traits::lt, and the nul is 0.                  *)
(***************************************************************************)
EXTENDS Integers, SequencesExt

\* zstring_find_term: the length of the string whose nul lies between min
\* and max.
FindTerm(str, min, max) ==
    LET first == SelectInSeq(str, LAMBDA c : c = 0)
    IN IF first > min /\ first <= max THEN first - 1 ELSE -1

\* The constructors from an array, and from a std::string of which size
\* characters are before the nul: <<>> when they throw.
FromArray(str) == IF FindTerm(str, 0, Len(str)) < 0 THEN <<>> ELSE <<str>>
FromString(str, size) == IF FindTerm(str, size, size + 1) < 0 THEN <<>> ELSE <<str>>

\* What a zstring says, and the same as a zstring_view.
Said(z) == SubSeq(z, 1, FindTerm(z, 0, Len(z)))

\* Fault: the end of the string is not looked for.
CompareUnended(z, other) ==
    LET Stops(i) == z[i] # other[i]
        i == CHOOSE i \in 1 .. Len(other) + 1 :
                 /\ i <= Len(other) => Stops(i)
                 /\ \A k \in 1 .. i - 1 : ~Stops(k)
    IN IF i > Len(other) THEN 0 ELSE IF other[i] < z[i] THEN 1 ELSE -1

\* basic_zstring::compare(other, other_size): it ends at the first nul of the
\* string or the first difference, at the latest behind the other.
Compare(z, other) ==
    LET Stops(i) == z[i] = 0 \/ z[i] # other[i]
        i == CHOOSE i \in 1 .. Len(other) + 1 :
                 /\ i <= Len(other) => Stops(i)
                 /\ \A k \in 1 .. i - 1 : ~Stops(k)
    IN IF i > Len(other) THEN IF z[i] = 0 THEN 0 ELSE 1
       ELSE IF z[i] = 0 THEN -1
       ELSE IF other[i] < z[i] THEN 1 ELSE -1

\* basic_zstring::compare(other), where both end with a nul.
CompareZ(z, other) ==
    LET i == CHOOSE i \in DOMAIN z :
                 /\ z[i] = 0 \/ other[i] = 0 \/ z[i] # other[i]
                 /\ \A k \in 1 .. i - 1 : z[k] # 0 /\ other[k] # 0 /\ z[k] = other[k]
    IN IF z[i] = 0 THEN IF other[i] = 0 THEN 0 ELSE -1
       ELSE IF other[i] = 0 THEN 1
       ELSE IF other[i] < z[i] THEN 1 ELSE -1

\* zstring_view::suffix: <<>> when it throws.
Suffix(z, pos) ==
    IF pos > Len(Said(z)) THEN <<>> ELSE <<SubSeq(z, pos + 1, Len(z))>>

===============================================================================
