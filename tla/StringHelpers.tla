---------------------------- MODULE StringHelpers ---------------------------
(***************************************************************************)
(* The string and path helpers of misc.c on strings as sequences of        *)
(* characters, in the way the code computes them: its indices, limits and  *)
(* comparisons.                                                            *)
(***************************************************************************)
EXTENDS Integers, Sequences, FiniteSets

CHARS(S, n) == UNION {[1..m -> S] : m \in 0..n}     \* strings of up to n characters
LargestOf(S) == CHOOSE m \in S : \A n \in S : n <= m
SmallestOf(S) == CHOOSE m \in S : \A n \in S : m <= n
At(s, ch) == {m \in 1..Len(s) : s[m] = ch}

count_chars(s, ch) == Cardinality(At(s, ch))

(* The loop runs while more characters are left than sub has, so that it   *)
(* does not look at the last place where sub fits.                         *)
count_substrs(s, sub) ==
  Cardinality({m \in 1..(Len(s) - Len(sub)) : SubSeq(s, m, m + Len(sub) - 1) = sub})

strdup_until(s, endchars) ==
  LET ends == {m \in 1..Len(s) : s[m] \in endchars}
  IN  IF ends = {} THEN s ELSE SubSeq(s, 1, SmallestOf(ends) - 1)

my_dirname(path) ==
  LET slashes == At(path, "/") \ {1}
  IN  CASE path = <<".">>   -> <<".", ".">>
        [] path = <<"/">>   -> <<"/">>
        [] path \notin {<<".">>, <<"/">>} /\ slashes # {} -> SubSeq(path, 1, LargestOf(slashes) - 1)
        [] OTHER            -> IF path[1] = "/" THEN <<"/">> ELSE <<".">>

(* The length without trailing slashes.                                    *)
TrimmedLen(s) == LargestOf({0} \cup {m \in 1..Len(s) : s[m] # "/"})

(* off: where the last component of the prefix starts.  It must be as long *)
(* as the component of the path that starts there.                         *)
path_starts_with_Strncmp(path, prefix) ==
  \A m \in 1..TrimmedLen(prefix) : m <= Len(path) /\ path[m] = prefix[m]
path_starts_with(path, prefix) ==
  LET prefix_len == TrimmedLen(prefix)
      off == LargestOf({0} \cup {m \in 1..prefix_len : prefix[m] = "/"})
      slashes == {m \in At(path, "/") : m > off}
      path_part_len == IF slashes # {} THEN SmallestOf(slashes) - off - 1 ELSE TrimmedLen(path) - off
  IN  /\ \A m \in 1..prefix_len : m <= Len(path) /\ path[m] = prefix[m]
      /\ prefix_len - off = path_part_len
=============================================================================
