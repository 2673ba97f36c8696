------------------------------ MODULE SeenSet ------------------------------
(***************************************************************************)
(* The bounded "already seen" sets of the network manager: an OrderedSet   *)
(* (insertion-ordered, no duplicates) that, when it holds more than its    *)
(* limit, drops its oldest 10% (at least one entry) before the next add.   *)
(* Used for the server's staleUuids and floodedUuids and for the client's  *)
(* seenMessages; the three copies of the code are identical.               *)
(***************************************************************************)
EXTENDS Naturals, Sequences, SequencesExt

\* trimAmount = max(1, int(limit / 10))
TrimAmount(limit) == IF limit \div 10 > 1 THEN limit \div 10 ELSE 1

\* slip: trimming already at len(set) >= limit
TrimmedEarly(set, limit) ==
    IF Len(set) >= limit
    THEN SubSeq(set, TrimAmount(limit) + 1, Len(set))
    ELSE set

\* the OrderedSet slice set[trimAmount:], taken only when len(set) > limit
Trimmed(set, limit) ==
    IF Len(set) > limit
    THEN SubSeq(set, TrimAmount(limit) + 1, Len(set))
    ELSE set

\* slip: a plain list append in place of OrderedSet.add
AddBoundedList(set, x, limit) == Append(Trimmed(set, limit), x)

\* trim, then OrderedSet.add: an element already present keeps its place
AddBounded(set, x, limit) ==
    LET t == Trimmed(set, limit)
    IN  IF x \in ToSet(t) THEN t ELSE Append(t, x)

=============================================================================
