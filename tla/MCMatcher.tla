----------------------------- MODULE MCMatcher ------------------------------
(* Filters and topics of up to three levels: an ordinary name, a name that  *)
(* begins with $, and both wildcards, the # also where it means nothing.    *)
EXTENDS Matcher

UpTo(n, S) == UNION {[1..k -> S] : k \in 1..n}

Names == {"a", "$s"}
ShortFilters == UpTo(2, Names \cup {"+", "#"})
LongFilters == {<<"a", "a", "a">>, <<"+", "a", "#">>, <<"a", "#", "a">>, <<"#", "a", "+">>}
MixedFilters == ShortFilters \cup LongFilters
AllTopics == UpTo(3, Names)
Dollar == {"$s"}
=============================================================================
