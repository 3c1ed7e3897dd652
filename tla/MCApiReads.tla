----------------------------- MODULE MCApiReads -----------------------------
EXTENDS ApiReads

CONSTANTS l1, l2

\* Across the chunks of the retrospective and its end at hour 4 into the
\* archive, and a lookup in the archive only.
MCSpan == (l1 :> <<1, 6>>) @@ (l2 :> <<5, 5>>)
MCReaches == (l1 :> {"a", "c"}) @@ (l2 :> {"b", "x"})
MCLayout == <<<<"a", "b", "c">>, <<"c", "a", "b">>>>
\* As built, and with less, where a lookup is refused or waits for a slot.
MCLimits == {<<2, 2>>, <<1, 1>>, <<2, 1>>}
MCMasked == {<<"c", 1>>}
=============================================================================
