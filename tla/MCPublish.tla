------------------------------ MODULE MCPublish ------------------------------
EXTENDS Publish

\* f is a finding that an edit turns into g (same topic, nearby, another
\* fingerprint); o is the same concern again, outside the diff; x is a
\* separate finding, reported twice at the second head; y is soon fixed.
CONSTANTS f, g, o, x, y
MCHeads == 1..2
MCReport == <<<<f, o, x, y>>, <<x, x, g, o>>>>
MCCommentable == <<{f, x, y}, {g, x}>>
\* No list fits into the summary at the second head.
MCRoom == <<2, 0>>
MCNear == {<<p, q>> \in {f, g, o} \X {f, g, o} : p # q}
=============================================================================
