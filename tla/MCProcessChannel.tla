--------------------------- MODULE MCProcessChannel ---------------------------
EXTENDS ProcessChannel

CONSTANTS s1, s2, s3, r1, r2

MCSends == {s1, s2, s3}
MCRecvs == {r1, r2}
MCSize == [c \in MCSends |-> CASE c = s1 -> 1 [] c = s2 -> 0 [] c = s3 -> 2]
\* frames one after the other, closes in the middle of a frame, and a payload in two parts
MCWorkloads == {{s1, s2, r1, r2}, {s1, r1, r2, CloseA}, {s1, r1, CloseA, CloseB}, {s3, r1, CloseA}}
=============================================================================
