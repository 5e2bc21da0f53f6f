------------------------- MODULE MCRefreshPipeline -------------------------
(* Instances of RefreshPipeline for TLC.                                   *)
EXTENDS RefreshPipeline, TLC

CONSTANTS w1, w2, h1, h2, p1, p2, short, long, a, b, z, t1, t2

OneHost == [w \in {w1, w2} |-> h1]
TwoHosts == (w1 :> h1) @@ (w2 :> h2)
Alone == [w \in {w1} |-> h1]

\* The contents a and b share texts and repeat one; z is blank and has no chunk.
\* The long chunks of a have a text of its short ones.
MCChunks ==
    [p \in Profiles |->
        [c \in Contents |->
            CASE c = z -> <<>>
              [] c = a -> IF p = short THEN <<t1, t1, t2>> ELSE <<t2>>
              [] c = b -> <<t2, t1>>]]

Old == [profile |-> short, provider |-> p1]
NewProvider == [profile |-> short, provider |-> p2]
NewProfile == [profile |-> long, provider |-> p1]

\* The operator changes the provider, or the profile, or nothing.
OnlyOld == {Old}
OtherProvider == {Old, NewProvider}
AnyChange == {Old, NewProvider, NewProfile}
=============================================================================
