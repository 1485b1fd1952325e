----------------------------- MODULE MCSession -----------------------------
(* Instances of Session for TLC.  The first host only sends. *)
EXTENDS Session, TLC

\* The other's first output changes between one channel and two, and so moves the
\* second, to which the stream is pinned.
Growing == Here :> {{}}
        @@ There :> {{<<1, 1>>, <<2, 1>>}, {<<1, 1>>, <<1, 2>>, <<2, 1>>}}
PinnedToSecond == Here :> 2 @@ There :> None

\* The first output is plugged in and out, and the stream pinned to it.
Plugging == Here :> {{}}
         @@ There :> {{<<2, 1>>}, {<<1, 1>>, <<2, 1>>}}
PinnedToFirst == Here :> 1 @@ There :> None
=============================================================================
