---------------------------- MODULE MCEstablish ----------------------------
(* An instance of Establish for TLC.                                       *)
EXTENDS Establish, TLC

CONSTANTS c1, c2, c3, w1, i1, i2, r1, r2,  \* Handshake objects
          kc, kx, ks, kt                   \* static keys

MCStatic == (c1 :> kc) @@ (c2 :> kc) @@ (c3 :> kx) @@ (w1 :> ks)
         @@ (i1 :> kc) @@ (i2 :> kc) @@ (r1 :> ks) @@ (r2 :> kt)

(* c2 has pinned another server than w1, r2 another client than i1 and i2. *)
MCExpected == (c1 :> ks) @@ (c2 :> kt) @@ (c3 :> ks) @@ (w1 :> NoKey)
           @@ (i1 :> ks) @@ (i2 :> NoKey) @@ (r1 :> NoKey) @@ (r2 :> kx)

Pair(c) == (c :> w1) @@ (w1 :> c)
MCCasts == { Pair(c1), Pair(c2), Pair(c3),
             (c1 :> Stranger) @@ (w1 :> Stranger),
             [h \in {i1, i2, r1, r2} |-> Direct] }
=============================================================================
