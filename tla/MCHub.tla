--------------------------------- MODULE MCHub ---------------------------------
(* A server with two dimensions, two anchors of one hub, one of another.   *)
EXTENDS Hub, TLC

CONSTANTS s, overworld, nether, x, y, z

At(d) == [server |-> s, dimension |-> d]
MCAnchorGroup == [a \in Anchors |-> IF a = z THEN At(nether) ELSE At(overworld)]
MCAnchorHub == [a \in Anchors |-> IF a = z THEN "other" ELSE "global"]

MCSymmetry == Permutations(Players)

(* Messages, closures, an expiry and a deletion overlap two at a time, and  *)
(* one anchor is deleted.                                                  *)
Ends == Players \X Connections

TwoAtATime ==
    /\ Cardinality({e \in Ends : e[2] \in handling[e[1]]})
         + Cardinality({e \in Ends : socket[e[1]][e[2]] \in {"closing", "closed", "cleanup"}})
         + Cardinality({p \in Players : expiring.player = p})
         + Cardinality({a \in Anchors : anchors[a] = "doomed"}) <= 2
    /\ \A a \in Anchors \ {x} : anchors[a] \in {"unposed", "posed"}

(* What the client of a player who is in no hub shows is replaced when it   *)
(* joins one.                                                              *)
MCView == <<connectionVars, capacity, presence, members, anchors, leaving, joining, rest,
            [p \in Players |-> IF IsMember(p) THEN seen[p] ELSE Outside]>>
===============================================================================
