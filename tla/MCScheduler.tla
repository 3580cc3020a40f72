---------------------------- MODULE MCScheduler ----------------------------
(* Instances of Scheduler for TLC. *)
EXTENDS Scheduler, TLC

CONSTANTS n1, n2, workers

Spread  == [set |-> workers, strategy |-> "spread", memory |-> 1,
            ha |-> FALSE, pinned |-> NoNode]
Binpack == [Spread EXCEPT !.strategy = "binpack", !.memory = 2]
Fewer   == [Spread EXCEPT !.strategy = "fewer-vms"]
Robin   == [Spread EXCEPT !.strategy = "round-robin", !.ha = TRUE]
Fixed   == [Spread EXCEPT !.pinned = n1, !.memory = 5]
Alone   == [Spread EXCEPT !.set = NoSet]

AllClasses == {Spread, Binpack, Fewer, Robin, Fixed, Alone}

\* Every way of giving the requests these classes: the requests are symmetric.
OneEach(c1, c2, c3) ==
  {[r \in Requests |-> IF r = p[1] THEN c1 ELSE IF r = p[2] THEN c2 ELSE c3] :
     p \in {q \in Requests \X Requests : q[1] # q[2]}}

AllSpread == OneEach(Spread, Spread, Spread)

\* One set that is spread; classes that were edited between the requests of a
\* set; and a pinned machine and one of no set beside it.
Mixed == AllSpread \cup OneEach(Robin, Fixed, Alone)
                   \cup OneEach(Binpack, Fewer, Fixed)

AnyOrder == Permutations(Requests)

FourAndThree == (n1 :> 4 @@ n2 :> 3)
ByName == (n1 :> 1 @@ n2 :> 2)
=============================================================================
