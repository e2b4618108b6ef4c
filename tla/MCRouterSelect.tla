--------------------------- MODULE MCRouterSelect ---------------------------
(***************************************************************************)
(* Three backends of two providers.  The setups: strict failover over a    *)
(* single tier and over two; affinity over two tiers with one backend of   *)
(* unknown caching; explore with measured speeds and a drained backend.    *)
(***************************************************************************)
EXTENDS RouterSelect

CONSTANTS b1, b2, b3, p1, p2

MCListed == <<b1, b2, b3>>
MCProvider == [b \in {b1, b2, b3} |-> IF b = b3 THEN p2 ELSE p1]

Plainly == [on |-> TRUE, tier |-> 1, weight |-> 1, output |-> 4, context |-> 8,
            score |-> 0, caching |-> "no"]
Setup(mode, affinity, of) ==
  [mode |-> mode, affinity |-> affinity, stats |-> TRUE, spill |-> 2, output |-> 4, of |-> of]

OneTier == Setup("failover", FALSE, [b \in Backends |-> Plainly])
TwoTiers == Setup("failover", FALSE,
  [b \in Backends |-> [Plainly EXCEPT !.tier = IF b = b1 THEN 2 ELSE 1,
                                      !.context = IF b = b2 THEN 3 ELSE 8]])
Affine == Setup("failover", TRUE,
  [b \in Backends |-> [Plainly EXCEPT !.tier = IF b = b1 THEN 1 ELSE 2,
                      !.caching = IF b = b1 THEN "yes" ELSE IF b = b2 THEN "auto" ELSE "no"]])
CacheSort == [OneTier EXCEPT !.of[b2].caching = "auto", !.of[b3].score = 1]
Explore == Setup("explore", FALSE,
  [b \in Backends |-> [Plainly EXCEPT !.tier = IF b = b1 THEN 2 ELSE 1,
                      !.weight = IF b = b2 THEN 0 ELSE 1, !.score = IF b = b3 THEN 2 ELSE 0]])
Unmeasured == [Explore EXCEPT !.stats = FALSE]

MCSetups == {OneTier, TwoTiers, Affine, CacheSort, Explore, Unmeasured}

Ask(order, fallbacks, sort, output, hour) ==
  [NoRequest EXCEPT !.order = order, !.fallbacks = fallbacks, !.sort = sort,
                    !.output = output, !.input = 2, !.key = TRUE, !.at.hour = hour]

MCRequests == { Ask(<<>>, TRUE, "none", 1, 12), Ask(<<>>, TRUE, "cache", 2, 12),
                Ask(<<p2>>, TRUE, "none", 1, 12), Ask(<<p1>>, FALSE, "speed", 1, 12),
                [Ask(<<p1, p2>>, TRUE, "speed", 1, 23) EXCEPT !.ignore = {p2}],
                Ask(<<>>, TRUE, "none", 5, 12) }

\* At night, over midnight, only b1 and b3.
MCSlots == << [on |-> FALSE, days |-> {}, from |-> 0, to |-> 23, only |-> {b2}],
              [on |-> TRUE, days |-> {0}, from |-> 22, to |-> 6, only |-> {b1, b3}] >>

MCLoads == { [b \in Backends |-> 0],
             [b \in Backends |-> IF b = b1 THEN 2 ELSE 0],
             [b \in Backends |-> IF b = b3 THEN 0 ELSE 1],
             [b \in Backends |-> IF b = b2 THEN 2 ELSE 1] }
=============================================================================
