---------------------------- MODULE RouterSelect ----------------------------
(***************************************************************************)
(* The fallback list of one model: select_backends() of router.py, with    *)
(* the time slots (time_routing.py) that filter it and the cache warmth    *)
(* and in-flight counts (stats.py) that order it.                          *)
(*                                                                         *)
(* The caller consumes the generator in one go, so nothing but the clock   *)
(* runs beside it; but the clock is read again at every _routable(), and a *)
(* cooldown or an open circuit may end between two of them.  One step is   *)
(* one pass of questions over the candidates.  Within a pass the candidates*)
(* are asked at once: each is asked once per pass, and Elapse may end any  *)
(* set of exclusions between two passes.                                   *)
(***************************************************************************)
EXTENDS Integers, FiniteSets, SequencesExt

CONSTANTS
  Listed,           \* the model's backends, in the order of the config
  Provider,         \* Provider[b]: whose backend b is
  Setups,           \* configurations: see SetupsAssumption
  Requests,         \* what callers ask for
  Slots,            \* the model's time slots, in order; none when it is off
  Loads,            \* in-flight counts a request may find
  TTL,              \* cache_affinity_ttl_sec, in ticks
  RotationModulus   \* bound: the rotation counter is kept modulo this, a
                    \* multiple of every length it is reduced to

Backends == ToSet(Listed)

\* mode, affinity, stats and spill are server settings (spill: the cap
\* max_inflight_before_spill, or NoLimit); output is the model's cap; of[b] has
\* b's enabled flag and its provider's (on), tier, weight, limits, measured
\* score (0: not measured) and whether it caches prompts.
NoLimit == 100

ASSUME SetupsAssumption ==
  /\ \A s \in Setups :
       /\ s.mode \in {"failover", "explore"} /\ {s.affinity, s.stats} \subseteq BOOLEAN
       /\ s.spill \in Nat /\ s.output \in Nat
       /\ \A b \in Backends :
            /\ s.of[b].on \in BOOLEAN /\ s.of[b].caching \in {"yes", "no", "auto"}
            /\ {s.of[b].tier, s.of[b].weight, s.of[b].output, s.of[b].context,
                s.of[b].score} \subseteq Nat
  /\ \A i, j \in 1..Len(Listed) : Listed[i] = Listed[j] => i = j
  /\ Listed \in Seq(Backends)
  /\ RotationModulus \in Nat \ {0} /\ \A n \in 1..Len(Listed) : RotationModulus % n = 0

ASSUME RequestsAssumption ==
  /\ \A q \in Requests : q.order \in Seq(ToSet(q.order))
  /\ Loads \subseteq [Backends -> Nat] /\ TTL \in Nat

VARIABLES setup, limited, warmth, rotation,         \* what outlives a call
          stage, req, load, avail, held, flat, out, \* the call: load is in_flight
          freed,    \* history: exclusions that ended during the call
          firsts    \* history: see Remember

world == <<setup, limited, warmth, rotation, load>>
vars == <<setup, limited, warmth, rotation, stage, req, load, avail, held, flat,
          out, freed, firsts>>

Fact(b) == setup.of[b]

-----------------------------------------------------------------------------
\* Time slots

InRange(hour, from, to) ==
  IF from <= to THEN from <= hour /\ hour <= to ELSE hour >= from \/ hour <= to

Matches(slot, at) ==
  /\ slot.on
  /\ slot.days = {} \/ at.day \in slot.days
  /\ InRange(at.hour, slot.from, slot.to)

\* The backends the first matching slot lets through, all of them without one.
Allowed(at) ==
  LET i == SelectInSeq(Slots, LAMBDA s : Matches(s, at))
  IN  IF i = 0 \/ Slots[i].only = {} THEN Backends ELSE Slots[i].only

-----------------------------------------------------------------------------
\* Who is eligible, and who is preferred

Least(m, n) == IF m < n THEN m ELSE n

Fits(q, b) ==
  /\ Fact(b).on
  /\ Provider[b] \notin q.ignore
  /\ q.output <= Least(Fact(b).output, setup.output)
  /\ q.input + q.output <= Fact(b).context
  /\ b \in Allowed(q.at)

\* The elements of s at some of its positions, by their keys; those of one key
\* stay in the order they have in s.
Arranged(s, at, key) ==
  LET Place(i) == Cardinality({j \in at : \/ key[s[j]] < key[s[i]]
                                          \/ key[s[j]] = key[s[i]] /\ j <= i})
  IN  [n \in 1..Cardinality(at) |-> s[CHOOSE i \in at : Place(i) = n]]

SortedBy(s, key) == Arranged(s, DOMAIN s, key)
Among(s, S) == Arranged(s, {i \in DOMAIN s : s[i] \in S}, [b \in Backends |-> 0])

Tier == [b \in Backends |-> Fact(b).tier]
OfTier(s, k) == Among(s, {b \in Backends : Tier[b] = k})

Eligible(q) == Among(Listed, {b \in Backends : Fits(q, b)})

\* `order' lists providers; each brings its eligible backends in tier order.
Preferred(q) ==
  LET byTier == SortedBy(Eligible(q), Tier)
  IN  FlattenSeq([i \in 1..Len(q.order) |->
        Among(byTier, {b \in Backends : Provider[b] = q.order[i]})])

ByAffinity(q) == setup.affinity /\ q.key
OnlyPreferred(q) == Preferred(q) # <<>> /\ ~q.fallbacks /\ ~ByAffinity(q)

TieredAll(q) == Eligible(q)  \* mutant: preferred backends stay in their tiers

\* The candidates of the tiers: preferred ones are emitted on a path of their
\* own, unless affinity orders everything.
Tiered(q) ==
  IF ByAffinity(q) THEN Eligible(q)
  ELSE Among(Eligible(q), Backends \ ToSet(Preferred(q)))

-----------------------------------------------------------------------------
\* Order within a tier

\* Warm: an entry that has not expired.  sort=cache looks at the hit rate, which
\* is 0 for a backend that has only written to its cache.
Warm(b) == warmth[b].known /\ warmth[b].left > 0

SortKey(q, b) ==
  CASE q.sort = "cache" -> IF q.key /\ Warm(b) /\ warmth[b].hit THEN 0 ELSE 1
    [] OTHER            -> IF Fact(b).score = 0 THEN NoLimit ELSE NoLimit - Fact(b).score

Sort(q, s) == IF q.sort = "none" THEN s ELSE SortedBy(s, [b \in Backends |-> SortKey(q, b)])

From(s, i) == SubSeq(s, i, Len(s)) \o SubSeq(s, 1, i - 1)
RotatedStuck(s) == s  \* mutant: the counter is not used

Rotated(s) == IF s = <<>> THEN s ELSE From(s, ((rotation - 1) % Len(s)) + 1)

\* The draws of random(): every candidate of positive weight may be first.
Drawn(s, weighty) ==
  IF Len(s) <= 1 THEN {s}
  ELSE IF ToSet(s) \intersect weighty = {} THEN {Rotated(s)}
  ELSE {From(s, i) : i \in {j \in 1..Len(s) : s[j] \in weighty}}

\* Explore mode weighs by measured throughput (the unmeasured by the average of
\* the measured); otherwise configured weights count, when they are not all 1.
Lined(q, s) ==
  IF q.sort # "none" THEN {Sort(q, s)}
  ELSE IF setup.stats /\ setup.mode = "explore" /\ \E b \in Backends : Fact(b).score > 0
  THEN Drawn(s, IF \E c \in ToSet(s) : Fact(c).score > 0 THEN Backends ELSE {})
  ELSE IF \E b \in ToSet(s) : Fact(b).weight # 1 THEN Drawn(s, {b \in Backends : Fact(b).weight > 0})
  ELSE {Rotated(s)}

\* Explore mode starts at any tier and goes on in order.
TierOrders(q) ==
  IF setup.mode = "explore" /\ q.order = <<>>
  THEN { [b \in Backends |-> IF Tier[b] = k THEN -1 ELSE Tier[b]] :
           k \in {Tier[b] : b \in ToSet(Eligible(q))} }
  ELSE {Tier}

\* The candidates tier by tier, each tier in one of the orders it may have.
LineUps(q, s, place) ==
  { l \in SetToSeqs(ToSet(s)) :
      /\ \A i, j \in DOMAIN l : i < j => place[l[i]] <= place[l[j]]
      /\ \A b \in ToSet(s) : OfTier(l, Tier[b]) \in Lined(q, OfTier(s, Tier[b])) }

-----------------------------------------------------------------------------
\* Cache affinity

Rank(q, b) ==
  LET at == {i \in 1..Len(q.order) : q.order[i] = Provider[b]}
  IN  IF at = {} THEN Len(q.order) + 1 ELSE CHOOSE i \in at : \A j \in at : j <= i

TieBreak(q, s) == SortedBy(s, [b \in Backends |-> Rank(q, b)])

BandsUnspilt(q, s) ==  \* mutant: warm backends are never given up
  LET warm == {b \in Backends : Warm(b)}
      idle == {b \in Backends : load[b] = 0}
      busy(S) == TieBreak(q, SortedBy(Among(s, S \ idle), load))
  IN  TieBreak(q, Among(s, warm \intersect idle)) \o busy(warm)
      \o TieBreak(q, Among(s, idle \ warm)) \o busy(Backends \ warm)

\* Warm and idle, warm and busy, cold and idle, cold and busy; a warm one at its
\* cap spills into the last band.
Bands(q, s) ==
  LET warm == {b \in Backends : Warm(b)}
      idle == {b \in Backends : load[b] = 0}
      over == {b \in Backends : load[b] >= setup.spill}
      busy(S) == TieBreak(q, SortedBy(Among(s, S \ idle), load))
  IN  TieBreak(q, Among(s, warm \intersect idle))
      \o Among(busy(warm), Backends \ over)
      \o TieBreak(q, Among(s, idle \ warm))
      \o TieBreak(q, Among(busy(warm), over) \o busy(Backends \ warm))

-----------------------------------------------------------------------------
NoRequest == [order |-> <<>>, ignore |-> {}, fallbacks |-> TRUE, sort |-> "none",
              output |-> 0, input |-> 0, key |-> FALSE, at |-> [day |-> 0, hour |-> 0]]
Unseen == [known |-> FALSE, left |-> 0, hit |-> FALSE]

Init ==
  /\ setup \in Setups
  /\ limited = {} /\ load = [b \in Backends |-> 0] /\ rotation = 0
  /\ warmth = [b \in Backends |-> Unseen]
  /\ stage = "idle" /\ req = NoRequest
  /\ avail = {} /\ held = {} /\ flat = {} /\ out = <<>>
  /\ freed = {} /\ firsts = <<>>

locals == <<req, load, avail, held, flat, out, freed>>

\* Between two calls a 429, a snooze or a trip excludes a backend.
Exclude(b) ==
  /\ stage = "idle" /\ b \notin limited
  /\ limited' = limited \union {b}
  /\ firsts' = <<>>
  /\ UNCHANGED <<setup, warmth, rotation, stage, locals>>

ServedStacked(b, cached, written) ==  \* mutant: the TTL is extended, not restarted
  /\ stage = "idle"
  /\ Fact(b).caching = "yes"
  /\ warmth' = [warmth EXCEPT ![b] = [known |-> TRUE, left |-> @.left + TTL, hit |-> cached]]
  /\ firsts' = <<>>
  /\ UNCHANGED <<setup, limited, rotation, stage, locals>>

\* A success is reported for the conversation's fingerprint: record_cache_activity()
\* for a backend that is a caching one, or shows itself to be one by cached or
\* written tokens.  An entry that has expired but was not swept is taken up
\* again, its hits with it.
Served(b, cached, written) ==
  /\ stage = "idle"
  /\ \/ Fact(b).caching = "yes"
     \/ Fact(b).caching = "auto" /\ (cached \/ written)
  /\ warmth' = [warmth EXCEPT ![b] = [known |-> TRUE, left |-> TTL,
                                     hit |-> warmth[b].hit \/ cached]]
  /\ firsts' = <<>>
  /\ UNCHANGED <<setup, limited, rotation, stage, locals>>

\* Time: exclusions end at any moment, also in the middle of a call, and warmth
\* runs out (it is looked at once in a call, so that is before or after it).
Elapse(S) ==
  /\ S # {} /\ S \subseteq limited /\ stage # "done"
  /\ limited' = limited \ S
  /\ IF stage = "idle" THEN firsts' = <<>> /\ UNCHANGED freed
     ELSE freed' = freed \union S /\ UNCHANGED firsts
  /\ UNCHANGED <<setup, load, warmth, rotation, stage, req, avail, held, flat, out>>

Cool ==
  /\ stage = "idle"
  /\ \E b \in Backends : warmth[b].left > 0
  /\ warmth' = [b \in Backends |-> [warmth[b] EXCEPT !.left = IF @ > 0 THEN @ - 1 ELSE 0]]
  /\ firsts' = <<>>
  /\ UNCHANGED <<setup, limited, rotation, stage, locals>>

-----------------------------------------------------------------------------
\* The generator

Done(list) == stage' = "done" /\ out' = list

\* A request comes in, finding in_flight as it is.  With no candidate nothing is
\* emitted; with `order' and no fallbacks allowed the rotation is not consumed.
Call(q, l) ==
  /\ stage = "idle"
  /\ req' = q /\ load' = l
  /\ freed' = {} /\ avail' = {} /\ held' = {} /\ flat' = {}
  /\ firsts' = IF q = req THEN firsts ELSE <<>>
  /\ IF Eligible(q) = <<>> THEN Done(<<>>) /\ UNCHANGED rotation
     ELSE /\ stage' = IF OnlyPreferred(q) THEN "only" ELSE "tiers"
          /\ rotation' = IF OnlyPreferred(q) THEN rotation
                         ELSE (rotation + 1) % RotationModulus
          /\ UNCHANGED out
  /\ UNCHANGED <<setup, limited, warmth>>

Asked(s) == ToSet(s) \ limited

\* First pass of questions: who is routable.
AskAvailable ==
  /\ stage \in {"only", "tiers"}
  /\ avail' = Asked(IF stage = "only" THEN Preferred(req) ELSE Tiered(req))
  /\ stage' = IF stage = "only" THEN "only2" ELSE "tiers2"
  /\ UNCHANGED <<world, req, held, flat, out, freed, firsts>>

EmitOnlyUnsplit ==  \* mutant: the preferred are emitted as they come
  /\ stage = "only2"
  /\ Done(Sort(req, Preferred(req)))
  /\ UNCHANGED <<world, req, avail, held, flat, freed, firsts>>

\* Second pass, no fallbacks: who is not.
EmitOnly ==
  /\ stage = "only2"
  /\ Done(Sort(req, Among(Preferred(req), avail))
          \o Sort(req, Among(Preferred(req), limited)))
  /\ UNCHANGED <<world, req, avail, held, flat, freed, firsts>>

\* Second pass over the tiers: who is not.
AskLimited ==
  /\ stage = "tiers2"
  /\ held' = ToSet(Tiered(req)) \intersect limited
  /\ stage' = "preferred"
  /\ UNCHANGED <<world, req, avail, flat, out, freed, firsts>>

\* Third pass, over the preferred: who is routable now.
AskPreferred ==
  /\ stage = "preferred"
  /\ flat' = Asked(Preferred(req))
  /\ stage' = "emit"
  /\ UNCHANGED <<world, req, avail, held, out, freed, firsts>>

HeldByTier(S) == SortedBy(Sort(req, Among(Tiered(req), S)), Tier)

\* warm_backends_for() also sweeps the expired entries of the fingerprint.
Swept == [b \in Backends |-> IF Warm(b) THEN warmth[b] ELSE Unseen]

\* Last pass, over the preferred: who is not routable now.
EmitLegacy ==
  /\ stage = "emit" /\ ~ByAffinity(req)
  /\ \E place \in TierOrders(req) :
     \E tiers \in LineUps(req, Among(Tiered(req), avail), place) :
       Done(Sort(req, Among(Preferred(req), flat)) \o tiers
            \o Among(Preferred(req), limited) \o HeldByTier(held))
  /\ warmth' = IF req.sort = "cache" /\ req.key THEN Swept ELSE warmth
  /\ UNCHANGED <<setup, limited, load, rotation, req, avail, held, flat, freed, firsts>>

\* The same with affinity, where bands come before tiers.
EmitByAffinity ==
  /\ stage = "emit" /\ ByAffinity(req)
  /\ LET preferred == Preferred(req)
     IN  \E lined \in LineUps(req, Among(Eligible(req), avail), Tier) :
           LET candidates == Among(preferred, flat) \o Among(lined, Backends \ ToSet(preferred))
           IN  /\ Done(Bands(req, candidates) \o Among(preferred, limited)
                       \o HeldByTier(held \ ToSet(preferred)))
               /\ warmth' = IF candidates = <<>> THEN warmth ELSE Swept
  /\ UNCHANGED <<setup, limited, load, rotation, req, avail, held, flat, freed, firsts>>

\* Requests that no order, sort, weight, measured speed or affinity decides for.
Plain(q) ==
  /\ q.order = <<>> /\ q.sort = "none" /\ ~ByAffinity(q) /\ setup.mode = "failover"
  /\ \A b \in Backends : Fact(b).weight = 1

\* The list is used up.  History: who came first in the latest plain calls that
\* asked for the same and found the world unchanged.
Return ==
  /\ stage = "done"
  /\ stage' = "idle" /\ out' = <<>> /\ avail' = {} /\ held' = {} /\ flat' = {}
  /\ freed' = {} /\ load' = [b \in Backends |-> 0]
  /\ IF Plain(req) /\ out # <<>>
     THEN /\ UNCHANGED req
          /\ firsts' = IF freed # {} THEN <<>>
                       ELSE LET s == Append(firsts, Head(out))
                            IN  IF Len(s) > Len(Listed) THEN Tail(s) ELSE s
     ELSE req' = NoRequest /\ firsts' = <<>>
  /\ UNCHANGED <<setup, limited, warmth, rotation>>

Next ==
  \/ \E b \in Backends : Exclude(b)
  \/ \E b \in Backends, cached, written \in BOOLEAN : Served(b, cached, written)
  \/ \E S \in SUBSET Backends : Elapse(S)
  \/ Cool
  \/ \E q \in Requests, l \in Loads : Call(q, l)
  \/ AskAvailable \/ EmitOnly \/ AskLimited \/ AskPreferred
  \/ EmitLegacy \/ EmitByAffinity
  \/ Return

Spec == Init /\ [][Next]_vars

-----------------------------------------------------------------------------
\* Properties

\* Every state the selection goes through is well formed.
TypeOK ==
  /\ setup \in Setups /\ limited \subseteq Backends
  /\ load \in [Backends -> Nat] /\ rotation \in 0..(RotationModulus - 1)
  /\ warmth \in [Backends -> [known : BOOLEAN, left : 0..TTL, hit : BOOLEAN]]
  /\ stage \in {"idle", "only", "only2", "tiers", "tiers2", "preferred", "emit", "done"}
  /\ {avail, held, flat, freed} \subseteq SUBSET Backends
  /\ ToSet(out) \subseteq Backends

\* b is not in the list before c is.
Ahead(c, b) == \A j \in DOMAIN out : out[j] = b => \E i \in 1..(j - 1) : out[i] = c
Candidates ==
  IF OnlyPreferred(req) THEN ToSet(Preferred(req)) ELSE ToSet(Eligible(req))

\* A request that names no provider twice.
Once(order) == \A i, j \in 1..Len(order) : order[i] = order[j] => i = j

\* The list offers nobody who is not eligible, nobody twice (unless the request
\* names a provider twice), and leaves nobody out but a backend whose exclusion
\* ended while the list was being made: such a one may be asked too late by the
\* pass that emits the available and too early by the pass that emits the rest.
NobodyIsLost ==
  stage = "done" =>
    /\ ToSet(out) \subseteq Candidates
    /\ Candidates \ ToSet(out) \subseteq freed
    /\ Once(req.order) => Cardinality(ToSet(out)) = Len(out)

\* Whatever orders the rest (tier, rotation, weights, sort, preference, warmth), a
\* backend that was excluded all the time comes after every backend that was
\* routable all the time: it is a last resort.
ExcludedComeLast ==
  stage = "done" =>
    \A b, c \in ToSet(out) :
      b \in limited /\ c \notin limited \union freed => Ahead(c, b)

\* The five bands of cache affinity, as the router's documentation has them.
Band(b) == CASE Warm(b) /\ load[b] = 0                           -> 1
             [] Warm(b) /\ load[b] > 0 /\ load[b] < setup.spill -> 2
             [] ~Warm(b) /\ load[b] = 0                          -> 3
             [] OTHER                                            -> 4

\* With affinity on, no tier, preference, weight or sort puts a backend of a
\* lower band before one of a higher band: a warm one wins until it is at its cap,
\* from where an idle cold one wins.
AffinityWins ==
  stage = "done" /\ ByAffinity(req) /\ freed = {} =>
    \A b, c \in ToSet(out) \ limited : Band(b) < Band(c) => Ahead(b, c)

\* As many equal requests as the leading tier has routable backends, with nothing
\* happening in between, are led by all of them in turn.
RotationIsFair ==
  LET open == ToSet(Eligible(req)) \ limited
      leaders == {b \in open : \A c \in open : Tier[b] <= Tier[c]}
  IN  stage = "idle" /\ Plain(req) =>
        \A i, j \in 1..Len(firsts) :
          i < j /\ j < i + Cardinality(leaders) => firsts[i] # firsts[j]
=============================================================================
