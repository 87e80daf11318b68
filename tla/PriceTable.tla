----------------------------- MODULE PriceTable ------------------------------
(***************************************************************************)
(* What prices.json says of a model, and what a pull makes of it           *)
(* (pricing.rs).                                                           *)
(*                                                                         *)
(* Of a rate set are kept: plain, the input and output rates; cache, the   *)
(* two cache rates; tiers, which list of context tiers applies; window,    *)
(* whether an off-peak discount does.  Entries, tables and listings are    *)
(* values: no state here.                                                  *)
(***************************************************************************)
EXTENDS Integers, Sequences

CONSTANTS
  Models,     \* model names, in lowercase
  Claude,     \* those that start with `claude-'
  Spellings,  \* spellings of a name, the preferred first; 0 is the lowercase one
  Price,      \* rates per million tokens; 0 is free
  TierLists,  \* the lists of context tiers there are, but for the empty one
  Providers,  \* models.dev's providers in the order parse_models_dev takes them
  Anthropic

ASSUME PriceTableAssumption ==
  /\ Claude \subseteq Models /\ 0 \in Spellings /\ Spellings \subseteq Nat
  /\ 0 \in Price /\ Price \subseteq Nat
  /\ Providers \subseteq Nat
  /\ "unstated" \notin TierLists /\ "none" \notin TierLists

\* A field the JSON leaves out.
Unstated == -1

Rates == [plain : Price, cache : Price \cup {Unstated},
          tiers : {"unstated", "none"} \cup TierLists, window : BOOLEAN]

Revision == [from : Nat, rates : Rates]

ModelPrices == [base : Rates, cache_in_input : BOOLEAN, pinned : BOOLEAN,
                revisions : Seq(Revision)]

\* A table holds one entry per model, in memory and after a pull.
Tables == UNION {[M -> ModelPrices] : M \in SUBSET Models}

(***************************************************************************)
(* The rates in force                                                      *)
(***************************************************************************)
\* resolve: tiers left out are the base entry's; a cache rate left out is serde's
\* default.
Resolve(e, r) ==
  [plain  |-> r.plain,
   cache  |-> IF r.cache = Unstated THEN 0 ELSE r.cache,
   tiers  |-> IF r.tiers # "unstated" THEN r.tiers
              ELSE IF e.base.tiers # "unstated" THEN e.base.tiers ELSE "none",
   window |-> r.window]

\* max_by_key(effective_from): of the dated revisions, the last of the latest.
Latest(dated) ==
  CHOOSE i \in DOMAIN dated : \A j \in DOMAIN dated :
    \/ dated[j].from < dated[i].from
    \/ dated[j].from = dated[i].from /\ j <= i

LatestOf(e, dated) ==
  Resolve(e, IF DOMAIN dated = {} THEN e.base ELSE dated[Latest(dated)].rates)

InForce(e, at) ==
  [i \in {j \in DOMAIN e.revisions : e.revisions[j].from <= at} |-> e.revisions[i]]

RatesAt(e, at) == LatestOf(e, InForce(e, at))

\* Slip: the base entry in place of the newest revision.
NewestIsBase(e) == Resolve(e, e.base)

Newest(e) == LatestOf(e, e.revisions)

\* off_peak is not compared: models.dev has none.
RatesDiffer(a, b) == a.plain # b.plain \/ a.cache # b.cache \/ a.tiers # b.tiers

(***************************************************************************)
(* canonicalize: of the spellings of one name the listing that charges is  *)
(* kept, then the lowercase one, then the smaller one.                     *)
(***************************************************************************)
Key == [model : Models, spelling : Spellings]

IsFile(f) == DOMAIN f \subseteq Key /\ f \in [DOMAIN f -> ModelPrices]

HasRealRates(e) == Newest(e).plain > 0

SpellingsOf(file, m) == {s \in Spellings : [model |-> m, spelling |-> s] \in DOMAIN file}

EntryAt(file, m, s) == file[[model |-> m, spelling |-> s]]

Preferred(file, m) ==
  LET real == {s \in SpellingsOf(file, m) : HasRealRates(EntryAt(file, m, s))}
      best == IF real = {} THEN SpellingsOf(file, m) ELSE real
  IN  CHOOSE s \in best : \A r \in best : s <= r

Canonicalize(file) ==
  [m \in {k.model : k \in DOMAIN file} |-> EntryAt(file, m, Preferred(file, m))]

\* Slip: the last spelling is written.
AsFileAsSpelled(table) ==
  LET last == CHOOSE s \in Spellings : \A r \in Spellings : r <= s
  IN  [k \in {[model |-> m, spelling |-> last] : m \in DOMAIN table} |-> table[k.model]]

\* The table as a file: every key in lowercase.
AsFile(table) ==
  [k \in {[model |-> m, spelling |-> 0] : m \in DOMAIN table} |-> table[k.model]]

(***************************************************************************)
(* parse_models_dev: the first provider that lists a model gives its       *)
(* rates; cached tokens are part of the input everywhere but at Anthropic, *)
(* and never for Claude.                                                   *)
(***************************************************************************)
Listing == [plain : Price, cache : Price, tiers : {"unstated"} \cup TierLists]

Listings == UNION {[M -> Listing] : M \in SUBSET Models}

FirstListing(upstream, m) ==
  CHOOSE p \in DOMAIN upstream : /\ m \in DOMAIN upstream[p]
                                 /\ \A q \in DOMAIN upstream : m \in DOMAIN upstream[q] => p <= q

ParseModelsDev(upstream) ==
  [m \in UNION {DOMAIN upstream[p] : p \in DOMAIN upstream} |->
     LET p == FirstListing(upstream, m)
         l == upstream[p][m]
     IN  [base |-> [plain |-> l.plain, cache |-> l.cache, tiers |-> l.tiers, window |-> FALSE],
          cache_in_input |-> p # Anthropic /\ m \notin Claude,
          pinned |-> FALSE, revisions |-> <<>>]]

(***************************************************************************)
(* merge                                                                   *)
(***************************************************************************)
Moved(stored, incoming) == ~stored.pinned /\ RatesDiffer(Newest(stored), Newest(incoming))

\* A revision that upstream made states its tiers: no tiers is not `as before'.
Stated(stored, rates) ==
  IF rates.tiers = "unstated" /\ stored.base.tiers \in TierLists
    THEN [rates EXCEPT !.tiers = "none"] ELSE rates

\* Slip: the new rates replace the base.
MergeOverwrites(stored, incoming, now) ==
  IF stored.pinned THEN stored
  ELSE [stored EXCEPT !.base = incoming.base, !.cache_in_input = incoming.cache_in_input]

\* Slip: the new revision replaces the ones before it.
MergeKeepsLast(stored, incoming, now) ==
  IF Moved(stored, incoming)
    THEN [stored EXCEPT !.cache_in_input = incoming.cache_in_input,
                        !.revisions = <<[from |-> now, rates |-> Stated(stored, incoming.base)]>>]
    ELSE stored

\* Slip: the tiers upstream has dropped stay.
MergeInherits(stored, incoming, now) ==
  IF Moved(stored, incoming)
    THEN [stored EXCEPT !.cache_in_input = incoming.cache_in_input,
                        !.revisions = Append(@, [from |-> now, rates |-> incoming.base])]
    ELSE stored

MergeEntry(stored, incoming, now) ==
  IF stored.pinned THEN stored
  ELSE [stored EXCEPT
          !.cache_in_input = incoming.cache_in_input,
          !.revisions = IF Moved(stored, incoming)
                          THEN Append(@, [from |-> now, rates |-> Stated(stored, incoming.base)])
                          ELSE @]

Merge(table, fetched, now) ==
  [m \in DOMAIN table \cup DOMAIN fetched |->
     IF m \notin DOMAIN table THEN fetched[m]
     ELSE IF m \notin DOMAIN fetched THEN table[m]
     ELSE MergeEntry(table[m], fetched[m], now)]

\* Slip: the base entry's window is looked at.
BaseWindowConflicts(table, fetched) ==
  {m \in DOMAIN table \cap DOMAIN fetched :
     Moved(table[m], fetched[m]) /\ table[m].base.window}

\* window_conflicts: the models whose discount ends with the new revision.
WindowConflicts(table, fetched) ==
  {m \in DOMAIN table \cap DOMAIN fetched :
     Moved(table[m], fetched[m]) /\ Newest(table[m]).window}
=============================================================================
