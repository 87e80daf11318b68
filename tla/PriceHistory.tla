---------------------------- MODULE PriceHistory -----------------------------
(***************************************************************************)
(* prices.json over time (pricing.rs).                                     *)
(*                                                                         *)
(* models.dev changes its prices, `turnpike prices pull' folds them into   *)
(* the file, and the user edits the file by hand as the README invites    *)
(* them to: a pull appends dated revisions and must neither reprice past   *)
(* calls nor lose what was written by hand.  A pull is one step here; its  *)
(* file operations are PriceFile's.                                        *)
(***************************************************************************)
EXTENDS PriceTable

CONSTANTS
  InitialFiles, \* what may be on disk at the start
  Upstreams,    \* what models.dev may list: Provider -> Model -> Listing
  HandRates,    \* rates a user may write
  Ahead,        \* how far ahead of now a user may date a revision
  MaxTime,      \* bound on the clock
  MaxChanges    \* bound on the edits by hand and the changes of models.dev

ASSUME HistoryAssumption ==
  /\ Ahead \in Nat /\ MaxTime \in Nat /\ MaxChanges \in Nat
  /\ HandRates \subseteq Rates /\ \A f \in InitialFiles : IsFile(f)
  /\ \A u \in Upstreams : DOMAIN u \subseteq Providers /\ \A p \in DOMAIN u : u[p] \in Listings

VARIABLES
  file,      \* the entries of prices.json, as they are spelled
  malformed, \* the JSON does not parse at the moment
  upstream,  \* models.dev
  clock,     \* now
  conflicts, \* the models the last pull named in its warning
  settled,   \* nothing but time has changed since the last pull that saved (history)
  changes    \* edits by hand and changes of models.dev so far

vars == <<file, malformed, upstream, clock, conflicts, settled, changes>>

Init ==
  /\ file \in InitialFiles /\ malformed = FALSE
  /\ upstream \in Upstreams
  /\ clock = 0 /\ conflicts = {} /\ settled = FALSE /\ changes = 0

Change == changes < MaxChanges /\ changes' = changes + 1

Tick ==
  /\ clock < MaxTime
  /\ clock' = clock + 1
  /\ UNCHANGED <<file, malformed, upstream, conflicts, settled, changes>>

Reprice ==
  /\ Change
  /\ upstream' \in Upstreams \ {upstream}
  /\ settled' = FALSE
  /\ UNCHANGED <<file, malformed, clock, conflicts>>

-----------------------------------------------------------------------------
(***************************************************************************)
(* The pull                                                                *)
(***************************************************************************)
ReadTable == Canonicalize(file)

Fetched == ParseModelsDev(upstream)

Pull ==
  /\ ~malformed
  /\ file' = AsFile(Merge(ReadTable, Fetched, clock))
  /\ conflicts' = WindowConflicts(ReadTable, Fetched)
  /\ settled' = TRUE
  /\ UNCHANGED <<malformed, upstream, clock, changes>>

\* The file does not parse: an error, and the file stays.
PullRefused ==
  /\ malformed
  /\ conflicts' = {}
  /\ UNCHANGED <<file, malformed, upstream, clock, settled, changes>>

-----------------------------------------------------------------------------
(***************************************************************************)
(* The user's editor                                                       *)
(***************************************************************************)
Save(k, entry) ==
  /\ Change
  /\ ~malformed
  /\ file' = [file EXCEPT ![k] = entry]
  /\ settled' = FALSE
  /\ UNCHANGED <<malformed, upstream, clock, conflicts>>

\* "pinned": true.
Pin(k) == Save(k, [file[k] EXCEPT !.pinned = TRUE])

\* A revision of the user's own.
Author(k, rates, from) ==
  Save(k, [file[k] EXCEPT !.revisions = Append(@, [from |-> from, rates |-> rates])])

\* effective_from is corrected.
Redate(k, i, from) == Save(k, [file[k] EXCEPT !.revisions[i].from = from])

\* off_peak is declared on the base entry, or on a revision.
Discount(k) == Save(k, [file[k] EXCEPT !.base.window = TRUE])
DiscountRevision(k, i) == Save(k, [file[k] EXCEPT !.revisions[i].rates.window = TRUE])

\* A slip of the pen, and its correction.
Typo ==
  /\ Change
  /\ ~malformed /\ malformed' = TRUE
  /\ UNCHANGED <<file, upstream, clock, conflicts, settled>>

Mend ==
  /\ malformed /\ malformed' = FALSE
  /\ UNCHANGED <<file, upstream, clock, conflicts, settled, changes>>

Edit ==
  \/ Typo \/ Mend
  \/ \E k \in DOMAIN file :
       \/ Pin(k) \/ Discount(k)
       \/ \E from \in 0..(clock + Ahead) :
            \/ \E rates \in HandRates : Author(k, rates, from)
            \/ \E i \in DOMAIN file[k].revisions : Redate(k, i, from)
       \/ \E i \in DOMAIN file[k].revisions : DiscountRevision(k, i)

Next == Tick \/ Reprice \/ Pull \/ PullRefused \/ Edit

Spec == Init /\ [][Next]_vars

-----------------------------------------------------------------------------
(***************************************************************************)
(* Properties                                                              *)
(***************************************************************************)
\* The type invariant: the file holds well-formed entries, and a pull leaves only the
\* lowercase spelling of each name (canonicalize's comment).
TypeOK ==
  /\ IsFile(file)
  /\ settled => \A k \in DOMAIN file : k.spelling = 0
  /\ malformed \in BOOLEAN /\ upstream \in Upstreams
  /\ clock \in 0..MaxTime /\ conflicts \subseteq Models
  /\ settled \in BOOLEAN /\ changes \in 0..MaxChanges

\* What pricing works with (PriceTable::load).
Table == Canonicalize(file)

\* The program, not the user, writes the file.
Saved == changes' = changes /\ file' # file

\* A pull does not reprice the past: for every model that had an entry, each earlier
\* instant keeps the rates it had (README: `old rows keep the price you actually
\* paid'; merge).
HistoryIsKept ==
  [][ Saved =>
        \A m \in DOMAIN Table :
          /\ m \in DOMAIN Table'
          /\ \A t \in 0..clock - 1 : RatesAt(Table'[m], t) = RatesAt(Table[m], t) ]_vars

\* A pull keeps all that was written by hand: the pin, the base entry with its
\* window, every revision and its date (merge: `Nothing is ever removed').
HandWorkIsKept ==
  [][ Saved =>
        \A m \in DOMAIN Table :
          /\ m \in DOMAIN Table'
          /\ Table'[m].pinned = Table[m].pinned /\ Table'[m].base = Table[m].base
          /\ \A i \in DOMAIN Table[m].revisions :
               /\ i \in DOMAIN Table'[m].revisions
               /\ Table'[m].revisions[i] = Table[m].revisions[i] ]_vars

\* After a pull the rates in force are models.dev's, but for pinned models and the
\* windows upstream does not know.
PullBringsUpToDate ==
  settled /\ ~malformed =>
    \A m \in DOMAIN Fetched :
      /\ m \in DOMAIN Table
      /\ Table[m].pinned \/ ~RatesDiffer(RatesAt(Table[m], clock), Newest(Fetched[m]))

\* Once pulled, the file stays as it is until the user or models.dev changes
\* something, however often it is pulled again (test: `pulling daily must not grow
\* the file').
PullingAgainAddsNothing == [][ settled => ~Saved ]_vars

\* A discount that applied now and no longer does after the pull is named in the
\* pull's warning (window_conflicts).
LostDiscountIsNamed ==
  [][ Saved => \A m \in DOMAIN Table :
        RatesAt(Table[m], clock).window /\ ~RatesAt(Table'[m], clock).window
          => m \in conflicts' ]_vars
=============================================================================
